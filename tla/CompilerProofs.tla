---------------------------- MODULE CompilerProofs -----------------------------
(***************************************************************************)
(* Whatever tree codegen_compile is given, and whatever its limits, the    *)
(* code it returns keeps the promise that the interpreter and the debugger *)
(* rest on.                                                                *)
(***************************************************************************)
EXTENDS Compiler, SequenceTheorems, WellFoundedInduction, TLAPS

(***************************************************************************)
(* The invariant.  The code so far is an initial piece of promised code:   *)
(* what control falls into is there already or is emitted next, and the    *)
(* only jumps that lead nowhere yet are the holes of open calls.           *)
(***************************************************************************)

Emittable == BinaryOps \cup {OP_PUSH, OP_JMP, OP_JZ, OP_STORE, OP_LOAD, OP_PRINT}
Jumps == {OP_JMP, OP_JZ}

\* What arrives somewhere is what is said to be there; or more, once a value was
\* left behind.
Arrives(there, cells, more) == there <= cells /\ (more \/ there = cells)

\* The instruction at offset at of c does what is promised, jumps to be patched aside.
Instruction(c, d, holes, slots, more, at) ==
  LET op == c[at + 1]
      left == d[at] - Pops(op) + Pushes(op)
      operand == WordIn(c, at + 2)
  IN  /\ op \in Emittable
      /\ at + Size(op) \in DOMAIN d
      /\ d[at] >= Pops(op)
      /\ op # OP_JMP => Arrives(d[at + Size(op)], left, more)
      /\ op \in {OP_STORE, OP_LOAD} => operand \in 0..slots - 1
      /\ op \in Jumps /\ at + 1 \notin holes =>
           operand \in DOMAIN d /\ Arrives(d[operand], left, more)

CodeSoFar(c, d, holes, slots, more) ==
  /\ c \in Seq(Byte)
  /\ d \in [DOMAIN d -> Nat]
  /\ {0, Len(c)} \subseteq DOMAIN d
  /\ DOMAIN d \subseteq 0..Len(c)
  /\ d[0] = 0
  /\ \A a, b \in DOMAIN d : a < b => a + Size(c[a + 1]) <= b
  /\ \A at \in DOMAIN d \ {Len(c)} : Instruction(c, d, holes, slots, more, at)

\* An open call: its loop starts at an instruction with the depth it began with, and
\* its hole is that of a jump that carries that depth to wherever it will be patched.
CallOK(f, c, d, slots, more) ==
  /\ f.start \in DOMAIN d
  /\ Arrives(d[f.start], f.base, more)
  /\ f.hole # 0 <=> \/ f.node.type \in {"IF", "WHILE"} /\ f.at = "right"
                    \/ f.node.type = "IF" /\ f.at = "extra"
  /\ f.hole # 0 =>
       /\ f.hole - 1 \in DOMAIN d \ {Len(c)}
       /\ c[f.hole] \in Jumps
       /\ d[f.hole - 1] = f.base + Pops(c[f.hole])
  /\ f.node.type \in {"DECL", "ASSIGN"} /\ f.at = "left" => f.slot \in 0..slots - 1

Names == {n.name : n \in {m \in Trees : m.type \in {"VAR", "DECL", "ASSIGN"}}}
Mapping == [bytecode_offset : Nat, source_line : Nat \ {0}]
Progs == [code : Seq(Byte), source_map : Seq(Mapping), vars : Seq(Names)]
CallRecords == [node : Trees, at : {"enter", "left", "right", "extra", "return"},
                slot : Int, start : Nat, hole : Nat, base : Nat]

Worth(n) == IF IsExpression(n) THEN 1 ELSE 0

\* The open calls s, with code c, depth d and so many slots: a child leaves its caller
\* at least the cells it goes on with.
CallsOK(s, c, d, slots, more) ==
  /\ s \in Seq(CallRecords)
  /\ \A k \in 1..Len(s) : CallOK(s[k], c, d, slots, more)
  /\ \A k \in 1..Len(s) - 1 : Held(s[k]) <= s[k + 1].base + Worth(s[k + 1].node)

HolesOf(s) == {s[k].hole : k \in DOMAIN s} \ {0}

OnTop == Cells = IF calls = << >> THEN 0 ELSE Held(Current)

\* Lines are entered at instructions, the first at offset 0.
MapOK(map, d) ==
  /\ \A k \in 1..Len(map) : map[k].bytecode_offset \in DOMAIN d
  /\ map # << >> => map[1].bytecode_offset = 0

Unmapped ==
  prog.source_map = << >> /\ MAX_SOURCE_MAP > 0 /\ calls # << >> =>
    /\ Len(calls) = 1
    /\ Current.at = "return" \/ (Current.at = "enter" /\ prog.code = << >>)

InCodegen ==
  /\ prog \in Progs /\ ~Exits(prog)
  /\ CodeSoFar(prog.code, depth, HolesOf(calls), Len(prog.vars), leaves)
  /\ CallsOK(calls, prog.code, depth, Len(prog.vars), leaves)
  /\ leaves \in BOOLEAN
  /\ OnTop
  /\ MapOK(prog.source_map, depth)
  /\ Unmapped

Returned ==
  /\ prog \in Progs
  /\ WholeCode(prog.code, DOMAIN depth)
  /\ Balanced(prog.code, depth, MAX_CODEGEN_VARS)
  /\ ~leaves => Exact(prog.code, depth)
  /\ MapOK(prog.source_map, [k \in DOMAIN depth \ {Offset(prog)} |-> depth[k]])

CInv ==
  /\ stage \in {"idle", "codegen", "returned", "exited"}
  /\ stage = "idle" => /\ prog = NoCode /\ calls = << >>
                       /\ depth = [k \in {0} |-> 0] /\ leaves = FALSE
  /\ stage = "codegen" => InCodegen
  /\ stage = "returned" => Returned
-----------------------------------------------------------------------------
(* The bytes of an operand. *)

LEMMA Powers == 256 ^ 0 = 1 /\ 256 ^ 1 = 256 /\ 256 ^ 2 = 65536 /\ 256 ^ 3 = 16777216
BY SMT

(* A number is the sum of its bytes. *)
LEMMA Digits ==
  ASSUME NEW v \in Nat
  PROVE  /\ v < 32768 => v = (v % 256) + 256 * ((v \div 256) % 256)
         /\ v < 8388608 => v = (v % 256) + 256 * ((v \div 256) % 256)
                                 + 65536 * ((v \div 65536) % 256)
         /\ v < 2147483648 => v = (v % 256) + 256 * ((v \div 256) % 256)
                                    + 65536 * ((v \div 65536) % 256)
                                    + 16777216 * ((v \div 16777216) % 256)
<1>1. v < 32768 => v = (v % 256) + 256 * ((v \div 256) % 256)
  BY SMT
<1>2. v < 8388608 => v = (v % 256) + 256 * ((v \div 256) % 256)
                           + 65536 * ((v \div 65536) % 256)
  BY SMT
<1>3. v < 2147483648 => v = (v % 256) + 256 * ((v \div 256) % 256)
                              + 65536 * ((v \div 65536) % 256)
                              + 16777216 * ((v \div 16777216) % 256)
  BY SMT
<1> QED BY <1>1, <1>2, <1>3, SMT

LEMMA BytesAreBytes ==
  ASSUME NEW v \in Int
  PROVE  Bytes(v) \in Seq(Byte) /\ Len(Bytes(v)) = IntBytes
<1>0. IntBytes \in Nat
  BY WordAssumption
<1>1. \A k \in 1..IntBytes : (v \div 256 ^ (k - 1)) % 256 \in Byte
  <2> SUFFICES ASSUME NEW k \in 1..IntBytes PROVE (v \div 256 ^ (k - 1)) % 256 \in Byte
    OBVIOUS
  <2>1. 256 ^ (k - 1) \in Nat \ {0}
    <3>0. IntBytes \in 1..4
      BY WordAssumption
    <3>1. k - 1 = 0 \/ k - 1 = 1 \/ k - 1 = 2 \/ k - 1 = 3
      BY <3>0
    <3>2. 256 ^ (k - 1) \in {256 ^ 0, 256 ^ 1, 256 ^ 2, 256 ^ 3}
      BY <3>1, Zenon
    <3> QED BY <3>2, Powers, SMT
  <2>2. v \div 256 ^ (k - 1) \in Int
    <3> DEFINE q == 256 ^ (k - 1)
    <3> HIDE DEF q
    <3> QED BY <2>1 DEF q
  <2> DEFINE x == v \div 256 ^ (k - 1)
  <2> HIDE DEF x
  <2> QED BY <2>2 DEF Byte, x
<1> DEFINE e(k) == (v \div 256 ^ (k - 1)) % 256
<1>2. Bytes(v) = [k \in 1..IntBytes |-> e(k)]
  BY DEF Bytes
<1> HIDE DEF e
<1> QED BY <1>0, <1>1, <1>2, IsASeq, LenProperties DEF e

(* An operand that is written is read back, if it is no negative number. *)
LEMMA BytesRead ==
  ASSUME NEW v \in 0..HalfRange - 1, NEW c, NEW i \in Int,
         \A k \in 0..IntBytes - 1 : c[i + k] = Bytes(v)[k + 1]
  PROVE  WordIn(c, i) = v
<1> DEFINE b(k) == IF k < IntBytes THEN c[i + k] ELSE 0
           x == b(0) + 256 * b(1) + 65536 * b(2) + 16777216 * b(3)
<1>1. \A k \in 0..IntBytes - 1 : c[i + k] = (v \div 256 ^ k) % 256
  <2> SUFFICES ASSUME NEW k \in 0..IntBytes - 1 PROVE c[i + k] = (v \div 256 ^ k) % 256
    OBVIOUS
  <2>1. k + 1 \in 1..IntBytes /\ (k + 1) - 1 = k
    BY WordAssumption
  <2>2. Bytes(v)[k + 1] = (v \div 256 ^ ((k + 1) - 1)) % 256
    BY <2>1 DEF Bytes
  <2> QED BY <2>1, <2>2
<1>2. /\ b(0) = (v % 256)
      /\ b(1) = IF 1 < IntBytes THEN (v \div 256) % 256 ELSE 0
      /\ b(2) = IF 2 < IntBytes THEN (v \div 65536) % 256 ELSE 0
      /\ b(3) = IF 3 < IntBytes THEN (v \div 16777216) % 256 ELSE 0
  <2>2. ASSUME NEW k \in 0..3, k < IntBytes PROVE b(k) = (v \div 256 ^ k) % 256
    BY <1>1, <2>2, WordAssumption, SMT
  <2>3. v \div 1 = v
    BY WordAssumption, SMT
  <2>4. b(0) = (v % 256)
    BY <2>2, <2>3, Powers, WordAssumption, SMT
  <2> HIDE DEF b
  <2>5. \A k \in 0..3 : ~(k < IntBytes) => b(k) = 0
    BY SMT DEF b
  <2> QED BY <2>2, <2>4, <2>5, Powers, WordAssumption, SMT
<1>5. x = v
  <2> HIDE DEF b
  <2>1. CASE IntBytes = 1
    <3>1. HalfRange = 2 ^ 7
      BY <2>1, WordAssumption, SMT
    <3> QED BY <1>2, <2>1, <3>1, SMT
  <2>2. CASE IntBytes = 2
    <3>1. HalfRange = 2 ^ 15
      BY <2>2, WordAssumption, SMT
    <3>2. v \in Nat /\ v < 32768
      BY <3>1, SMT
    <3>3. b(0) = (v % 256) /\ b(1) = (v \div 256) % 256 /\ b(2) = 0 /\ b(3) = 0
      BY <1>2, <2>2, SMT
    <3>4. v = (v % 256) + 256 * ((v \div 256) % 256)
      BY <3>2, Digits, SMT
    <3>5. b(0) \in Int /\ b(1) \in Int /\ v = b(0) + 256 * b(1)
      BY <3>2, <3>3, <3>4, SMT
    <3> QED BY <3>3, <3>5, SMT
  <2>3. CASE IntBytes = 3
    <3>1. HalfRange = 2 ^ 23
      BY <2>3, WordAssumption, SMT
    <3> QED BY <1>2, <2>3, <3>1, Digits, SMT
  <2>4. CASE IntBytes = 4
    <3>1. HalfRange = 2 ^ 31
      BY <2>4, WordAssumption, SMT
    <3> QED BY <1>2, <2>4, <3>1, Digits, SMT
  <2> QED BY <2>1, <2>2, <2>3, <2>4, WordAssumption, SMT
<1>3. Wrap(v) = v
  BY WordAssumption DEF Wrap
<1>4. WordIn(c, i) = Wrap(x)
  BY DEF WordIn
<1> QED BY <1>3, <1>4, <1>5
-----------------------------------------------------------------------------
(* The instructions that are emitted.                                       *)

LEMMA EmittedOps ==
  ASSUME NEW op \in Emittable
  PROVE  /\ op \in Opcodes \ {OP_CALL, OP_RET, OP_HALT} /\ op \in Byte
         /\ Pops(op) \in 0..2 /\ Pushes(op) \in 0..2
         /\ Size(op) = IF op \in BinaryOps \cup {OP_PRINT} THEN 1 ELSE 1 + IntBytes
         /\ op \in BranchOps \cup {OP_JMP} <=> op \in Jumps
BY DEF Emittable, Opcodes, OperandOps, BinaryOps, BranchOps, Jumps, Byte, Pops, Pushes, Size,
       OP_PUSH, OP_POP, OP_DUP, OP_ADD, OP_SUB, OP_MUL, OP_DIV, OP_CMP, OP_CMP_EQ, OP_CMP_NE,
       OP_CMP_GT, OP_CMP_LE, OP_CMP_GE, OP_JMP, OP_JZ, OP_JNZ, OP_STORE, OP_LOAD, OP_CALL,
       OP_RET, OP_PRINT, OP_HALT

LEMMA WordKept ==
  ASSUME NEW c, NEW c1, NEW i \in Int, \A k \in 0..IntBytes - 1 : c1[i + k] = c[i + k]
  PROVE  WordIn(c1, i) = WordIn(c, i)
<1> DEFINE b(k) == IF k < IntBytes THEN c[i + k] ELSE 0
           b1(k) == IF k < IntBytes THEN c1[i + k] ELSE 0
<1>1. ASSUME NEW k \in 0..3 PROVE b1(k) = b(k)
  BY WordAssumption
<1>2. /\ WordIn(c, i) = Wrap(b(0) + 256 * b(1) + 65536 * b(2) + 16777216 * b(3))
      /\ WordIn(c1, i) = Wrap(b1(0) + 256 * b1(1) + 65536 * b1(2) + 16777216 * b1(3))
  BY DEF WordIn
<1> HIDE DEF b, b1
<1>3. b1(0) = b(0) /\ b1(1) = b(1) /\ b1(2) = b(2) /\ b1(3) = b(3)
  BY <1>1, SMT
<1> QED BY <1>2, <1>3, SMT

LEMMA ArrivesTwice ==
  ASSUME NEW x \in Int, NEW y \in Int, NEW z \in Int, NEW more \in BOOLEAN, NEW more1 \in BOOLEAN,
         more => more1, Arrives(x, y, more1), Arrives(y, z, more)
  PROVE  Arrives(x, z, more1)
BY DEF Arrives

(* An instruction goes on doing what is promised in code that has it and what *)
(* it leads to.                                                               *)
Keeps(c, d, H, n, more, c1, d1, H1, n1, more1, at) ==
  /\ c1[at + 1] = c[at + 1]
  /\ WordIn(c1, at + 2) = WordIn(c, at + 2)
  /\ at \in DOMAIN d
  /\ d \in [DOMAIN d -> Nat]
  /\ d1 \in [DOMAIN d1 -> Nat]
  /\ DOMAIN d \subseteq DOMAIN d1
  /\ d1[at] = d[at]
  /\ \A k \in DOMAIN d : Arrives(d1[k], d[k], more1)
  /\ at + 1 \in H => at + 1 \in H1
  /\ n \in Int /\ n1 \in Int /\ n <= n1
  /\ more \in BOOLEAN /\ more1 \in BOOLEAN /\ (more => more1)

LEMMA InstructionKept ==
  ASSUME NEW c, NEW c1, NEW d, NEW d1, NEW H, NEW H1, NEW n, NEW n1, NEW more, NEW more1, NEW at,
         Instruction(c, d, H, n, more, at),
         Keeps(c, d, H, n, more, c1, d1, H1, n1, more1, at)
  PROVE  Instruction(c1, d1, H1, n1, more1, at)
<1> DEFINE op == c[at + 1]
           left == d[at] - Pops(op) + Pushes(op)
           operand == WordIn(c, at + 2)
<1>1. /\ op \in Emittable
      /\ at + Size(op) \in DOMAIN d
      /\ d[at] >= Pops(op)
      /\ op # OP_JMP => Arrives(d[at + Size(op)], left, more)
      /\ op \in {OP_STORE, OP_LOAD} => operand \in 0..n - 1
      /\ op \in Jumps /\ at + 1 \notin H => operand \in DOMAIN d /\ Arrives(d[operand], left, more)
  BY DEF Instruction
<1>2. d[at] \in Nat /\ Pops(op) \in 0..2 /\ Pushes(op) \in 0..2
  BY <1>1, EmittedOps DEF Keeps
<1>3. left \in Int
  BY <1>2
<1>4. ASSUME NEW k \in DOMAIN d, Arrives(d[k], left, more)
      PROVE  k \in DOMAIN d1 /\ Arrives(d1[k], left, more1)
  <2>1. /\ d[k] \in Int /\ d1[k] \in Int /\ Arrives(d1[k], d[k], more1)
        /\ more \in BOOLEAN /\ more1 \in BOOLEAN /\ (more => more1)
    BY DEF Keeps
  <2>2. k \in DOMAIN d1
    BY DEF Keeps
  <2> HIDE DEF left
  <2> QED BY <1>3, <1>4, <2>1, <2>2, ArrivesTwice
<1>5. operand \in 0..n - 1 => operand \in 0..n1 - 1
  <2> HIDE DEF operand
  <2> QED BY DEF Keeps
<1>6. /\ at + Size(op) \in DOMAIN d1
      /\ op # OP_JMP => Arrives(d1[at + Size(op)], left, more1)
      /\ op \in Jumps /\ at + 1 \notin H1 =>
           operand \in DOMAIN d1 /\ Arrives(d1[operand], left, more1)
  <2>1. at + 1 \in H => at + 1 \in H1
    BY DEF Keeps
  <2> HIDE DEF left, operand, op
  <2>2. at + Size(op) \in DOMAIN d1
    BY <1>1 DEF Keeps
  <2>3. op # OP_JMP => Arrives(d1[at + Size(op)], left, more1)
    BY <1>1, <1>4
  <2>4. op \in Jumps /\ at + 1 \notin H1 =>
          operand \in DOMAIN d1 /\ Arrives(d1[operand], left, more1)
    BY <1>1, <1>4, <2>1
  <2> QED BY <2>2, <2>3, <2>4
<1> QED BY <1>1, <1>5, <1>6 DEF Instruction, Keeps
-----------------------------------------------------------------------------
(* What emitting, patching and returning do to the code so far.             *)

Grown(d, offset, cells) ==
  [k \in DOMAIN d \cup {offset} |-> IF k = offset THEN cells ELSE d[k]]

LEMMA GrownDepth ==
  ASSUME NEW d, d \in [DOMAIN d -> Nat], NEW offset \in Nat, NEW cells \in Nat
  PROVE  /\ Grown(d, offset, cells) \in [DOMAIN Grown(d, offset, cells) -> Nat]
         /\ DOMAIN Grown(d, offset, cells) = DOMAIN d \cup {offset}
         /\ Grown(d, offset, cells)[offset] = cells
         /\ \A k \in DOMAIN d : k # offset => Grown(d, offset, cells)[k] = d[k]
BY DEF Grown

(* The bytes of an instruction of the code so far.                          *)
LEMMA Inside ==
  ASSUME NEW c, NEW d, NEW H, NEW n \in Int, NEW more \in BOOLEAN,
         CodeSoFar(c, d, H, n, more), NEW at \in DOMAIN d \ {Len(c)}
  PROVE  /\ at \in Nat /\ at < Len(c) /\ Len(c) \in Nat
         /\ c[at + 1] \in Emittable
         /\ at + Size(c[at + 1]) <= Len(c)
         /\ c[at + 1] \in OperandOps => at + 1 + IntBytes <= Len(c)
         /\ d[at] \in Nat
<1>1. /\ Len(c) \in Nat /\ DOMAIN d \subseteq 0..Len(c) /\ Len(c) \in DOMAIN d
      /\ d \in [DOMAIN d -> Nat] /\ IntBytes \in Nat
  BY LenProperties, WordAssumption DEF CodeSoFar
<1>2. at \in Nat /\ at < Len(c)
  BY <1>1
<1>3. c[at + 1] \in Emittable
  BY DEF CodeSoFar, Instruction
<1>4. at + Size(c[at + 1]) <= Len(c)
  BY <1>1, <1>2 DEF CodeSoFar
<1> QED BY <1>1, <1>2, <1>3, <1>4 DEF Size

\* c1 is c with one more instruction, op, that leaves so many cells; H1 says whether
\* it is a jump to be patched.
Grows(c, d, H, n, more, c1, op, cells, H1) ==
  LET operand == WordIn(c1, Len(c) + 2)
      left == d[Len(c)] - Pops(op) + Pushes(op)
  IN  /\ c1 \in Seq(Byte)
      /\ op \in Emittable
      /\ cells \in Nat
      /\ Len(c1) = Len(c) + Size(op)
      /\ \A i \in 1..Len(c) : c1[i] = c[i]
      /\ c1[Len(c) + 1] = op
      /\ d[Len(c)] >= Pops(op)
      /\ op # OP_JMP => cells = left
      /\ op \in {OP_STORE, OP_LOAD} => operand \in 0..n - 1
      /\ H \subseteq H1
      /\ op \in Jumps /\ Len(c) + 1 \notin H1 => operand \in DOMAIN d /\ Arrives(d[operand], left, more)

LEMMA GrowCode ==
  ASSUME NEW c, NEW d, NEW H, NEW n \in Int, NEW more \in BOOLEAN,
         CodeSoFar(c, d, H, n, more),
         NEW c1, NEW op, NEW cells, NEW H1,
         Grows(c, d, H, n, more, c1, op, cells, H1)
  PROVE  CodeSoFar(c1, Grown(d, Len(c1), cells), H1, n, more)
<1> DEFINE d1 == Grown(d, Len(c1), cells)
           e == Len(c)
<1>1. /\ e \in Nat /\ DOMAIN d \subseteq 0..e /\ {0, e} \subseteq DOMAIN d
      /\ d \in [DOMAIN d -> Nat] /\ d[0] = 0 /\ IntBytes \in 1..4
  BY LenProperties, WordAssumption DEF CodeSoFar
<1>2. /\ Len(c1) = e + Size(op) /\ e < Len(c1) /\ Len(c1) \in Nat
      /\ op \in Emittable /\ c1[e + 1] = op
  <2>1. Len(c1) = e + Size(op) /\ op \in Emittable /\ c1[e + 1] = op
    BY DEF Grows
  <2> QED BY <1>1, <2>1 DEF Size
<1>3. /\ d1 \in [DOMAIN d1 -> Nat] /\ DOMAIN d1 = DOMAIN d \cup {Len(c1)}
      /\ d1[Len(c1)] = cells /\ \A k \in DOMAIN d : d1[k] = d[k]
  <2>1. cells \in Nat
    BY DEF Grows
  <2>2. /\ d1 \in [DOMAIN d1 -> Nat] /\ DOMAIN d1 = DOMAIN d \cup {Len(c1)}
        /\ d1[Len(c1)] = cells /\ \A k \in DOMAIN d : k # Len(c1) => d1[k] = d[k]
    <3>1. d \in [DOMAIN d -> Nat] /\ Len(c1) \in Nat
      BY <1>1, <1>2
    <3>2. \A o \in Nat, x \in Nat :
            /\ Grown(d, o, x) \in [DOMAIN Grown(d, o, x) -> Nat]
            /\ DOMAIN Grown(d, o, x) = DOMAIN d \cup {o}
            /\ Grown(d, o, x)[o] = x
            /\ \A k \in DOMAIN d : k # o => Grown(d, o, x)[k] = d[k]
      BY <3>1, GrownDepth
    <3> QED BY <2>1, <3>1, <3>2
  <2>3. \A k \in DOMAIN d : k # Len(c1)
    BY <1>1, <1>2
  <2> HIDE DEF d1
  <2> QED BY <2>2, <2>3
<1> HIDE DEF d1
<1>0. \A i \in 1..e : c1[i] = c[i]
  BY DEF Grows
<1>4. ASSUME NEW at \in DOMAIN d \ {e} PROVE c1[at + 1] = c[at + 1]
  <2>1. at + 1 \in 1..e
    BY <1>1
  <2> QED BY <1>0, <2>1
<1>5. \A a, b \in DOMAIN d1 : a < b => a + Size(c1[a + 1]) <= b
  <2> SUFFICES ASSUME NEW a \in DOMAIN d1, NEW b \in DOMAIN d1, a < b
               PROVE  a + Size(c1[a + 1]) <= b
    OBVIOUS
  <2>1. CASE a \in DOMAIN d \ {e} /\ b \in DOMAIN d
    BY <1>4, <2>1 DEF CodeSoFar
  <2>2. CASE a \in DOMAIN d \ {e} /\ b = Len(c1)
    <3>1. a \in Nat /\ a + Size(c[a + 1]) <= e
      BY <2>2, Inside
    <3>2. Size(c[a + 1]) \in Nat /\ c1[a + 1] = c[a + 1]
      BY <1>1, <1>4, <2>2 DEF Size
    <3> QED BY <1>1, <1>2, <2>2, <3>1, <3>2
  <2>3. CASE a = e /\ b = Len(c1)
    BY <1>1, <1>2, <2>3
  <2> QED BY <1>1, <1>2, <1>3, <2>1, <2>2, <2>3
<1>6. ASSUME NEW at \in DOMAIN d \ {e} PROVE Instruction(c1, d1, H1, n, more, at)
  <2>1. at \in Nat /\ at + Size(c[at + 1]) <= e /\ c1[at + 1] = c[at + 1]
    BY <1>4, Inside
  <2>2. CASE c[at + 1] \in OperandOps
    <3>1. at + 1 + IntBytes <= e
      BY <2>2, Inside
    <3>2. ASSUME NEW k \in 0..IntBytes - 1 PROVE c1[at + 2 + k] = c[at + 2 + k]
      <4>1. at + 2 + k \in 1..e
        <5>1. at \in Nat /\ e \in Nat /\ IntBytes \in Nat
          BY <1>1, <2>1
        <5> HIDE DEF e
        <5> QED BY <3>1, <5>1
      <4> QED BY <1>0, <4>1
    <3>3. WordIn(c1, at + 2) = WordIn(c, at + 2)
      BY <2>1, <3>2, WordKept
    <3>4. Instruction(c, d, H, n, more, at)
      BY DEF CodeSoFar
    <3>5. \A k \in DOMAIN d : Arrives(d1[k], d[k], more)
      BY <1>1, <1>3 DEF Arrives
    <3>6. Keeps(c, d, H, n, more, c1, d1, H1, n, more, at)
      BY <1>1, <1>3, <2>1, <3>3, <3>5 DEF Keeps, Grows
    <3> QED BY <3>4, <3>6, InstructionKept
  <2>3. CASE c[at + 1] \notin OperandOps
    <3>1. Instruction(c, d, H, n, more, at) /\ at + Size(c[at + 1]) \in DOMAIN d
      BY DEF CodeSoFar, Instruction
    <3>2. c[at + 1] \notin Jumps \cup {OP_STORE, OP_LOAD, OP_JMP}
      BY <2>3 DEF Jumps, OperandOps, BranchOps
    <3> QED BY <1>1, <1>3, <2>1, <3>1, <3>2 DEF Instruction
  <2> QED BY <2>2, <2>3
<1>7. Instruction(c1, d1, H1, n, more, e)
  <2> DEFINE w == WordIn(c1, e + 2)
             left == d[e] - Pops(op) + Pushes(op)
  <2>1. e + Size(op) \in DOMAIN d1 /\ d1[e] = d[e] /\ d1[e + Size(op)] = cells
    BY <1>1, <1>2, <1>3
  <2>2. op # OP_JMP => Arrives(cells, left, more)
    <3>1. op # OP_JMP => cells = left /\ cells \in Nat
      BY DEF Grows
    <3> HIDE DEF left
    <3> QED BY <3>1 DEF Arrives
  <2>3. op \in Jumps /\ e + 1 \notin H1 => w \in DOMAIN d1 /\ Arrives(d1[w], left, more)
    <3>1. op \in Jumps /\ e + 1 \notin H1 => w \in DOMAIN d /\ Arrives(d[w], left, more)
      BY DEF Grows
    <3> HIDE DEF w, left
    <3> QED BY <1>3, <3>1
  <2>4. d[e] >= Pops(op) /\ (op \in {OP_STORE, OP_LOAD} => w \in 0..n - 1)
    BY DEF Grows
  <2> QED BY <1>2, <2>1, <2>2, <2>3, <2>4 DEF Instruction
<1>8. DOMAIN d1 \subseteq 0..Len(c1) /\ {0, Len(c1)} \subseteq DOMAIN d1 /\ d1[0] = 0
  BY <1>1, <1>2, <1>3
<1>9. ASSUME NEW at \in DOMAIN d1 \ {Len(c1)} PROVE Instruction(c1, d1, H1, n, more, at)
  BY <1>3, <1>6, <1>7
<1>10. c1 \in Seq(Byte)
  BY DEF Grows
<1> QED BY <1>3, <1>5, <1>8, <1>9, <1>10 DEF CodeSoFar, d1

\* c1 is c with v written where the jump at h - 1 has its operand.
Patches(c, d, H, more, c1, h, v, H1) ==
  /\ h - 1 \in DOMAIN d \ {Len(c)}
  /\ c[h] \in Jumps
  /\ c1 = [k \in DOMAIN c |-> IF k - h \in 1..IntBytes THEN Bytes(v)[k - h] ELSE c[k]]
  /\ v \in DOMAIN d /\ v \in 0..HalfRange - 1
  /\ Arrives(d[v], d[h - 1] - Pops(c[h]), more)
  /\ H \ {h} \subseteq H1

LEMMA PatchCode ==
  ASSUME NEW c, NEW d, NEW H, NEW n \in Int, NEW more \in BOOLEAN,
         CodeSoFar(c, d, H, n, more),
         NEW c1, NEW h \in Int, NEW v, NEW H1, Patches(c, d, H, more, c1, h, v, H1)
  PROVE  /\ CodeSoFar(c1, d, H1, n, more)
         /\ Len(c1) = Len(c)
         /\ \A at \in DOMAIN d \ {Len(c)} : c1[at + 1] = c[at + 1]
<1> DEFINE e == Len(c)
           j == h - 1
<1>1. /\ e \in Nat /\ DOMAIN d \subseteq 0..e /\ {0, e} \subseteq DOMAIN d
      /\ d \in [DOMAIN d -> Nat] /\ d[0] = 0
      /\ c \in [1..e -> Byte] /\ DOMAIN c = 1..e
  BY LenProperties DEF CodeSoFar
<1>2. /\ j \in DOMAIN d \ {e} /\ c[h] \in Jumps /\ v \in DOMAIN d /\ v \in 0..HalfRange - 1
  BY DEF Patches
<1>0. /\ e \in Nat /\ j \in Nat /\ j < e /\ h = j + 1 /\ IntBytes \in 1..4
      /\ j + 1 + IntBytes <= e
  <2>1. c[h] \in OperandOps
    BY <1>2 DEF Jumps, OperandOps, BranchOps
  <2>2. h = j + 1
    OBVIOUS
  <2> HIDE DEF j, e
  <2> QED BY <1>1, <1>2, <2>1, <2>2, Inside, WordAssumption, SMTT(30) DEF e
<1>3. c1 = [k \in 1..e |-> IF k - h \in 1..IntBytes THEN Bytes(v)[k - h] ELSE c[k]]
  BY <1>1 DEF Patches
<1>5. c1 \in Seq(Byte) /\ Len(c1) = e
  <2>1. v \in Int /\ Bytes(v) \in Seq(Byte) /\ Len(Bytes(v)) = IntBytes
    BY <1>1, <1>2, BytesAreBytes
  <2>2. \A k \in 1..IntBytes : Bytes(v)[k] \in Byte
    BY <2>1, ElementOfSeq
  <2>3. c1 \in [1..e -> Byte]
    BY <1>1, <1>3, <2>2
  <2> QED BY <1>1, <2>3
<1> DEFINE Same(i) == i \in 1..e /\ (i <= h \/ i > h + IntBytes)
<1> HIDE DEF e, j
<1>4. /\ \A i \in 1..e : Same(i) => c1[i] = c[i]
      /\ \A k \in 1..IntBytes : c1[h + k] = Bytes(v)[k]
  <2>1. ASSUME NEW i \in 1..e, Same(i) PROVE c1[i] = c[i]
    <3>1. ~(i - h \in 1..IntBytes)
      BY <1>0, <2>1
    <3> QED BY <1>3, <3>1
  <2>2. ASSUME NEW k \in 1..IntBytes PROVE c1[h + k] = Bytes(v)[k]
    <3>1. h + k \in 1..e /\ (h + k) - h = k
      BY <1>0
    <3> QED BY <1>3, <3>1
  <2> QED BY <2>1, <2>2
<1>6. ASSUME NEW at \in DOMAIN d \ {e}
      PROVE  /\ at \in Nat /\ Same(at + 1)
             /\ at # j /\ c[at + 1] \in OperandOps =>
                  \A k \in 0..IntBytes - 1 : Same(at + 2 + k)
  <2>1. /\ at \in Nat /\ at < e /\ (c[at + 1] \in OperandOps => at + 1 + IntBytes <= e)
    BY Inside DEF e
  <2>2. c[h] \in OperandOps
    BY <1>2 DEF Jumps, OperandOps, BranchOps
  <2>3. CASE at = j
    BY <1>0, <2>1, <2>3
  <2>4. CASE at < j
    <3>1. at + Size(c[at + 1]) <= j
      BY <1>2, <2>4 DEF CodeSoFar
    <3>2. c[at + 1] \in OperandOps => at + 1 + IntBytes <= j
      <4>1. c[at + 1] \in OperandOps => at + (1 + IntBytes) <= j
        BY <3>1 DEF Size
      <4> QED BY <1>0, <2>1, <4>1
    <3> QED BY <1>0, <2>1, <2>4, <3>2
  <2>5. CASE at > j
    <3>1. j + Size(c[j + 1]) <= at
      BY <1>0, <1>2, <2>1, <2>5 DEF CodeSoFar
    <3>2. j + (1 + IntBytes) <= at
      BY <1>0, <2>2, <3>1 DEF Size
    <3> QED BY <1>0, <2>1, <2>5, <3>2
  <2> QED BY <1>0, <2>1, <2>3, <2>4, <2>5
<1>7. ASSUME NEW at \in DOMAIN d \ {e} PROVE c1[at + 1] = c[at + 1]
  BY <1>4, <1>6
<1>8. ASSUME NEW at \in DOMAIN d \ {e} PROVE Instruction(c1, d, H1, n, more, at)
  <2>1. Instruction(c, d, H, n, more, at)
    BY DEF CodeSoFar
  <2>2. at \in Nat /\ c1[at + 1] = c[at + 1]
    BY <1>7, Inside
  <2>3. CASE at = j
    <3>1. WordIn(c1, h + 1) = v
      <4>1. ASSUME NEW k \in 0..IntBytes - 1 PROVE c1[h + 1 + k] = Bytes(v)[k + 1]
        <5>1. h + 1 + k = h + (k + 1) /\ k + 1 \in 1..IntBytes
          BY <1>0
        <5> QED BY <1>4, <5>1
      <4>2. h + 1 \in Int
        BY <1>0
      <4> QED BY <1>2, <4>1, <4>2, BytesRead
    <3>2. at + 1 = h /\ at + 2 = h + 1 /\ c1[h] = c[h] /\ c[h] \in Jumps
      BY <1>0, <1>2, <2>2, <2>3
    <3>3. c[h] \notin {OP_STORE, OP_LOAD} /\ Pushes(c[h]) = 0
      BY <3>2 DEF Jumps, Pushes, BinaryOps, OP_PUSH, OP_DUP, OP_ADD, OP_SUB, OP_MUL, OP_DIV,
             OP_CMP, OP_CMP_EQ, OP_CMP_NE, OP_CMP_GT, OP_CMP_LE, OP_CMP_GE, OP_JMP, OP_JZ,
             OP_STORE, OP_LOAD
    <3>4. Arrives(d[v], d[at] - Pops(c[h]) + Pushes(c[h]), more)
      <4>1. d[at] - Pops(c[h]) + Pushes(c[h]) = d[h - 1] - Pops(c[h])
        <5>1. d[at] \in Nat /\ Pops(c[h]) \in 0..2 /\ d[h - 1] = d[at]
          BY <1>1, <2>3 DEF Pops, j
        <5> QED BY <3>3, <5>1
      <4> QED BY <4>1 DEF Patches
    <3> QED BY <1>2, <2>1, <3>1, <3>2, <3>3, <3>4 DEF Instruction
  <2>4. CASE at # j
    <3>1. at + 1 \in H => at + 1 \in H1
      <4>1. at + 1 # h
        BY <1>0, <2>2, <2>4
      <4> QED BY <4>1 DEF Patches
    <3>2. CASE c[at + 1] \in OperandOps
      <4>1. ASSUME NEW k \in 0..IntBytes - 1 PROVE c1[at + 2 + k] = c[at + 2 + k]
        BY <1>4, <1>6, <2>4, <3>2
      <4>2. WordIn(c1, at + 2) = WordIn(c, at + 2)
        BY <2>2, <4>1, WordKept
      <4>3. \A k \in DOMAIN d : Arrives(d[k], d[k], more)
        BY <1>1 DEF Arrives
      <4>4. Keeps(c, d, H, n, more, c1, d, H1, n, more, at)
        BY <1>1, <2>2, <3>1, <4>2, <4>3 DEF Keeps
      <4> QED BY <2>1, <4>4, InstructionKept
    <3>3. CASE c[at + 1] \notin OperandOps
      <4>1. c[at + 1] \notin Jumps \cup {OP_STORE, OP_LOAD}
        BY <3>3 DEF Jumps, OperandOps, BranchOps
      <4> QED BY <2>1, <2>2, <4>1 DEF Instruction
    <3> QED BY <3>2, <3>3
  <2> QED BY <2>3, <2>4
<1>9. \A a, b \in DOMAIN d : a < b => a + Size(c1[a + 1]) <= b
  <2> SUFFICES ASSUME NEW a \in DOMAIN d, NEW b \in DOMAIN d, a < b
               PROVE  a + Size(c1[a + 1]) <= b
    OBVIOUS
  <2>1. a # e
    BY <1>1
  <2> QED BY <1>7, <2>1 DEF CodeSoFar
<1> QED BY <1>1, <1>5, <1>7, <1>8, <1>9 DEF CodeSoFar

(* A call that returns may leave more than its caller counts on.            *)
LEMMA LowerCode ==
  ASSUME NEW c, NEW d, NEW H, NEW n \in Int, NEW more \in BOOLEAN,
         CodeSoFar(c, d, H, n, more),
         NEW cells \in Nat, cells <= d[Len(c)],
         NEW more1 \in BOOLEAN, more1 <=> more \/ cells # d[Len(c)]
  PROVE  LET d1 == Grown(d, Len(c), cells)
         IN  /\ CodeSoFar(c, d1, H, n, more1)
             /\ DOMAIN d1 = DOMAIN d
             /\ d1[Len(c)] = cells
             /\ \A k \in DOMAIN d \ {Len(c)} : d1[k] = d[k]
             /\ d1 = d <=> cells = d[Len(c)]
<1> DEFINE d1 == Grown(d, Len(c), cells)
           e == Len(c)
<1>1. /\ e \in Nat /\ DOMAIN d \subseteq 0..e /\ {0, e} \subseteq DOMAIN d
      /\ d \in [DOMAIN d -> Nat] /\ d[0] = 0
  BY LenProperties DEF CodeSoFar
<1>2. /\ DOMAIN d1 = DOMAIN d /\ d1[e] = cells /\ d1 \in [DOMAIN d -> Nat]
      /\ \A k \in DOMAIN d \ {e} : d1[k] = d[k]
  BY <1>1 DEF Grown
<1>3. d1 = d <=> cells = d[e]
  <2> HIDE DEF d1
  <2> QED BY <1>1, <1>2
<1> HIDE DEF d1
<1>4. \A k \in DOMAIN d : Arrives(d1[k], d[k], more1)
  BY <1>1, <1>2 DEF Arrives
<1>5. ASSUME NEW at \in DOMAIN d1 \ {e} PROVE Instruction(c, d1, H, n, more1, at)
  <2>1. Keeps(c, d, H, n, more, c, d1, H, n, more1, at)
    BY <1>1, <1>2, <1>4 DEF Keeps
  <2>2. Instruction(c, d, H, n, more, at)
    BY <1>2 DEF CodeSoFar
  <2> QED BY <2>1, <2>2, InstructionKept
<1>6. d1[0] = 0
  BY <1>1, <1>2
<1> QED BY <1>1, <1>2, <1>3, <1>5, <1>6 DEF CodeSoFar, d1

(* More slots or more holes promise less.                                   *)
LEMMA WidenCode ==
  ASSUME NEW c, NEW d, NEW H, NEW H1, NEW n \in Int, NEW n1 \in Int, NEW more \in BOOLEAN,
         CodeSoFar(c, d, H, n, more), H \subseteq H1, n <= n1
  PROVE  CodeSoFar(c, d, H1, n1, more)
<1>1. /\ d \in [DOMAIN d -> Nat]
      /\ \A k \in DOMAIN d : Arrives(d[k], d[k], more)
  BY DEF CodeSoFar, Arrives
<1>2. ASSUME NEW at \in DOMAIN d \ {Len(c)} PROVE Instruction(c, d, H1, n1, more, at)
  <2>1. Keeps(c, d, H, n, more, c, d, H1, n1, more, at)
    BY <1>1 DEF Keeps
  <2>2. Instruction(c, d, H, n, more, at)
    BY DEF CodeSoFar
  <2> QED BY <2>1, <2>2, InstructionKept
<1> QED BY <1>2 DEF CodeSoFar

(* Open calls stand as they did.                                            *)
Stands(c, d, n, more, c1, d1, n1, more1) ==
  /\ d \in [DOMAIN d -> Nat]
  /\ d1 \in [DOMAIN d1 -> Nat]
  /\ DOMAIN d \subseteq DOMAIN d1
  /\ \A k \in DOMAIN d : Arrives(d1[k], d[k], more1)
  /\ \A k \in DOMAIN d \ {Len(c)} : k # Len(c1) /\ d1[k] = d[k] /\ c1[k + 1] = c[k + 1]
  /\ n \in Int /\ n1 \in Int /\ n <= n1
  /\ more \in BOOLEAN /\ more1 \in BOOLEAN /\ (more => more1)

LEMMA CallKept ==
  ASSUME NEW f \in CallRecords, NEW c, NEW d, NEW n, NEW more, NEW c1, NEW d1, NEW n1, NEW more1,
         CallOK(f, c, d, n, more), Stands(c, d, n, more, c1, d1, n1, more1)
  PROVE  CallOK(f, c1, d1, n1, more1)
<1>1. f.base \in Nat /\ f.hole \in Nat /\ f.slot \in Int
  BY DEF CallRecords
<1>2. f.start \in DOMAIN d1 /\ Arrives(d1[f.start], f.base, more1)
  <2>1. /\ f.start \in DOMAIN d /\ f.start \in DOMAIN d1 /\ Arrives(d[f.start], f.base, more)
        /\ d[f.start] \in Int /\ d1[f.start] \in Int /\ Arrives(d1[f.start], d[f.start], more1)
        /\ more \in BOOLEAN /\ more1 \in BOOLEAN /\ (more => more1)
    BY DEF CallOK, Stands
  <2> QED BY <1>1, <2>1, ArrivesTwice
<1>3. f.hole # 0 =>
        /\ f.hole - 1 \in DOMAIN d1 \ {Len(c1)}
        /\ c1[f.hole] \in Jumps
        /\ d1[f.hole - 1] = f.base + Pops(c1[f.hole])
  <2> SUFFICES ASSUME f.hole # 0
               PROVE  /\ f.hole - 1 \in DOMAIN d1 \ {Len(c1)}
                      /\ c1[f.hole] \in Jumps
                      /\ d1[f.hole - 1] = f.base + Pops(c1[f.hole])
    OBVIOUS
  <2>1. PICK j : j = f.hole - 1
    OBVIOUS
  <2>2. j + 1 = f.hole
    BY <1>1, <2>1
  <2>3. j \in DOMAIN d \ {Len(c)} /\ c[f.hole] \in Jumps /\ d[j] = f.base + Pops(c[f.hole])
    BY <2>1 DEF CallOK
  <2>4. j \in DOMAIN d1 /\ j # Len(c1) /\ d1[j] = d[j] /\ c1[j + 1] = c[j + 1]
    BY <2>3 DEF Stands
  <2> QED BY <2>1, <2>2, <2>3, <2>4
<1>4. f.node.type \in {"DECL", "ASSIGN"} /\ f.at = "left" => f.slot \in 0..n1 - 1
  <2>1. f.node.type \in {"DECL", "ASSIGN"} /\ f.at = "left" => f.slot \in 0..n - 1
    BY DEF CallOK
  <2>2. n \in Int /\ n1 \in Int /\ n <= n1
    BY DEF Stands
  <2> QED BY <1>1, <2>1, <2>2
<1> QED BY <1>2, <1>3, <1>4 DEF CallOK
-----------------------------------------------------------------------------
(* The emitters.                                                            *)

LEMMA AddSourceMapEffect ==
  ASSUME NEW p \in Progs, NEW line \in Nat
  PROVE  /\ AddSourceMap(p, line) \in Progs
         /\ AddSourceMap(p, line).code = p.code /\ AddSourceMap(p, line).vars = p.vars
         /\ AddSourceMap(p, line).source_map =
              IF line > 0 /\ Len(p.source_map) < MAX_SOURCE_MAP
                THEN Append(p.source_map, [bytecode_offset |-> Offset(p), source_line |-> line])
                ELSE p.source_map
<1>1. /\ p.code \in Seq(Byte) /\ p.vars \in Seq(Names) /\ p.source_map \in Seq(Mapping)
      /\ DOMAIN p = {"code", "source_map", "vars"}
  BY DEF Progs
<1>2. Offset(p) \in Nat
  BY <1>1, LenProperties DEF Offset
<1> DEFINE e == [bytecode_offset |-> Offset(p), source_line |-> line]
<1>3. line > 0 => Append(p.source_map, e) \in Seq(Mapping)
  <2>1. line > 0 => e \in Mapping
    BY <1>2 DEF Mapping
  <2> HIDE DEF e
  <2> QED BY <1>1, <2>1, AppendProperties
<1>4. CASE line > 0 /\ Len(p.source_map) < MAX_SOURCE_MAP
  <2>1. AddSourceMap(p, line) = [p EXCEPT !.source_map = Append(@, e)]
    BY <1>4 DEF AddSourceMap
  <2>2. AddSourceMap(p, line).source_map = Append(p.source_map, e)
    BY <1>1, <2>1
  <2>3. AddSourceMap(p, line).code = p.code /\ AddSourceMap(p, line).vars = p.vars
    BY <2>1
  <2>4. AddSourceMap(p, line) \in Progs
    BY <1>3, <1>4, <2>1 DEF Progs, Mapping
  <2> QED BY <1>4, <2>2, <2>3, <2>4
<1>5. CASE ~(line > 0 /\ Len(p.source_map) < MAX_SOURCE_MAP)
  BY <1>5 DEF AddSourceMap
<1> QED BY <1>4, <1>5

LEMMA Smallest ==
  ASSUME NEW T \in SUBSET Nat, T # {}
  PROVE  \E m \in T : \A k \in T : m <= k
<1> DEFINE R == OpToRel(<, Nat)
<1>1. IsWellFoundedOn(R, Nat)
  BY NatLessThanWellFounded
<1>2. \A x, y \in Nat : <<y, x>> \in R <=> y < x
  BY DEF OpToRel
<1> HIDE DEF R
<1>3. PICK m \in T : \A y \in T : <<y, m>> \notin R
  BY <1>1, WFMin
<1>4. \A y \in T : ~(y < m)
  BY <1>2, <1>3
<1> QED BY <1>3, <1>4

(* A variable has the slot of its first mention.                            *)
LEMMA AddVarEffect ==
  ASSUME NEW p \in Progs, NEW name \in Names
  PROVE  /\ AddVar(p, name) \in Progs
         /\ AddVar(p, name).code = p.code /\ AddVar(p, name).source_map = p.source_map
         /\ Len(AddVar(p, name).vars) \in Nat
         /\ Len(p.vars) \in Nat /\ Len(p.vars) <= Len(AddVar(p, name).vars)
         /\ Slot(AddVar(p, name), name) \in 0..Len(AddVar(p, name).vars) - 1
<1> DEFINE q == AddVar(p, name)
<1>1. /\ p.code \in Seq(Byte) /\ p.vars \in Seq(Names) /\ Len(p.vars) \in Nat
      /\ DOMAIN p = {"code", "source_map", "vars"}
  BY LenProperties DEF Progs
<1>2. /\ q \in Progs /\ q.code = p.code /\ q.source_map = p.source_map
      /\ q.vars \in Seq(Names) /\ Len(p.vars) <= Len(q.vars)
      /\ \E i \in 1..Len(q.vars) : q.vars[i] = name
  <2>1. CASE Contains(p.vars, name)
    BY <1>1, <2>1 DEF AddVar, Contains
  <2>2. CASE ~Contains(p.vars, name)
    <3> DEFINE v == Append(p.vars, name)
    <3>1. q = [p EXCEPT !.vars = v]
      BY <2>2 DEF AddVar
    <3>2. v \in Seq(Names) /\ Len(v) = Len(p.vars) + 1 /\ v[Len(v)] = name
      BY <1>1, AppendProperties
    <3> HIDE DEF v
    <3>3. q.vars = v /\ q.code = p.code /\ q.source_map = p.source_map /\ q \in Progs
      BY <1>1, <3>1, <3>2 DEF Progs
    <3>4. Len(v) \in 1..Len(v)
      BY <1>1, <3>2
    <3> QED BY <1>1, <3>2, <3>3, <3>4
  <2> QED BY <2>1, <2>2
<1> HIDE DEF q
<1> DEFINE I == {k \in 1..Len(q.vars) : q.vars[k] = name}
<1>3. I \in SUBSET Nat /\ I # {}
  BY <1>2
<1>4. \E m \in I : \A k \in I : m <= k
  <2> HIDE DEF I
  <2> QED BY <1>3, Smallest
<1>5. Min(I) \in I
  BY <1>4 DEF Min
<1>6. SelectInSeq(q.vars, LAMBDA v : v = name) = Min(I)
  BY <1>3 DEF SelectInSeq
<1>7. Len(q.vars) \in Nat
  BY <1>2, LenProperties
<1>8. Slot(q, name) \in 0..Len(q.vars) - 1
  <2>1. Slot(q, name) = Min(I) - 1 /\ Min(I) \in 1..Len(q.vars)
    BY <1>5, <1>6 DEF Slot
  <2> QED BY <1>7, <2>1
<1> QED BY <1>1, <1>2, <1>7, <1>8 DEF q

LEMMA EmitEffect ==
  ASSUME NEW p \in Progs, NEW op \in Byte
  PROVE  /\ Emit(p, op) \in Progs
         /\ Emit(p, op).vars = p.vars /\ Emit(p, op).source_map = p.source_map
         /\ Offset(p) \in Nat /\ Offset(Emit(p, op)) = Offset(p) + 1
         /\ \A i \in 1..Offset(p) : Emit(p, op).code[i] = p.code[i]
         /\ Emit(p, op).code[Offset(p) + 1] = op
<1> DEFINE c == Append(p.code, op)
<1>1. p.code \in Seq(Byte) /\ Len(p.code) \in Nat /\ DOMAIN p = {"code", "source_map", "vars"}
  BY LenProperties DEF Progs
<1>2. /\ c \in Seq(Byte) /\ Len(c) = Len(p.code) + 1 /\ c[Len(p.code) + 1] = op
      /\ \A i \in 1..Len(p.code) : c[i] = p.code[i]
  BY <1>1, AppendProperties
<1>3. Emit(p, op) = [p EXCEPT !.code = c]
  BY DEF Emit
<1> HIDE DEF c
<1>4. /\ Emit(p, op) \in Progs /\ Emit(p, op).code = c
      /\ Emit(p, op).vars = p.vars /\ Emit(p, op).source_map = p.source_map
  BY <1>1, <1>2, <1>3 DEF Progs
<1> QED BY <1>1, <1>2, <1>4 DEF Offset

LEMMA EmitWithEffect ==
  ASSUME NEW p \in Progs, NEW op \in Byte, NEW v \in Int
  PROVE  LET q == EmitWith(p, op, v)
         IN  /\ q \in Progs
             /\ q.vars = p.vars /\ q.source_map = p.source_map
             /\ Offset(p) \in Nat /\ Offset(q) = Offset(p) + 1 + IntBytes
             /\ \A i \in 1..Offset(p) : q.code[i] = p.code[i]
             /\ q.code[Offset(p) + 1] = op
             /\ v \in 0..HalfRange - 1 => WordIn(q.code, Offset(p) + 2) = v
<1> DEFINE a == Append(p.code, op)
           c == a \o Bytes(v)
           e == Len(p.code)
<1>1. p.code \in Seq(Byte) /\ e \in Nat /\ DOMAIN p = {"code", "source_map", "vars"}
  BY LenProperties DEF Progs
<1>2. /\ a \in Seq(Byte) /\ Len(a) = e + 1 /\ a[e + 1] = op
      /\ \A i \in 1..e : a[i] = p.code[i]
  BY <1>1, AppendProperties
<1>3. Bytes(v) \in Seq(Byte) /\ Len(Bytes(v)) = IntBytes /\ IntBytes \in 1..4
  BY BytesAreBytes, WordAssumption
<1>4. EmitWith(p, op, v) = [p EXCEPT !.code = c]
  BY DEF EmitWith
<1> HIDE DEF a
<1>5. /\ c \in Seq(Byte) /\ Len(c) = e + 1 + IntBytes
      /\ \A i \in 1..e + 1 + IntBytes : c[i] = IF i <= e + 1 THEN a[i] ELSE Bytes(v)[i - (e + 1)]
  BY <1>1, <1>2, <1>3, ConcatProperties
<1> HIDE DEF c, e
<1>6. \A i \in 1..e : c[i] = p.code[i]
  BY <1>1, <1>2, <1>3, <1>5
<1>7. c[e + 1] = op
  BY <1>1, <1>2, <1>3, <1>5
<1>8. v \in 0..HalfRange - 1 => WordIn(c, e + 2) = v
  <2>1. ASSUME NEW k \in 0..IntBytes - 1 PROVE c[e + 2 + k] = Bytes(v)[k + 1]
    <3>1. e + 2 + k \in 1..e + 1 + IntBytes /\ ~(e + 2 + k <= e + 1)
          /\ (e + 2 + k) - (e + 1) = k + 1
      BY <1>1, <1>3
    <3> QED BY <1>5, <3>1
  <2>2. e + 2 \in Int
    BY <1>1
  <2> QED BY <2>1, <2>2, BytesRead
<1>9. LET q == EmitWith(p, op, v)
      IN  q \in Progs /\ q.code = c /\ q.vars = p.vars /\ q.source_map = p.source_map
  BY <1>1, <1>4, <1>5 DEF Progs
<1> QED BY <1>1, <1>5, <1>6, <1>7, <1>8, <1>9 DEF Offset, e

LEMMA PatchEffect ==
  ASSUME NEW p \in Progs, NEW h, NEW v, Patch(p, h, v).code \in Seq(Byte)
  PROVE  /\ Patch(p, h, v) \in Progs
         /\ Patch(p, h, v).vars = p.vars /\ Patch(p, h, v).source_map = p.source_map
BY DEF Patch, Progs
-----------------------------------------------------------------------------
(* The stack of calls.                                                      *)

LEMMA HeldInTheEnd ==
  ASSUME NEW f \in CallRecords, f.at = "return"
  PROVE  Held(f) = f.base + Worth(f.node)
<1>1. f.base \in Nat
  BY DEF CallRecords
<1> QED BY <1>1 DEF Held, Worth

(* What a call finds on the stack.                                          *)
LEMMA HeldBy ==
  ASSUME NEW f \in CallRecords
  PROVE  /\ f.at \in {"enter", "extra"} => Held(f) = f.base
         /\ f.at = "left" => Held(f) = f.base + (IF f.node.type = "SEQ" THEN 0 ELSE 1)
         /\ f.at = "right" => Held(f) = f.base + (IF f.node.type = "OP" THEN 2 ELSE 0)
<1>1. f.base \in Nat
  BY DEF CallRecords
<1> QED BY <1>1 DEF Held

LEMMA CallTypes ==
  ASSUME NEW f \in CallRecords
  PROVE  /\ f.node \in Trees /\ f.base \in Nat /\ f.hole \in Nat /\ f.slot \in Int
         /\ f.start \in Nat
         /\ Held(f) \in Nat /\ Worth(f.node) \in 0..1
BY DEF CallRecords, Held, Worth

Topped(s, f) == [s EXCEPT ![Len(s)] = f]

LEMMA BecameTopped == \A f : Became(f) = Topped(calls, f)
BY DEF Became, Topped

\* The innermost call goes on as f.
LEMMA TopBecomes ==
  ASSUME NEW s, NEW c, NEW d, NEW n, NEW more, CallsOK(s, c, d, n, more), s # << >>,
         NEW c1, NEW d1, NEW n1, NEW more1, Stands(c, d, n, more, c1, d1, n1, more1),
         NEW f \in CallRecords, f.node = s[Len(s)].node, f.base = s[Len(s)].base,
         CallOK(f, c1, d1, n1, more1)
  PROVE  /\ CallsOK(Topped(s, f), c1, d1, n1, more1)
         /\ Len(Topped(s, f)) = Len(s) /\ Topped(s, f)[Len(s)] = f /\ Len(s) \in Nat \ {0}
         /\ HolesOf(s) \ {s[Len(s)].hole} \subseteq HolesOf(Topped(s, f))
         /\ f.hole # 0 => f.hole \in HolesOf(Topped(s, f))
<1> DEFINE m == Len(s)
           t == Topped(s, f)
<1>1. s \in Seq(CallRecords) /\ m \in Nat \ {0} /\ DOMAIN s = 1..m /\ m \in 1..m
  <2>1. s \in Seq(CallRecords)
    BY DEF CallsOK
  <2>2. m \in Nat \ {0}
    BY <2>1, EmptySeq
  <2> QED BY <2>1, <2>2, LenProperties
<1>2. t \in Seq(CallRecords) /\ Len(t) = m /\ \A j \in 1..m : t[j] = IF j = m THEN f ELSE s[j]
  BY <1>1, ExceptSeq DEF Topped
<1> HIDE DEF t, m
<1>3. ASSUME NEW k \in 1..m PROVE CallOK(t[k], c1, d1, n1, more1)
  <2>1. CASE k = m
    BY <1>2, <2>1
  <2>2. CASE k # m
    <3>1. CallOK(s[k], c, d, n, more) /\ s[k] \in CallRecords /\ t[k] = s[k]
      BY <1>1, <1>2, <2>2, ElementOfSeq DEF CallsOK, m
    <3> QED BY <3>1, CallKept
  <2> QED BY <2>1, <2>2
<1>4. ASSUME NEW k \in 1..m - 1 PROVE Held(t[k]) <= t[k + 1].base + Worth(t[k + 1].node)
  <2>1. k \in 1..m /\ k + 1 \in 1..m /\ k # m
    BY <1>1
  <2>2. Held(s[k]) <= s[k + 1].base + Worth(s[k + 1].node)
    BY DEF CallsOK, m
  <2>3. t[k] = s[k] /\ t[k + 1].base = s[k + 1].base /\ t[k + 1].node = s[k + 1].node
    BY <1>2, <2>1 DEF m
  <2> QED BY <2>2, <2>3
<1>5. CallsOK(t, c1, d1, n1, more1)
  BY <1>2, <1>3, <1>4 DEF CallsOK
<1>6. DOMAIN t = 1..m
  BY <1>2, LenProperties
<1>7. HolesOf(s) \ {s[m].hole} \subseteq HolesOf(t)
  <2> SUFFICES ASSUME NEW h \in HolesOf(s), h # s[m].hole PROVE h \in HolesOf(t)
    OBVIOUS
  <2>1. PICK k \in 1..m : h = s[k].hole
    BY <1>1 DEF HolesOf
  <2>2. t[k].hole = h /\ h # 0
    BY <1>2, <2>1 DEF HolesOf
  <2> QED BY <1>6, <2>2 DEF HolesOf
<1>8. f.hole # 0 => f.hole \in HolesOf(t)
  BY <1>1, <1>2, <1>6 DEF HolesOf
<1> QED BY <1>1, <1>2, <1>5, <1>7, <1>8 DEF t, m

\* It makes the call g.
LEMMA TopCalls ==
  ASSUME NEW s, NEW c, NEW d, NEW n, NEW more, CallsOK(s, c, d, n, more), s # << >>,
         NEW g \in CallRecords, CallOK(g, c, d, n, more), g.hole = 0,
         Held(s[Len(s)]) <= g.base + Worth(g.node)
  PROVE  /\ CallsOK(Append(s, g), c, d, n, more)
         /\ Len(Append(s, g)) = Len(s) + 1 /\ Append(s, g)[Len(s) + 1] = g
         /\ Append(s, g) # << >>
         /\ HolesOf(s) \subseteq HolesOf(Append(s, g))
<1> DEFINE m == Len(s)
           t == Append(s, g)
<1>1. s \in Seq(CallRecords) /\ m \in Nat \ {0} /\ DOMAIN s = 1..m
  <2>1. s \in Seq(CallRecords)
    BY DEF CallsOK
  <2>2. m \in Nat \ {0}
    BY <2>1, EmptySeq
  <2> QED BY <2>1, <2>2, LenProperties
<1>2. /\ t \in Seq(CallRecords) /\ Len(t) = m + 1 /\ t # << >>
      /\ t[m + 1] = g /\ \A j \in 1..m : t[j] = s[j]
  BY <1>1, AppendProperties
<1> HIDE DEF t, m
<1>3. ASSUME NEW k \in 1..m + 1 PROVE CallOK(t[k], c, d, n, more)
  <2>1. k \in 1..m => CallOK(s[k], c, d, n, more)
    BY DEF CallsOK, m
  <2>2. k \in 1..m \/ k = m + 1
    BY <1>1
  <2> QED BY <1>2, <2>1, <2>2
<1>4. ASSUME NEW k \in 1..m PROVE Held(t[k]) <= t[k + 1].base + Worth(t[k + 1].node)
  <2>1. CASE k = m
    <3>1. t[k] = s[m] /\ t[k + 1] = g
      BY <1>1, <1>2, <2>1
    <3> QED BY <3>1 DEF m
  <2>2. CASE k \in 1..m - 1
    <3>1. Held(s[k]) <= s[k + 1].base + Worth(s[k + 1].node)
      BY <2>2 DEF CallsOK, m
    <3>2. t[k] = s[k] /\ t[k + 1] = s[k + 1]
      BY <1>1, <1>2, <2>2
    <3> QED BY <3>1, <3>2
  <2> QED BY <1>1, <2>1, <2>2
<1>5. CallsOK(t, c, d, n, more)
  <2>1. (m + 1) - 1 = m
    BY <1>1
  <2> QED BY <1>2, <1>3, <1>4, <2>1 DEF CallsOK
<1>6. HolesOf(s) \subseteq HolesOf(t)
  <2>1. DOMAIN t = 1..m + 1
    BY <1>2, LenProperties
  <2> SUFFICES ASSUME NEW h \in HolesOf(s) PROVE h \in HolesOf(t)
    OBVIOUS
  <2>2. PICK k \in 1..m : h = s[k].hole
    BY <1>1 DEF HolesOf
  <2>3. k \in 1..m + 1 /\ t[k].hole = h /\ h # 0
    BY <1>1, <1>2, <2>2 DEF HolesOf
  <2> QED BY <2>1, <2>3 DEF HolesOf
<1> QED BY <1>2, <1>5, <1>6 DEF t, m

\* It is over.
LEMMA TopEnds ==
  ASSUME NEW s, NEW c, NEW d, NEW n, NEW more, CallsOK(s, c, d, n, more), s # << >>,
         s[Len(s)].hole = 0,
         NEW c1, NEW d1, NEW n1, NEW more1, Stands(c, d, n, more, c1, d1, n1, more1)
  PROVE  LET t == SubSeq(s, 1, Len(s) - 1)
         IN  /\ CallsOK(t, c1, d1, n1, more1)
             /\ Len(t) = Len(s) - 1 /\ Len(s) \in Nat \ {0}
             /\ \A k \in 1..Len(s) - 1 : t[k] = s[k]
             /\ HolesOf(s) \subseteq HolesOf(t)
<1> DEFINE m == Len(s)
           t == SubSeq(s, 1, m - 1)
<1>1. s \in Seq(CallRecords) /\ m \in Nat \ {0} /\ DOMAIN s = 1..m
  <2>1. s \in Seq(CallRecords)
    BY DEF CallsOK
  <2>2. m \in Nat \ {0}
    BY <2>1, EmptySeq
  <2> QED BY <2>1, <2>2, LenProperties
<1>2. t \in Seq(CallRecords) /\ Len(t) = m - 1 /\ \A k \in 1..m - 1 : t[k] = s[k]
  <2>1. \A i \in 1..m - 1 : s[i] \in CallRecords
    <3> SUFFICES ASSUME NEW i \in 1..m - 1 PROVE s[i] \in CallRecords
      OBVIOUS
    <3>1. i \in 1..m
      BY <1>1
    <3> QED BY <1>1, <3>1, ElementOfSeq
  <2>2. m - 1 \in Nat
    BY <1>1
  <2> HIDE DEF m
  <2> QED BY <2>1, <2>2, SubSeqProperties
<1> HIDE DEF t, m
<1>3. ASSUME NEW k \in 1..m - 1 PROVE CallOK(t[k], c1, d1, n1, more1)
  <2>1. k \in 1..m
    BY <1>1
  <2>2. CallOK(s[k], c, d, n, more) /\ s[k] \in CallRecords /\ t[k] = s[k]
    BY <1>1, <1>2, <2>1, ElementOfSeq DEF CallsOK, m
  <2> QED BY <2>2, CallKept
<1>4. ASSUME NEW k \in 1..(m - 1) - 1
      PROVE  Held(t[k]) <= t[k + 1].base + Worth(t[k + 1].node)
  <2>1. k \in 1..m - 1 /\ k + 1 \in 1..m - 1
    BY <1>1
  <2>2. Held(s[k]) <= s[k + 1].base + Worth(s[k + 1].node)
    BY <2>1 DEF CallsOK, m
  <2> QED BY <1>2, <2>1, <2>2
<1>5. CallsOK(t, c1, d1, n1, more1)
  BY <1>2, <1>3, <1>4 DEF CallsOK
<1>6. HolesOf(s) \subseteq HolesOf(t)
  <2>1. DOMAIN t = 1..m - 1
    BY <1>2, LenProperties
  <2> SUFFICES ASSUME NEW h \in HolesOf(s) PROVE h \in HolesOf(t)
    OBVIOUS
  <2>2. PICK k \in 1..m : h = s[k].hole /\ h # 0
    BY <1>1 DEF HolesOf
  <2>3. k \in 1..m - 1
    BY <1>1, <2>2 DEF m
  <2>4. t[k].hole = h
    BY <1>2, <2>2, <2>3
  <2> QED BY <2>1, <2>2, <2>3, <2>4 DEF HolesOf
<1> QED BY <1>1, <1>2, <1>5, <1>6 DEF t, m
-----------------------------------------------------------------------------
(* What one step leaves as it was.                                          *)

LEMMA GrownSame ==
  ASSUME NEW d, d \in [DOMAIN d -> Nat], NEW o \in DOMAIN d
  PROVE  Grown(d, o, d[o]) = d
<1>1. DOMAIN Grown(d, o, d[o]) = DOMAIN d
  BY DEF Grown
<1>2. \A k \in DOMAIN d : Grown(d, o, d[o])[k] = d[k]
  BY DEF Grown
<1>3. Grown(d, o, d[o]) = [k \in DOMAIN d |-> d[k]]
  BY <1>1 DEF Grown
<1> QED BY <1>3

LEMMA StandsSame ==
  ASSUME NEW c, NEW d, NEW H, NEW n \in Int, NEW n1 \in Int, NEW more \in BOOLEAN, n <= n1,
         CodeSoFar(c, d, H, n, more)
  PROVE  Stands(c, d, n, more, c, d, n1, more)
<1>1. d \in [DOMAIN d -> Nat] /\ Len(c) \in DOMAIN d
  BY DEF CodeSoFar
<1> QED BY <1>1 DEF Stands, Arrives

LEMMA StandsTwice ==
  ASSUME NEW c, NEW d, NEW n, NEW more, NEW c1, NEW d1, NEW n1, NEW more1, NEW c2, NEW d2, NEW n2,
         NEW more2,
         Stands(c, d, n, more, c1, d1, n1, more1), Stands(c1, d1, n1, more1, c2, d2, n2, more2)
  PROVE  Stands(c, d, n, more, c2, d2, n2, more2)
<1>1. ASSUME NEW k \in DOMAIN d PROVE Arrives(d2[k], d[k], more2)
  <2>1. /\ k \in DOMAIN d1 /\ d[k] \in Int /\ Arrives(d1[k], d[k], more1)
        /\ more1 \in BOOLEAN
    BY DEF Stands
  <2>2. /\ d1[k] \in Int /\ d2[k] \in Int /\ Arrives(d2[k], d1[k], more2)
        /\ more2 \in BOOLEAN /\ (more1 => more2)
    BY <2>1 DEF Stands
  <2> QED BY <2>1, <2>2, ArrivesTwice
<1>2. ASSUME NEW k \in DOMAIN d \ {Len(c)}
      PROVE  k # Len(c2) /\ d2[k] = d[k] /\ c2[k + 1] = c[k + 1]
  <2>1. k \in DOMAIN d1 \ {Len(c1)} /\ d1[k] = d[k] /\ c1[k + 1] = c[k + 1]
    BY DEF Stands
  <2> QED BY <2>1 DEF Stands
<1> QED BY <1>1, <1>2 DEF Stands

LEMMA GrowStands ==
  ASSUME NEW c, NEW d, NEW H, NEW n \in Int, NEW more \in BOOLEAN,
         CodeSoFar(c, d, H, n, more),
         NEW c1, NEW op, NEW cells, NEW H1, Grows(c, d, H, n, more, c1, op, cells, H1)
  PROVE  LET d1 == Grown(d, Len(c1), cells)
         IN  /\ Stands(c, d, n, more, c1, d1, n, more)
             /\ d1[Len(c1)] = cells
             /\ Len(c) \in DOMAIN d1 \ {Len(c1)} /\ d1[Len(c)] = d[Len(c)]
             /\ c1[Len(c) + 1] = op
<1> DEFINE d1 == Grown(d, Len(c1), cells)
<1>1. /\ Len(c) \in Nat /\ DOMAIN d \subseteq 0..Len(c) /\ Len(c) \in DOMAIN d
      /\ d \in [DOMAIN d -> Nat] /\ IntBytes \in Nat
  BY LenProperties, WordAssumption DEF CodeSoFar
<1>2. /\ Len(c1) = Len(c) + Size(op) /\ cells \in Nat /\ c1[Len(c) + 1] = op
      /\ \A i \in 1..Len(c) : c1[i] = c[i]
  BY DEF Grows
<1>3. Len(c1) \in Nat /\ Len(c1) > Len(c)
  BY <1>1, <1>2 DEF Size
<1>4. /\ d1 \in [DOMAIN d1 -> Nat] /\ DOMAIN d1 = DOMAIN d \cup {Len(c1)}
      /\ d1[Len(c1)] = cells /\ \A k \in DOMAIN d : d1[k] = d[k]
  <2>1. /\ d1 \in [DOMAIN d1 -> Nat] /\ DOMAIN d1 = DOMAIN d \cup {Len(c1)}
        /\ d1[Len(c1)] = cells /\ \A k \in DOMAIN d : k # Len(c1) => d1[k] = d[k]
    BY <1>1, <1>2, <1>3 DEF Grown
  <2>2. \A k \in DOMAIN d : k # Len(c1)
    BY <1>1, <1>3
  <2> HIDE DEF d1
  <2> QED BY <2>1, <2>2
<1> HIDE DEF d1
<1>5. ASSUME NEW k \in DOMAIN d \ {Len(c)} PROVE k # Len(c1) /\ c1[k + 1] = c[k + 1]
  <2>1. k + 1 \in 1..Len(c)
    BY <1>1
  <2> QED BY <1>1, <1>2, <1>3, <2>1
<1>6. \A k \in DOMAIN d : Arrives(d1[k], d[k], more)
  BY <1>1, <1>4 DEF Arrives
<1>7. Stands(c, d, n, more, c1, d1, n, more)
  BY <1>1, <1>4, <1>5, <1>6 DEF Stands
<1>8. Len(c) \in DOMAIN d1 \ {Len(c1)} /\ d1[Len(c)] = d[Len(c)]
  BY <1>1, <1>3, <1>4
<1> QED BY <1>2, <1>4, <1>7, <1>8 DEF d1

LEMMA PatchStands ==
  ASSUME NEW c, NEW d, NEW H, NEW n \in Int, NEW more \in BOOLEAN,
         CodeSoFar(c, d, H, n, more),
         NEW c1, NEW h \in Int, NEW v, NEW H1, Patches(c, d, H, more, c1, h, v, H1)
  PROVE  Stands(c, d, n, more, c1, d, n, more)
<1>1. d \in [DOMAIN d -> Nat] /\ \A k \in DOMAIN d : Arrives(d[k], d[k], more)
  BY DEF CodeSoFar, Arrives
<1>2. Len(c1) = Len(c) /\ \A at \in DOMAIN d \ {Len(c)} : c1[at + 1] = c[at + 1]
  BY PatchCode
<1> QED BY <1>1, <1>2 DEF Stands

LEMMA MapKept ==
  ASSUME NEW map, NEW d, NEW d1, MapOK(map, d), DOMAIN d \subseteq DOMAIN d1
  PROVE  MapOK(map, d1)
BY DEF MapOK
-----------------------------------------------------------------------------
(* A step of codegen_node.                                                  *)

LEMMA InCalls ==
  ASSUME InCodegen, calls # << >>
  PROVE  /\ calls \in Seq(CallRecords) /\ Len(calls) \in Nat \ {0}
         /\ CallsOK(calls, prog.code, depth, Len(prog.vars), leaves)
         /\ Current \in CallRecords /\ Node \in Trees /\ Current.base \in Nat
         /\ CallOK(Current, prog.code, depth, Len(prog.vars), leaves)
         /\ Cells = Held(Current) /\ Cells \in Nat
         /\ prog \in Progs /\ Offset(prog) = Len(prog.code) /\ Offset(prog) \in Nat
         /\ depth \in [DOMAIN depth -> Nat] /\ Offset(prog) \in DOMAIN depth
         /\ CodeSoFar(prog.code, depth, HolesOf(calls), Len(prog.vars), leaves)
         /\ Len(prog.vars) \in Nat
         /\ leaves \in BOOLEAN
<1>1. calls \in Seq(CallRecords) /\ CallsOK(calls, prog.code, depth, Len(prog.vars), leaves)
  BY DEF InCodegen, CallsOK
<1>2. Len(calls) \in Nat \ {0} /\ Len(calls) \in 1..Len(calls)
  BY <1>1, EmptySeq, LenProperties
<1>3. Current \in CallRecords /\ CallOK(Current, prog.code, depth, Len(prog.vars), leaves)
  BY <1>1, <1>2, ElementOfSeq DEF Current, CallsOK
<1>4. Node \in Trees /\ Current.base \in Nat
  BY <1>3 DEF Node, CallRecords
<1>5. Cells = Held(Current) /\ Cells \in Nat
  BY <1>3, CallTypes DEF InCodegen, OnTop
<1>6. prog \in Progs /\ Len(prog.vars) \in Nat /\ Len(prog.code) \in Nat
  BY LenProperties DEF InCodegen, Progs
<1>7. /\ CodeSoFar(prog.code, depth, HolesOf(calls), Len(prog.vars), leaves)
      /\ leaves \in BOOLEAN
  BY DEF InCodegen
<1>8. depth \in [DOMAIN depth -> Nat] /\ Len(prog.code) \in DOMAIN depth
  BY <1>7 DEF CodeSoFar
<1> QED BY <1>1, <1>2, <1>3, <1>4, <1>5, <1>6, <1>7, <1>8 DEF Offset

\* What is emitted becomes p, with depth d and the given holes.
Steps(p, d, holes) ==
  /\ p \in Progs /\ ~Exits(p)
  /\ Stands(prog.code, depth, Len(prog.vars), leaves, p.code, d, Len(p.vars), leaves)
  /\ CodeSoFar(p.code, d, holes, Len(p.vars), leaves)
  /\ MapOK(p.source_map, d)

LEMMA StepReturns ==
  ASSUME InCodegen, calls # << >>,
         NEW p, NEW d, prog' = p, depth' = d, leaves' = leaves, calls' = Returning,
         Steps(p, d, HolesOf(calls) \ {Current.hole}),
         d[Offset(p)] = Current.base + Worth(Node),
         p.source_map = << >> /\ MAX_SOURCE_MAP > 0 => Len(calls) = 1
  PROVE  InCodegen'
<1> DEFINE f == [Current EXCEPT !.at = "return", !.hole = 0]
           m == Len(calls)
           n == Len(p.vars)
<1>1. /\ Current \in CallRecords /\ m \in Nat \ {0}
      /\ CallsOK(calls, prog.code, depth, Len(prog.vars), leaves)
      /\ CallOK(Current, prog.code, depth, Len(prog.vars), leaves)
      /\ leaves \in BOOLEAN
  BY InCalls
<1>2. /\ p \in Progs /\ ~Exits(p)
      /\ Stands(prog.code, depth, Len(prog.vars), leaves, p.code, d, n, leaves)
      /\ CodeSoFar(p.code, d, HolesOf(calls) \ {Current.hole}, n, leaves)
      /\ MapOK(p.source_map, d)
  BY DEF Steps
<1>3. f \in CallRecords /\ f.node = Node /\ f.base = Current.base /\ f.at = "return" /\ f.hole = 0
      /\ f.start = Current.start
  BY <1>1 DEF CallRecords, Node
<1>4. CallOK(f, p.code, d, n, leaves)
  <2>1. CallOK(Current, p.code, d, n, leaves)
    BY <1>1, <1>2, CallKept
  <2>2. f.start \in DOMAIN d /\ Arrives(d[f.start], f.base, leaves)
    BY <1>3, <2>1 DEF CallOK
  <2> HIDE DEF f
  <2> QED BY <1>3, <2>2 DEF CallOK
<1>5. /\ CallsOK(calls', p.code, d, n, leaves)
      /\ Len(calls') = m /\ calls'[m] = f
      /\ HolesOf(calls) \ {Current.hole} \subseteq HolesOf(calls')
  <2>1. calls' = Topped(calls, f)
    BY BecameTopped DEF Returning
  <2> HIDE DEF f
  <2>2. f.node = calls[m].node /\ f.base = calls[m].base
    BY <1>3 DEF Current, Node
  <2> QED BY <1>1, <1>2, <1>3, <1>4, <2>1, <2>2, TopBecomes DEF Current
<1>6. Current' = f
  BY <1>5 DEF Current
<1>7. CodeSoFar(p.code, d, HolesOf(calls'), n, leaves)
  <2>1. n \in Int
    BY <1>2 DEF Stands
  <2> HIDE DEF n
  <2> QED BY <1>1, <1>2, <1>5, <2>1, WidenCode
<1>8. OnTop'
  <2> HIDE DEF f
  <2>1. Held(f) = Current.base + Worth(Node)
    BY <1>3, HeldInTheEnd
  <2>2. Cells' = d[Offset(p)]
    BY DEF Cells, Offset
  <2>3. calls' # << >>
    BY <1>1, <1>5
  <2> QED BY <1>6, <2>1, <2>2, <2>3 DEF OnTop
<1>9. Unmapped'
  BY <1>3, <1>5, <1>6 DEF Unmapped
<1> HIDE DEF n
<1> QED BY <1>1, <1>2, <1>5, <1>7, <1>8, <1>9 DEF InCodegen, n

\* The innermost call goes on as f, and calls for child m.
MakesCall(f, p, d, m, cells) ==
  /\ f \in CallRecords /\ f.node = Node /\ f.base = Current.base
  /\ Steps(p, d, (HolesOf(calls) \ {Current.hole}) \cup ({f.hole} \ {0}))
  /\ CallOK(f, p.code, d, Len(p.vars), leaves)
  /\ m \in Trees /\ cells \in Nat
  /\ d[Offset(p)] = cells /\ Held(f) <= cells + Worth(m)
  /\ p.source_map # << >> \/ MAX_SOURCE_MAP = 0

LEMMA StepCalls ==
  ASSUME InCodegen, calls # << >>,
         NEW f, NEW p, NEW d, NEW m, NEW cells, MakesCall(f, p, d, m, cells),
         prog' = p, depth' = d, leaves' = leaves, calls' = Calling(f, m, p, cells)
  PROVE  InCodegen'
<1>0. /\ f \in CallRecords /\ f.node = Node /\ f.base = Current.base
      /\ Steps(p, d, (HolesOf(calls) \ {Current.hole}) \cup ({f.hole} \ {0}))
      /\ CallOK(f, p.code, d, Len(p.vars), leaves)
      /\ m \in Trees /\ cells \in Nat
      /\ d[Offset(p)] = cells /\ Held(f) <= cells + Worth(m)
      /\ p.source_map # << >> \/ MAX_SOURCE_MAP = 0
  BY DEF MakesCall
<1> DEFINE s == Topped(calls, f)
           g == Called(m, p, cells)
           n == Len(p.vars)
<1>1. /\ Current \in CallRecords /\ Len(calls) \in Nat \ {0}
      /\ CallsOK(calls, prog.code, depth, Len(prog.vars), leaves)
      /\ leaves \in BOOLEAN
  BY InCalls
<1>2. /\ p \in Progs /\ ~Exits(p)
      /\ Stands(prog.code, depth, Len(prog.vars), leaves, p.code, d, n, leaves)
      /\ CodeSoFar(p.code, d, (HolesOf(calls) \ {Current.hole}) \cup ({f.hole} \ {0}), n, leaves)
      /\ MapOK(p.source_map, d)
  BY <1>0 DEF Steps
<1>3. /\ CallsOK(s, p.code, d, n, leaves)
      /\ Len(s) = Len(calls) /\ s[Len(s)] = f /\ s # << >>
      /\ HolesOf(calls) \ {Current.hole} \subseteq HolesOf(s)
      /\ f.hole # 0 => f.hole \in HolesOf(s)
  <2>1. f.node = calls[Len(calls)].node /\ f.base = calls[Len(calls)].base
    BY <1>0 DEF Current, Node
  <2>2. /\ CallsOK(s, p.code, d, n, leaves)
        /\ Len(s) = Len(calls) /\ s[Len(calls)] = f
        /\ HolesOf(calls) \ {Current.hole} \subseteq HolesOf(s)
        /\ f.hole # 0 => f.hole \in HolesOf(s)
    BY <1>0, <1>1, <1>2, <2>1, TopBecomes DEF Current
  <2> HIDE DEF s
  <2> QED BY <1>1, <2>2
<1>4. /\ g \in CallRecords /\ g.hole = 0 /\ g.base = cells /\ g.node = m /\ g.at = "enter"
      /\ g.start = Offset(p)
  <2>1. Offset(p) \in Nat
    BY <1>2, LenProperties DEF Progs, Offset
  <2> QED BY <1>0, <2>1 DEF CallRecords, Called
<1> HIDE DEF s, g
<1>5. CallOK(g, p.code, d, n, leaves)
  <2>1. Offset(p) \in DOMAIN d
    BY <1>2 DEF CodeSoFar, Offset
  <2>2. Arrives(d[Offset(p)], cells, leaves)
    BY <1>0 DEF Arrives
  <2> QED BY <1>4, <2>1, <2>2 DEF CallOK
<1>6. /\ CallsOK(calls', p.code, d, n, leaves)
      /\ Len(calls') = Len(calls) + 1 /\ calls'[Len(calls) + 1] = g /\ calls' # << >>
      /\ HolesOf(s) \subseteq HolesOf(calls')
  <2>1. calls' = Append(s, g)
    BY BecameTopped DEF Calling, s, g
  <2>2. Held(s[Len(s)]) <= g.base + Worth(g.node)
    BY <1>0, <1>3, <1>4
  <2> QED BY <1>3, <1>4, <1>5, <2>1, <2>2, TopCalls
<1>7. Current' = g
  BY <1>6 DEF Current
<1>8. CodeSoFar(p.code, d, HolesOf(calls'), n, leaves)
  <2>1. n \in Int
    BY <1>2 DEF Stands
  <2>2. (HolesOf(calls) \ {Current.hole}) \cup ({f.hole} \ {0}) \subseteq HolesOf(calls')
    BY <1>3, <1>6
  <2> HIDE DEF n
  <2> QED BY <1>1, <1>2, <2>1, <2>2, WidenCode
<1>9. OnTop'
  <2>1. Held(g) = cells
    BY <1>0, <1>4, HeldBy
  <2>2. Cells' = d[Offset(p)]
    BY DEF Cells, Offset
  <2> QED BY <1>0, <1>6, <1>7, <2>1, <2>2 DEF OnTop
<1>10. Unmapped'
  BY <1>0 DEF Unmapped
<1> HIDE DEF n
<1> QED BY <1>1, <1>2, <1>6, <1>8, <1>9, <1>10 DEF InCodegen, n
-----------------------------------------------------------------------------
(* What the actions emit.                                                   *)

LEMMA Emitters ==
  /\ EMIT_PUSH = OP_PUSH /\ EMIT_JMP = OP_JMP /\ EMIT_JZ = OP_JZ /\ EMIT_STORE = OP_STORE
  /\ EMIT_LOAD = OP_LOAD /\ EMIT_PRINT = OP_PRINT /\ EMIT_HALT = OP_HALT
  /\ \A o \in DOMAIN EmitOp : EmitOp[o] \in BinaryOps
BY DEF EMIT_PUSH, EMIT_JMP, EMIT_JZ, EMIT_STORE, EMIT_LOAD, EMIT_PRINT, EMIT_HALT, EmitOp,
       OP_PUSH, OP_JMP, OP_JZ, OP_STORE, OP_LOAD, OP_PRINT, OP_HALT, BinaryOps,
       OP_ADD, OP_SUB, OP_MUL, OP_DIV, OP_CMP, OP_CMP_EQ, OP_CMP_NE, OP_CMP_GT, OP_CMP_LE, OP_CMP_GE

LEMMA Effects ==
  /\ \A op \in BinaryOps : Pops(op) = 2 /\ Pushes(op) = 1
  /\ Pops(OP_PUSH) = 0 /\ Pushes(OP_PUSH) = 1
  /\ Pops(OP_LOAD) = 0 /\ Pushes(OP_LOAD) = 1
  /\ Pops(OP_STORE) = 1 /\ Pushes(OP_STORE) = 0
  /\ Pops(OP_PRINT) = 1 /\ Pushes(OP_PRINT) = 0
  /\ Pops(OP_JZ) = 1 /\ Pushes(OP_JZ) = 0
  /\ Pops(OP_JMP) = 0 /\ Pushes(OP_JMP) = 0
  /\ \A op \in BinaryOps \cup {OP_PUSH, OP_LOAD, OP_STORE, OP_PRINT} :
       op \notin Jumps /\ op # OP_JMP
  /\ \A op \in BinaryOps \cup {OP_PUSH, OP_PRINT, OP_JZ, OP_JMP} : op \notin {OP_STORE, OP_LOAD}
  /\ OP_JZ \in Jumps /\ OP_JMP \in Jumps
  /\ OP_JZ # OP_JMP
BY DEF Pops, Pushes, Jumps, OP_PUSH, OP_JMP, OP_JZ, OP_JNZ, OP_STORE, OP_LOAD, OP_PRINT, OP_HALT,
       BinaryOps, BranchOps, OP_POP, OP_DUP, OP_ADD, OP_SUB, OP_MUL, OP_DIV, OP_CMP, OP_CMP_EQ,
       OP_CMP_NE, OP_CMP_GT, OP_CMP_LE, OP_CMP_GE

\* p is q with instruction op behind it.
After(q, p, op) ==
  /\ p \in Progs
  /\ p.vars = q.vars /\ p.source_map = q.source_map
  /\ Offset(p) = Offset(q) + Size(op)
  /\ \A i \in 1..Offset(q) : p.code[i] = q.code[i]
  /\ p.code[Offset(q) + 1] = op

LEMMA EmitsAfter ==
  ASSUME NEW q \in Progs, NEW op \in BinaryOps \cup {OP_PRINT}
  PROVE  After(q, Emit(q, op), op) /\ op \in Emittable
<1>1. op \in Emittable
  BY DEF Emittable
<1>2. op \in Byte /\ Size(op) = 1
  BY <1>1, EmittedOps
<1> QED BY <1>1, <1>2, EmitEffect DEF After

LEMMA EmitsWithAfter ==
  ASSUME NEW q \in Progs, NEW op \in {OP_PUSH, OP_JMP, OP_JZ, OP_STORE, OP_LOAD}, NEW v \in Int
  PROVE  /\ After(q, EmitWith(q, op, v), op) /\ op \in Emittable
         /\ v \in 0..HalfRange - 1 => WordIn(EmitWith(q, op, v).code, Offset(q) + 2) = v
<1>1. op \in Emittable
  BY DEF Emittable
<1>2. op \notin BinaryOps \cup {OP_PRINT}
  BY DEF OP_PUSH, OP_JMP, OP_JZ, OP_STORE, OP_LOAD, OP_PRINT, BinaryOps, OP_ADD, OP_SUB, OP_MUL,
         OP_DIV, OP_CMP, OP_CMP_EQ, OP_CMP_NE, OP_CMP_GT, OP_CMP_LE, OP_CMP_GE
<1>3. op \in Byte /\ Size(op) = 1 + IntBytes /\ IntBytes \in Nat
  BY <1>1, <1>2, EmittedOps, WordAssumption
<1> DEFINE p == EmitWith(q, op, v)
<1>4. /\ p \in Progs
      /\ p.vars = q.vars /\ p.source_map = q.source_map
      /\ Offset(q) \in Nat /\ Offset(p) = Offset(q) + 1 + IntBytes
      /\ \A i \in 1..Offset(q) : p.code[i] = q.code[i]
      /\ p.code[Offset(q) + 1] = op
      /\ v \in 0..HalfRange - 1 => WordIn(p.code, Offset(q) + 2) = v
  BY <1>3, EmitWithEffect
<1> HIDE DEF p
<1>5. Offset(p) = Offset(q) + Size(op)
  BY <1>3, <1>4
<1>6. After(q, p, op)
  BY <1>4, <1>5 DEF After
<1> QED BY <1>1, <1>4, <1>6 DEF p

LEMMA KnownIsGrown == \A o, cells : Known(o, cells) = Grown(depth, o, cells)
BY DEF Known, Grown

\* q is what was emitted but for variables and lines; p has instruction op behind it,
\* and then the stack has so many cells.
Adds(q, p, op, cells, H) ==
  LET left == Cells - Pops(op) + Pushes(op)
      operand == WordIn(p.code, Offset(prog) + 2)
  IN  /\ q \in Progs /\ q.code = prog.code
      /\ Len(q.vars) \in Nat /\ Len(prog.vars) <= Len(q.vars)
      /\ MapOK(q.source_map, depth)
      /\ op \in Emittable /\ After(q, p, op) /\ ~Exits(p)
      /\ cells \in Nat
      /\ Cells >= Pops(op)
      /\ op # OP_JMP => cells = left
      /\ op \in {OP_STORE, OP_LOAD} => operand \in 0..Len(p.vars) - 1
      /\ HolesOf(calls) \subseteq H
      /\ op \in Jumps /\ Offset(prog) + 1 \notin H =>
           operand \in DOMAIN depth /\ Arrives(depth[operand], left, leaves)

LEMMA AddsSteps ==
  ASSUME InCodegen, calls # << >>,
         NEW q, NEW p, NEW op, NEW cells, NEW H, Adds(q, p, op, cells, H)
  PROVE  LET d == Known(Offset(p), cells)
         IN  /\ Steps(p, d, H)
             /\ d \in [DOMAIN d -> Nat] /\ DOMAIN depth \subseteq DOMAIN d
             /\ d[Offset(p)] = cells
             /\ Offset(prog) \in DOMAIN d \ {Offset(p)} /\ d[Offset(prog)] = Cells
             /\ p.code[Offset(prog) + 1] = op
             /\ Offset(p) \in DOMAIN d /\ Offset(p) \in Nat
<1> DEFINE c == prog.code
           n0 == Len(prog.vars)
           n == Len(q.vars)
           c1 == p.code
           d == Grown(depth, Len(c1), cells)
           H0 == HolesOf(calls)
<1>1. /\ CodeSoFar(c, depth, H0, n0, leaves)
      /\ n0 \in Nat /\ leaves \in BOOLEAN
      /\ Offset(prog) = Len(c) /\ Cells = depth[Len(c)] /\ Len(c) \in Nat
  BY InCalls DEF Cells
<1>2. /\ p \in Progs /\ ~Exits(p) /\ p.vars = q.vars /\ p.source_map = q.source_map
      /\ n \in Nat /\ n0 <= n /\ MapOK(q.source_map, depth) /\ c1 \in Seq(Byte)
  BY DEF Adds, After, Progs
<1>3. Grows(c, depth, H0, n, leaves, c1, op, cells, H)
  <2>1. /\ Len(c1) = Len(c) + Size(op)
        /\ \A i \in 1..Len(c) : c1[i] = c[i]
        /\ c1[Len(c) + 1] = op
    <3>1. q.code = c
      BY DEF Adds
    <3> QED BY <3>1 DEF Adds, After, Offset
  <2>2. /\ op \in Emittable /\ cells \in Nat
        /\ depth[Len(c)] >= Pops(op)
        /\ op # OP_JMP => cells = depth[Len(c)] - Pops(op) + Pushes(op)
        /\ op \in {OP_STORE, OP_LOAD} => WordIn(c1, Len(c) + 2) \in 0..n - 1
        /\ H0 \subseteq H
        /\ op \in Jumps /\ Len(c) + 1 \notin H =>
             /\ WordIn(c1, Len(c) + 2) \in DOMAIN depth
             /\ Arrives(depth[WordIn(c1, Len(c) + 2)], depth[Len(c)] - Pops(op) + Pushes(op), leaves)
    BY <1>1, <1>2 DEF Adds
  <2> HIDE DEF c, n, c1, d, H0
  <2> QED BY <1>2, <2>1, <2>2 DEF Grows, c1
<1> HIDE DEF c, n0, n, c1, d, H0
<1>4. CodeSoFar(c, depth, H0, n, leaves) /\ Stands(c, depth, n0, leaves, c, depth, n, leaves)
  BY <1>1, <1>2, WidenCode, StandsSame
<1>5. CodeSoFar(c1, d, H, n, leaves)
  BY <1>1, <1>2, <1>3, <1>4, GrowCode DEF d
<1>6. /\ Stands(c, depth, n, leaves, c1, d, n, leaves)
      /\ d[Len(c1)] = cells
      /\ Len(c) \in DOMAIN d \ {Len(c1)} /\ d[Len(c)] = depth[Len(c)]
      /\ c1[Len(c) + 1] = op
  BY <1>1, <1>2, <1>3, <1>4, GrowStands DEF d
<1>7. Stands(c, depth, n0, leaves, c1, d, n, leaves)
  BY <1>4, <1>6, StandsTwice
<1>8. d \in [DOMAIN d -> Nat] /\ DOMAIN depth \subseteq DOMAIN d
  BY <1>7 DEF Stands
<1>9. MapOK(p.source_map, d)
  BY <1>2, <1>8, MapKept
<1>10. Len(c1) \in DOMAIN d /\ Len(c1) \in Nat
  BY <1>2, <1>5, LenProperties DEF CodeSoFar
<1>11. Steps(p, d, H)
  BY <1>2, <1>5, <1>7, <1>9 DEF Steps, c, c1, n, n0
<1>12. d = Known(Offset(p), cells) /\ Offset(p) = Len(c1)
  BY KnownIsGrown DEF d, c1, Offset
<1> QED BY <1>1, <1>6, <1>8, <1>10, <1>11, <1>12 DEF c1, c

LEMMA Entered ==
  ASSUME InCodegen, calls # << >>, Current.at = "enter"
  PROVE  /\ Mapped \in Progs /\ Mapped.code = prog.code /\ Mapped.vars = prog.vars
         /\ MapOK(Mapped.source_map, depth)
         /\ Node.type # "INT" => Mapped.source_map # << >> \/ MAX_SOURCE_MAP = 0
         /\ Mapped.source_map = << >> /\ MAX_SOURCE_MAP > 0 => Len(calls) = 1
<1> DEFINE map == prog.source_map
           e == [bytecode_offset |-> Offset(prog), source_line |-> Node.line]
           map1 == Mapped.source_map
<1>1. Node \in Trees /\ prog \in Progs /\ Offset(prog) \in DOMAIN depth
  BY InCalls
<1>2. Node.line \in Nat /\ (Node.type # "INT" => Node.line > 0) /\ MAX_SOURCE_MAP \in Nat
  BY <1>1, TreesAssumption, LimitsAssumption
<1>3. /\ Mapped \in Progs /\ Mapped.code = prog.code /\ Mapped.vars = prog.vars
      /\ map1 = IF Node.line > 0 /\ Len(map) < MAX_SOURCE_MAP THEN Append(map, e) ELSE map
  BY <1>1, <1>2, AddSourceMapEffect DEF Mapped
<1>4. /\ map \in Seq(Mapping) /\ Len(map) \in Nat /\ (map = << >> <=> Len(map) = 0)
      /\ MapOK(map, depth)
  BY <1>1, LenProperties, EmptySeq DEF Progs, InCodegen
<1>5. map = << >> /\ MAX_SOURCE_MAP > 0 => Len(calls) = 1 /\ Offset(prog) = 0
  BY DEF InCodegen, Unmapped, Offset
<1> HIDE DEF map, map1, e
<1>6. CASE Node.line > 0 /\ Len(map) < MAX_SOURCE_MAP
  <2>1. e \in Mapping /\ e.bytecode_offset = Offset(prog)
    <3>1. Offset(prog) \in Nat
      BY InCalls
    <3> QED BY <1>2, <1>6, <3>1 DEF Mapping, e
  <2>2. /\ map1 # << >> /\ Len(map1) = Len(map) + 1
        /\ map1[Len(map) + 1] = e /\ \A k \in 1..Len(map) : map1[k] = map[k]
    BY <1>3, <1>4, <1>6, <2>1, AppendProperties
  <2>3. \A k \in 1..Len(map1) : map1[k].bytecode_offset \in DOMAIN depth
    <3> SUFFICES ASSUME NEW k \in 1..Len(map1) PROVE map1[k].bytecode_offset \in DOMAIN depth
      OBVIOUS
    <3>1. CASE k \in 1..Len(map)
      BY <1>4, <2>2, <3>1 DEF MapOK
    <3>2. CASE k = Len(map) + 1
      BY <1>1, <2>1, <2>2, <3>2
    <3> QED BY <1>4, <2>2, <3>1, <3>2
  <2>4. map1[1].bytecode_offset = 0
    <3>1. CASE map = << >>
      <4>1. Offset(prog) = 0 /\ Len(map) + 1 = 1
        BY <1>2, <1>4, <1>5, <1>6, <3>1
      <4> QED BY <2>1, <2>2, <4>1
    <3>2. CASE map # << >>
      <4>1. 1 \in 1..Len(map)
        BY <1>4, <3>2
      <4> QED BY <1>4, <2>2, <3>2, <4>1 DEF MapOK
    <3> QED BY <3>1, <3>2
  <2> QED BY <1>3, <2>2, <2>3, <2>4 DEF MapOK, map1
<1>7. CASE ~(Node.line > 0 /\ Len(map) < MAX_SOURCE_MAP)
  <2>1. map1 = map
    BY <1>3, <1>7
  <2>2. Node.type # "INT" => map # << >> \/ MAX_SOURCE_MAP = 0
    BY <1>2, <1>4, <1>7
  <2> QED BY <1>3, <1>4, <1>5, <2>1, <2>2 DEF map1
<1> QED BY <1>6, <1>7

LEMMA NotEntered ==
  ASSUME InCodegen, calls # << >>
  PROVE  /\ prog.source_map = << >> /\ MAX_SOURCE_MAP > 0 => Len(calls) = 1
         /\ Current.at \notin {"enter", "return"} => prog.source_map # << >> \/ MAX_SOURCE_MAP = 0
BY LimitsAssumption DEF InCodegen, Unmapped

LEMMA NoHole ==
  ASSUME InCodegen, calls # << >>,
         ~(Node.type \in {"IF", "WHILE"} /\ Current.at = "right"),
         ~(Node.type = "IF" /\ Current.at = "extra")
  PROVE  /\ Current.hole = 0
         /\ HolesOf(calls) \ {Current.hole} = HolesOf(calls)
<1>1. Current.hole = 0
  BY InCalls DEF CallOK, Node
<1>2. 0 \notin HolesOf(calls)
  BY DEF HolesOf
<1> QED BY <1>1, <1>2

LEMMA PatchLen ==
  ASSUME NEW p \in Progs, NEW h, NEW v
  PROVE  /\ Offset(Patch(p, h, v)) = Offset(p)
         /\ Patch(p, h, v).vars = p.vars
<1> DEFINE e(k) == IF k - h \in 1..IntBytes THEN Bytes(v)[k - h] ELSE p.code[k]
           n == Len(p.code)
           c == [k \in 1..n |-> e(k)]
           S == {e(k) : k \in 1..n}
<1>1. p.code \in Seq(Byte) /\ n \in Nat /\ DOMAIN p.code = 1..n /\ DOMAIN p = {"code", "source_map", "vars"}
  BY LenProperties DEF Progs
<1>2. Patch(p, h, v) = [p EXCEPT !.code = c]
  BY <1>1 DEF Patch
<1>3. \A k \in 1..n : e(k) \in S
  OBVIOUS
<1>4. c \in Seq(S) /\ Len(c) = n
  <2> HIDE DEF e, n, S
  <2>1. c \in Seq(S)
    BY <1>1, <1>3, IsASeq
  <2>2. DOMAIN c = 1..n /\ DOMAIN c = 1..Len(c) /\ Len(c) \in Nat
    BY <2>1, LenProperties
  <2> HIDE DEF c
  <2> QED BY <1>1, <2>1, <2>2
<1> HIDE DEF c
<1>5. Patch(p, h, v).code = c /\ Patch(p, h, v).vars = p.vars
  BY <1>1, <1>2
<1> QED BY <1>4, <1>5 DEF Offset

LEMMA PatchExits ==
  ASSUME NEW p \in Progs, NEW h, NEW v
  PROVE  Exits(Patch(p, h, v)) <=> Exits(p)
BY PatchLen DEF Exits, Offset

(* The jump of the innermost call is patched to a place where the stack is  *)
(* what it was when the call began.                                         *)
LEMMA PatchSteps ==
  ASSUME InCodegen, calls # << >>, Current.hole # 0,
         NEW q, NEW d, NEW H, Steps(q, d, H),
         NEW v \in DOMAIN d, Arrives(d[v], Current.base, leaves)
  PROVE  LET p == Patch(q, Current.hole, v)
         IN  /\ Steps(p, d, H \ {Current.hole})
             /\ Offset(p) = Offset(q)
             /\ p.source_map = q.source_map
             /\ Len(p.vars) = Len(q.vars)
             /\ \A at \in DOMAIN d \ {Offset(q)} : p.code[at + 1] = q.code[at + 1]
<1> DEFINE h == Current.hole
           c == q.code
           c1 == Patch(q, h, v).code
           n == Len(q.vars)
           n0 == Len(prog.vars)
<1>1. /\ q \in Progs /\ ~Exits(q) /\ MapOK(q.source_map, d)
      /\ Stands(prog.code, depth, n0, leaves, c, d, n, leaves)
      /\ CodeSoFar(c, d, H, n, leaves)
  BY DEF Steps
<1>2. /\ n \in Nat /\ n0 \in Nat /\ leaves \in BOOLEAN /\ Current \in CallRecords
      /\ CallOK(Current, prog.code, depth, n0, leaves) /\ h \in Nat /\ Current.base \in Nat
  <2>1. n \in Nat
    BY <1>1, LenProperties DEF Progs
  <2> QED BY <2>1, InCalls, CallTypes
<1>3. /\ h - 1 \in DOMAIN d \ {Len(c)}
      /\ c[h] \in Jumps
      /\ d[h - 1] = Current.base + Pops(c[h])
  <2>1. CallOK(Current, c, d, n, leaves)
    BY <1>1, <1>2, CallKept
  <2> QED BY <2>1 DEF CallOK
<1>4. v \in 0..HalfRange - 1
  <2>1. c \in Seq(Byte) /\ Len(c) \in Nat /\ Len(c) <= MAX_CODE_SIZE /\ MAX_CODE_SIZE \in Nat
    BY <1>1, LenProperties, LimitsAssumption DEF Progs, Exits
  <2>2. MAX_CODE_SIZE <= HalfRange - 1 /\ HalfRange \in Nat
    BY LimitsAssumption, WordAssumption
  <2>3. v \in 0..Len(c)
    BY <1>1 DEF CodeSoFar
  <2> HIDE DEF c
  <2> QED BY <2>1, <2>2, <2>3
<1>5. Patches(c, d, H, leaves, c1, h, v, H \ {h})
  <2>1. d[h - 1] - Pops(c[h]) = Current.base
    <3>1. Pops(c[h]) \in Nat
      BY <1>3, Effects DEF Jumps
    <3> HIDE DEF c, h
    <3> QED BY <1>2, <1>3, <3>1
  <2>2. c1 = [k \in DOMAIN c |-> IF k - h \in 1..IntBytes THEN Bytes(v)[k - h] ELSE c[k]]
    BY <1>1 DEF Patch, Progs
  <2> HIDE DEF c, c1, h
  <2> QED BY <1>3, <1>4, <2>1, <2>2 DEF Patches
<1> HIDE DEF c, n, n0, h, c1
<1>6. /\ CodeSoFar(c1, d, H \ {h}, n, leaves)
      /\ Len(c1) = Len(c)
      /\ \A at \in DOMAIN d \ {Len(c)} : c1[at + 1] = c[at + 1]
  BY <1>1, <1>2, <1>5, PatchCode
<1>7. Stands(c, d, n, leaves, c1, d, n, leaves)
  BY <1>1, <1>2, <1>5, PatchStands
<1>8. Stands(prog.code, depth, n0, leaves, c1, d, n, leaves)
  BY <1>1, <1>7, StandsTwice
<1>9. /\ Patch(q, h, v) \in Progs
      /\ Patch(q, h, v).vars = q.vars /\ Patch(q, h, v).source_map = q.source_map
  <2>1. c1 \in Seq(Byte)
    BY <1>6 DEF CodeSoFar
  <2> QED BY <1>1, <2>1, PatchEffect DEF c1
<1>10. ~Exits(Patch(q, h, v))
  BY <1>1, PatchExits
<1>11. Steps(Patch(q, h, v), d, H \ {h})
  BY <1>1, <1>6, <1>8, <1>9, <1>10 DEF Steps, c1, n, n0
<1> QED BY <1>1, <1>6, <1>9, <1>11, PatchLen DEF c1, c, h, Offset

(* Nothing is emitted but lines and variables.                              *)
LEMMA QuietSteps ==
  ASSUME InCodegen, calls # << >>,
         NEW p \in Progs, ~Exits(p), p.code = prog.code, Len(p.vars) \in Nat,
         Len(prog.vars) <= Len(p.vars), MapOK(p.source_map, depth)
  PROVE  /\ Offset(p) = Offset(prog)
         /\ Known(Offset(p), Cells) = depth
         /\ Steps(p, depth, HolesOf(calls))
<1>1. /\ Offset(prog) = Len(prog.code) /\ Offset(p) = Offset(prog)
      /\ depth \in [DOMAIN depth -> Nat] /\ Offset(prog) \in DOMAIN depth
      /\ CodeSoFar(prog.code, depth, HolesOf(calls), Len(prog.vars), leaves)
      /\ Len(prog.vars) \in Nat /\ leaves \in BOOLEAN
  BY InCalls DEF Offset
<1>2. Known(Offset(p), Cells) = depth
  BY <1>1, KnownIsGrown, GrownSame DEF Cells
<1>3. CodeSoFar(p.code, depth, HolesOf(calls), Len(p.vars), leaves)
  BY <1>1, WidenCode
<1>4. Stands(prog.code, depth, Len(prog.vars), leaves, p.code, depth, Len(p.vars), leaves)
  BY <1>1, StandsSame
<1> QED BY <1>1, <1>2, <1>3, <1>4 DEF Steps
-----------------------------------------------------------------------------
(* The actions: those that emit an instruction and return.                  *)

LEMMA EmitsAndReturns ==
  ASSUME InCodegen, calls # << >>, Current.hole = 0, HolesOf(calls) \ {Current.hole} = HolesOf(calls),
         NEW q, NEW p, NEW op, NEW cells, Adds(q, p, op, cells, HolesOf(calls)),
         cells = Current.base + Worth(Node),
         q.source_map = << >> /\ MAX_SOURCE_MAP > 0 => Len(calls) = 1,
         prog' = p, depth' = Known(Offset(p), cells), calls' = Returning, leaves' = leaves
  PROVE  InCodegen'
<1> DEFINE d == Known(Offset(p), cells)
<1>1. Steps(p, d, HolesOf(calls)) /\ d[Offset(p)] = cells
  BY AddsSteps
<1>2. p.source_map = q.source_map
  BY DEF Adds, After
<1>3. depth' = d /\ Steps(p, d, HolesOf(calls) \ {Current.hole})
  BY <1>1
<1> HIDE DEF d
<1> QED BY <1>1, <1>2, <1>3, StepReturns

LEMMA CompileIntKeeps ==
  ASSUME InCodegen, CompileInt, stage' = "codegen"
  PROVE  InCodegen'
<1> DEFINE p == EmitWith(Mapped, EMIT_PUSH, Node.value)
<1>1. /\ calls # << >> /\ Node.type = "INT" /\ Current.at = "enter"
      /\ ~Exits(p) /\ prog' = p /\ depth' = Known(Offset(p), Cells + 1)
      /\ calls' = Returning /\ leaves' = leaves
  BY DEF CompileInt, In, Emits, Exit
<1>2. /\ Node \in Trees /\ Current \in CallRecords /\ Current.base \in Nat /\ Cells = Held(Current)
      /\ Len(prog.vars) \in Nat
  BY <1>1, InCalls
<1>3. Node.value \in Int
  BY <1>1, <1>2, TreesAssumption, WordAssumption DEF Word
<1>4. Cells = Current.base /\ Worth(Node) = 1
  BY <1>1, <1>2, HeldBy DEF Worth, IsExpression
<1>5. /\ Mapped \in Progs /\ Mapped.code = prog.code /\ Mapped.vars = prog.vars
      /\ MapOK(Mapped.source_map, depth)
      /\ Mapped.source_map = << >> /\ MAX_SOURCE_MAP > 0 => Len(calls) = 1
  BY <1>1, Entered
<1>6. After(Mapped, p, OP_PUSH) /\ OP_PUSH \in Emittable
  BY <1>3, <1>5, EmitsWithAfter, Emitters
<1>7. Current.hole = 0 /\ HolesOf(calls) \ {Current.hole} = HolesOf(calls)
  BY <1>1, NoHole
<1> HIDE DEF p
<1>8. Adds(Mapped, p, OP_PUSH, Cells + 1, HolesOf(calls))
  BY <1>1, <1>2, <1>4, <1>5, <1>6, Effects DEF Adds
<1>9. Cells + 1 = Current.base + Worth(Node)
  BY <1>4
<1> QED BY <1>1, <1>5, <1>7, <1>8, <1>9, EmitsAndReturns

LEMMA CompileVarKeeps ==
  ASSUME InCodegen, CompileVar, stage' = "codegen"
  PROVE  InCodegen'
<1> DEFINE q == AddVar(Mapped, Node.name)
           p == EmitWith(q, EMIT_LOAD, Slot(q, Node.name))
<1>1. /\ calls # << >> /\ Node.type = "VAR" /\ Current.at = "enter"
      /\ ~Exits(p) /\ prog' = p /\ depth' = Known(Offset(p), Cells + 1)
      /\ calls' = Returning /\ leaves' = leaves
  BY DEF CompileVar, In, Emits, Exit
<1>2. /\ Node \in Trees /\ Current \in CallRecords /\ Current.base \in Nat /\ Cells = Held(Current)
      /\ Len(prog.vars) \in Nat /\ Offset(prog) = Len(prog.code)
  BY <1>1, InCalls
<1>3. Node.name \in Names
  BY <1>1, <1>2 DEF Names
<1>4. Cells = Current.base /\ Worth(Node) = 1
  BY <1>1, <1>2, HeldBy DEF Worth, IsExpression
<1>5. /\ Mapped \in Progs /\ Mapped.code = prog.code /\ Mapped.vars = prog.vars
      /\ MapOK(Mapped.source_map, depth)
      /\ Mapped.source_map = << >> /\ MAX_SOURCE_MAP > 0 => Len(calls) = 1
  BY <1>1, Entered
<1>6. /\ q \in Progs /\ q.code = prog.code /\ q.source_map = Mapped.source_map
      /\ Len(q.vars) \in Nat /\ Len(prog.vars) <= Len(q.vars)
      /\ Slot(q, Node.name) \in 0..Len(q.vars) - 1
  BY <1>3, <1>5, AddVarEffect
<1> HIDE DEF q
<1>7. /\ After(q, p, OP_LOAD) /\ OP_LOAD \in Emittable
      /\ Slot(q, Node.name) \in 0..HalfRange - 1 => WordIn(p.code, Offset(q) + 2) = Slot(q, Node.name)
  <2>1. Slot(q, Node.name) \in Int
    BY <1>6
  <2> QED BY <1>6, <2>1, EmitsWithAfter, Emitters
<1> HIDE DEF p
<1>8. Len(p.vars) = Len(q.vars) /\ Len(q.vars) <= HalfRange - 1
  BY <1>1, <1>6, <1>7, LimitsAssumption, WordAssumption DEF After, Exits
<1>9. WordIn(p.code, Offset(prog) + 2) \in 0..Len(p.vars) - 1
  <2>1. Slot(q, Node.name) \in 0..HalfRange - 1 /\ HalfRange \in Nat
    BY <1>6, <1>8, WordAssumption
  <2>2. Offset(q) = Offset(prog)
    BY <1>6 DEF Offset
  <2> QED BY <1>6, <1>7, <1>8, <2>1, <2>2
<1>10. Current.hole = 0 /\ HolesOf(calls) \ {Current.hole} = HolesOf(calls)
  BY <1>1, NoHole
<1>11. Adds(q, p, OP_LOAD, Cells + 1, HolesOf(calls))
  BY <1>1, <1>2, <1>4, <1>5, <1>6, <1>7, <1>9, Effects DEF Adds
<1>12. Cells + 1 = Current.base + Worth(Node)
  BY <1>4
<1> QED BY <1>1, <1>5, <1>6, <1>10, <1>11, <1>12, EmitsAndReturns

LEMMA CompileOpKeeps ==
  ASSUME InCodegen, CompileOp, stage' = "codegen"
  PROVE  InCodegen'
<1> DEFINE op == EmitOp[Node.op]
           p == Emit(prog, op)
<1>1. /\ calls # << >> /\ Node.type = "OP" /\ Current.at = "right"
      /\ ~Exits(p) /\ prog' = p /\ depth' = Known(Offset(p), Cells - 1)
      /\ calls' = Returning /\ leaves' = leaves
  BY DEF CompileOp, In, Emits, Exit
<1>2. /\ Node \in Trees /\ Current \in CallRecords /\ Current.base \in Nat /\ Cells = Held(Current)
      /\ Len(prog.vars) \in Nat /\ prog \in Progs
  BY <1>1, InCalls
<1>3. op \in BinaryOps
  <2>1. Node.op \in DOMAIN EmitOp
    BY <1>1, <1>2, TreesAssumption
  <2> QED BY <2>1, Emitters
<1> HIDE DEF op
<1>4. Cells = Current.base + 2 /\ Worth(Node) = 1
  BY <1>1, <1>2, HeldBy DEF Worth, IsExpression, Node
<1>5. After(prog, p, op) /\ op \in Emittable
  BY <1>2, <1>3, EmitsAfter
<1>6. Current.hole = 0 /\ HolesOf(calls) \ {Current.hole} = HolesOf(calls)
  BY <1>1, NoHole
<1>7. MapOK(prog.source_map, depth)
  BY DEF InCodegen
<1> HIDE DEF p
<1>8. Pops(op) = 2 /\ Pushes(op) = 1 /\ op \notin Jumps \cup {OP_STORE, OP_LOAD} /\ op # OP_JMP
  BY <1>3, Effects
<1>9. Adds(prog, p, op, Cells - 1, HolesOf(calls))
  BY <1>1, <1>2, <1>4, <1>5, <1>7, <1>8 DEF Adds
<1>10. Cells - 1 = Current.base + Worth(Node)
  BY <1>2, <1>4
<1> QED BY <1>1, <1>6, <1>9, <1>10, NotEntered, EmitsAndReturns

LEMMA CompileStoreKeeps ==
  ASSUME InCodegen, CompileStore, stage' = "codegen"
  PROVE  InCodegen'
<1> DEFINE p == EmitWith(prog, EMIT_STORE, Current.slot)
<1>1. /\ calls # << >> /\ Node.type \in {"DECL", "ASSIGN"} /\ Current.at = "left"
      /\ ~Exits(p) /\ prog' = p /\ depth' = Known(Offset(p), Cells - 1)
      /\ calls' = Returning /\ leaves' = leaves
  BY DEF CompileStore, In, Emits, Exit
<1>2. /\ Current \in CallRecords /\ Current.base \in Nat /\ Cells = Held(Current)
      /\ Len(prog.vars) \in Nat /\ prog \in Progs
      /\ CallOK(Current, prog.code, depth, Len(prog.vars), leaves)
  BY <1>1, InCalls
<1>3. Cells = Current.base + 1 /\ Worth(Node) = 0
  BY <1>1, <1>2, HeldBy DEF Worth, IsExpression, Node
<1>4. Current.slot \in 0..Len(prog.vars) - 1
  BY <1>1, <1>2 DEF CallOK, Node
<1>5. /\ After(prog, p, OP_STORE) /\ OP_STORE \in Emittable
      /\ Current.slot \in 0..HalfRange - 1 => WordIn(p.code, Offset(prog) + 2) = Current.slot
  <2>1. Current.slot \in Int
    BY <1>4
  <2> QED BY <1>2, <2>1, EmitsWithAfter, Emitters
<1> HIDE DEF p
<1>6. Len(p.vars) = Len(prog.vars) /\ Len(prog.vars) <= HalfRange - 1
  BY <1>1, <1>2, <1>5, LimitsAssumption, WordAssumption DEF After, Exits
<1>7. WordIn(p.code, Offset(prog) + 2) \in 0..Len(p.vars) - 1
  <2>1. Current.slot \in 0..HalfRange - 1 /\ HalfRange \in Nat
    BY <1>4, <1>6, WordAssumption
  <2> QED BY <1>4, <1>5, <1>6, <2>1
<1>8. Current.hole = 0 /\ HolesOf(calls) \ {Current.hole} = HolesOf(calls)
  BY <1>1, NoHole
<1>9. MapOK(prog.source_map, depth)
  BY DEF InCodegen
<1>10. Adds(prog, p, OP_STORE, Cells - 1, HolesOf(calls))
  BY <1>1, <1>2, <1>3, <1>5, <1>7, <1>9, Effects DEF Adds
<1>11. Cells - 1 = Current.base + Worth(Node)
  BY <1>2, <1>3
<1> QED BY <1>1, <1>8, <1>10, <1>11, NotEntered, EmitsAndReturns

LEMMA CompilePrintKeeps ==
  ASSUME InCodegen, CompilePrint, stage' = "codegen"
  PROVE  InCodegen'
<1> DEFINE p == Emit(prog, EMIT_PRINT)
<1>1. /\ calls # << >> /\ Node.type = "PRINT" /\ Current.at = "left"
      /\ ~Exits(p) /\ prog' = p /\ depth' = Known(Offset(p), Cells - 1)
      /\ calls' = Returning /\ leaves' = leaves
  BY DEF CompilePrint, In, Emits, Exit
<1>2. /\ Current \in CallRecords /\ Current.base \in Nat /\ Cells = Held(Current)
      /\ Len(prog.vars) \in Nat /\ prog \in Progs
  BY <1>1, InCalls
<1>3. Cells = Current.base + 1 /\ Worth(Node) = 0
  BY <1>1, <1>2, HeldBy DEF Worth, IsExpression, Node
<1>4. After(prog, p, OP_PRINT) /\ OP_PRINT \in Emittable
  BY <1>2, EmitsAfter, Emitters
<1> HIDE DEF p
<1>5. Current.hole = 0 /\ HolesOf(calls) \ {Current.hole} = HolesOf(calls)
  BY <1>1, NoHole
<1>6. MapOK(prog.source_map, depth)
  BY DEF InCodegen
<1>7. Adds(prog, p, OP_PRINT, Cells - 1, HolesOf(calls))
  BY <1>1, <1>2, <1>3, <1>4, <1>6, Effects DEF Adds
<1>8. Cells - 1 = Current.base + Worth(Node)
  BY <1>2, <1>3
<1> QED BY <1>1, <1>5, <1>7, <1>8, NotEntered, EmitsAndReturns
-----------------------------------------------------------------------------
(* Those that make a call.                                                  *)

\* The innermost call goes on to place at, with this slot and this hole.
GoesOn(at, slot, hole) == [Current EXCEPT !.at = at, !.slot = slot, !.hole = hole]

LEMMA GoesOnTypes ==
  ASSUME InCodegen, calls # << >>,
         NEW at \in {"enter", "left", "right", "extra", "return"}, NEW slot \in Int, NEW hole \in Nat
  PROVE  LET f == GoesOn(at, slot, hole)
         IN  /\ f \in CallRecords
             /\ f.node = Node /\ f.base = Current.base /\ f.start = Current.start
             /\ f.at = at /\ f.slot = slot /\ f.hole = hole
<1>1. Current \in CallRecords
  BY InCalls
<1> QED BY <1>1 DEF GoesOn, CallRecords, Node

(* A call without a hole goes on.                                           *)
LEMMA GoesOnOK ==
  ASSUME InCodegen, calls # << >>, NEW p, NEW d, NEW H, Steps(p, d, H),
         NEW at \in {"left", "right"}, NEW slot \in Int,
         at = "right" => Node.type \notin {"IF", "WHILE"},
         Node.type \in {"DECL", "ASSIGN"} => slot \in 0..Len(p.vars) - 1
  PROVE  CallOK(GoesOn(at, slot, 0), p.code, d, Len(p.vars), leaves)
<1> DEFINE f == GoesOn(at, slot, 0)
<1>1. /\ f.node = Node /\ f.base = Current.base /\ f.start = Current.start
      /\ f.at = at /\ f.slot = slot /\ f.hole = 0
  <2>1. Current \in CallRecords
    BY InCalls
  <2> QED BY <2>1 DEF GoesOn, CallRecords, Node
<1>2. CallOK(Current, p.code, d, Len(p.vars), leaves)
  BY InCalls, CallKept DEF Steps
<1>3. f.start \in DOMAIN d /\ Arrives(d[f.start], f.base, leaves)
  BY <1>1, <1>2 DEF CallOK
<1> HIDE DEF f
<1> QED BY <1>1, <1>3 DEF CallOK, f

(* A call whose jump has just been emitted as its hole goes on.             *)
LEMMA GoesOnWithHole ==
  ASSUME InCodegen, calls # << >>, NEW p, NEW d, NEW H, Steps(p, d, H),
         NEW at, NEW hole \in Nat \ {0},
         \/ Node.type \in {"IF", "WHILE"} /\ at = "right"
         \/ Node.type = "IF" /\ at = "extra",
         hole - 1 \in DOMAIN d \ {Offset(p)}, p.code[hole] \in Jumps,
         d[hole - 1] = Current.base + Pops(p.code[hole])
  PROVE  CallOK(GoesOn(at, Current.slot, hole), p.code, d, Len(p.vars), leaves)
<1> DEFINE f == GoesOn(at, Current.slot, hole)
<1>0. Current.slot \in Int
  BY InCalls, CallTypes
<1>1. /\ f.node = Node /\ f.base = Current.base /\ f.start = Current.start
      /\ f.at = at /\ f.hole = hole
  BY <1>0, GoesOnTypes
<1>2. CallOK(Current, p.code, d, Len(p.vars), leaves)
  BY InCalls, CallKept DEF Steps
<1>3. f.start \in DOMAIN d /\ Arrives(d[f.start], f.base, leaves)
  BY <1>1, <1>2 DEF CallOK
<1> HIDE DEF f
<1> QED BY <1>1, <1>3 DEF CallOK, f, Offset

(* The children a call is made for: an expression leaves a cell.            *)
LEMMA Children ==
  ASSUME NEW n \in Trees
  PROVE  /\ n.type \in {"OP", "DECL", "ASSIGN", "PRINT", "IF", "WHILE"} =>
              n.left \in Trees /\ Worth(n.left) = 1
         /\ n.type = "OP" => n.right \in Trees /\ Worth(n.right) = 1
         /\ n.type = "SEQ" => n.left \in Trees
         /\ n.type \in {"IF", "WHILE", "SEQ"} => n.right \in Trees
         /\ n.type = "IF" => n.extra \in Trees \cup {NoNode}
<1> DEFINE Expression(e) == e \in Trees /\ IsExpression(e)
<1>1. \/ n.type = "INT" /\ n.value \in Word
      \/ n.type = "VAR"
      \/ n.type = "OP" /\ Expression(n.left) /\ Expression(n.right)
      \/ n.type \in {"DECL", "ASSIGN", "PRINT"} /\ Expression(n.left)
      \/ n.type = "IF" /\ Expression(n.left) /\ n.right \in Trees /\ n.extra \in Trees \cup {NoNode}
      \/ n.type = "WHILE" /\ Expression(n.left) /\ n.right \in Trees
      \/ n.type = "SEQ" /\ n.left \in Trees /\ n.right \in Trees
  BY TreesAssumption
<1>2. \A e : Expression(e) => e \in Trees /\ Worth(e) = 1
  BY DEF Worth
<1>3. \A e : Worth(e) \in {0, 1}
  BY DEF Worth
<1> HIDE DEF Expression
<1> QED BY <1>1, <1>2, <1>3

LEMMA EnterStoreKeeps ==
  ASSUME InCodegen, EnterStore, stage' = "codegen"
  PROVE  InCodegen'
<1> DEFINE p == AddVar(Mapped, Node.name)
           slot == Slot(p, Node.name)
           f == GoesOn("left", slot, 0)
<1>1. /\ calls # << >> /\ Node.type \in {"DECL", "ASSIGN"} /\ Current.at = "enter"
      /\ ~Exits(p) /\ prog' = p /\ depth' = Known(Offset(p), Cells)
      /\ calls' = Calling([Current EXCEPT !.at = "left", !.slot = slot], Node.left, p, Cells)
      /\ leaves' = leaves
  BY DEF EnterStore, In, Emits, Exit
<1>2. /\ Node \in Trees /\ Current \in CallRecords /\ Current.base \in Nat
      /\ Cells = Held(Current) /\ Cells \in Nat
      /\ Offset(prog) \in DOMAIN depth
  BY <1>1, InCalls
<1>3. Cells = Current.base /\ Node.left \in Trees /\ Worth(Node.left) = 1
  BY <1>1, <1>2, HeldBy, Children
<1>4. /\ Mapped \in Progs /\ Mapped.code = prog.code /\ Mapped.vars = prog.vars
      /\ MapOK(Mapped.source_map, depth)
      /\ Mapped.source_map # << >> \/ MAX_SOURCE_MAP = 0
  BY <1>1, Entered
<1>5. /\ p \in Progs /\ p.code = prog.code /\ p.source_map = Mapped.source_map
      /\ Len(p.vars) \in Nat /\ Len(prog.vars) <= Len(p.vars)
      /\ slot \in 0..Len(p.vars) - 1 /\ slot \in Int
  <2>1. Node.name \in Names
    BY <1>1, <1>2 DEF Names
  <2> HIDE DEF slot
  <2> QED BY <1>4, <2>1, AddVarEffect DEF slot
<1> HIDE DEF p, slot
<1>6. Current.hole = 0 /\ HolesOf(calls) \ {Current.hole} = HolesOf(calls)
  BY <1>1, NoHole
<1>7. Offset(p) = Offset(prog) /\ depth' = depth /\ Steps(p, depth, HolesOf(calls))
  BY <1>1, <1>4, <1>5, QuietSteps
<1>8. CallOK(f, p.code, depth, Len(p.vars), leaves)
  BY <1>1, <1>5, <1>7, GoesOnOK
<1>9. /\ f \in CallRecords /\ f.node = Node /\ f.base = Current.base /\ f.at = "left" /\ f.hole = 0
      /\ f = [Current EXCEPT !.at = "left", !.slot = slot]
  <2>1. f = [Current EXCEPT !.at = "left", !.slot = slot]
    BY <1>2, <1>6 DEF GoesOn, CallRecords
  <2> QED BY <1>1, <1>5, <2>1, GoesOnTypes
<1> HIDE DEF f
<1>10. Held(f) <= Cells + Worth(Node.left)
  <2>1. Held(f) = Current.base + (IF Node.type = "SEQ" THEN 0 ELSE 1)
    BY <1>9, HeldBy
  <2> QED BY <1>1, <1>2, <1>3, <2>1
<1>11. (HolesOf(calls) \ {Current.hole}) \cup ({f.hole} \ {0}) = HolesOf(calls)
  BY <1>6, <1>9
<1>12. depth[Offset(p)] = Cells
  BY <1>7 DEF Cells
<1>13. calls' = Calling(f, Node.left, p, Cells)
  BY <1>1, <1>9
<1>14. MakesCall(f, p, depth, Node.left, Cells)
  BY <1>2, <1>3, <1>4, <1>5, <1>7, <1>8, <1>9, <1>10, <1>11, <1>12 DEF MakesCall
<1> QED BY <1>1, <1>7, <1>13, <1>14, StepCalls

LEMMA EnterOtherKeeps ==
  ASSUME InCodegen, EnterOther, stage' = "codegen"
  PROVE  InCodegen'
<1> DEFINE p == Mapped
           f == GoesOn("left", Current.slot, 0)
<1>1. /\ calls # << >> /\ Node.type \in {"OP", "PRINT", "IF", "WHILE", "SEQ"} /\ Current.at = "enter"
      /\ ~Exits(p) /\ prog' = p /\ depth' = Known(Offset(p), Cells)
      /\ calls' = Calling([Current EXCEPT !.at = "left"], Node.left, p, Cells)
      /\ leaves' = leaves
  BY DEF EnterOther, In, Emits, Exit
<1>2. /\ Node \in Trees /\ Current \in CallRecords /\ Current.base \in Nat
      /\ Cells = Held(Current) /\ Cells \in Nat /\ Current.slot \in Int
      /\ Offset(prog) \in DOMAIN depth /\ Len(prog.vars) \in Nat
  BY <1>1, InCalls, CallTypes
<1>3. Cells = Current.base /\ Node.left \in Trees /\ Worth(Node.left) \in {0, 1}
      /\ (Node.type # "SEQ" => Worth(Node.left) = 1)
  BY <1>1, <1>2, HeldBy, Children DEF Worth
<1>4. /\ p \in Progs /\ p.code = prog.code /\ p.vars = prog.vars
      /\ MapOK(p.source_map, depth)
      /\ p.source_map # << >> \/ MAX_SOURCE_MAP = 0
  BY <1>1, Entered
<1> HIDE DEF p
<1>5. Current.hole = 0 /\ HolesOf(calls) \ {Current.hole} = HolesOf(calls)
  BY <1>1, NoHole
<1>6. Offset(p) = Offset(prog) /\ depth' = depth /\ Steps(p, depth, HolesOf(calls))
  BY <1>1, <1>2, <1>4, QuietSteps
<1>7. CallOK(f, p.code, depth, Len(p.vars), leaves)
  BY <1>1, <1>2, <1>6, GoesOnOK
<1>8. /\ f \in CallRecords /\ f.node = Node /\ f.base = Current.base /\ f.at = "left" /\ f.hole = 0
      /\ f = [Current EXCEPT !.at = "left"]
  <2>1. f = [Current EXCEPT !.at = "left"]
    BY <1>2, <1>5 DEF GoesOn, CallRecords
  <2> QED BY <1>1, <1>2, <2>1, GoesOnTypes
<1> HIDE DEF f
<1>9. Held(f) <= Cells + Worth(Node.left)
  <2>1. Held(f) = Current.base + (IF Node.type = "SEQ" THEN 0 ELSE 1)
    BY <1>8, HeldBy
  <2> QED BY <1>1, <1>2, <1>3, <2>1
<1>10. (HolesOf(calls) \ {Current.hole}) \cup ({f.hole} \ {0}) = HolesOf(calls)
  BY <1>5, <1>8
<1>11. depth[Offset(p)] = Cells
  BY <1>6 DEF Cells
<1>12. calls' = Calling(f, Node.left, p, Cells)
  BY <1>1, <1>8
<1>13. MakesCall(f, p, depth, Node.left, Cells)
  BY <1>2, <1>3, <1>4, <1>6, <1>7, <1>8, <1>9, <1>10, <1>11 DEF MakesCall
<1> QED BY <1>1, <1>6, <1>12, <1>13, StepCalls

LEMMA SecondPartKeeps ==
  ASSUME InCodegen, SecondPart
  PROVE  InCodegen'
<1> DEFINE f == GoesOn("right", Current.slot, 0)
<1>1. /\ calls # << >> /\ Node.type \in {"OP", "SEQ"} /\ Current.at = "left"
      /\ prog' = prog /\ depth' = depth /\ leaves' = leaves
      /\ calls' = Calling([Current EXCEPT !.at = "right"], Node.right, prog, Cells)
  BY DEF SecondPart, In
<1>2. /\ Node \in Trees /\ Current \in CallRecords /\ Current.base \in Nat
      /\ Cells = Held(Current) /\ Cells \in Nat /\ Current.slot \in Int
      /\ Offset(prog) \in DOMAIN depth /\ Len(prog.vars) \in Nat
  BY <1>1, InCalls, CallTypes
<1>3. /\ Node.right \in Trees /\ Worth(Node.right) \in {0, 1}
      /\ Node.type = "OP" => Worth(Node.right) = 1 /\ Cells = Current.base + 1
      /\ Node.type = "SEQ" => Cells = Current.base
  BY <1>1, <1>2, HeldBy, Children DEF Worth, Node
<1>4. prog \in Progs /\ ~Exits(prog) /\ MapOK(prog.source_map, depth)
  BY DEF InCodegen
<1>5. Current.hole = 0 /\ HolesOf(calls) \ {Current.hole} = HolesOf(calls)
  BY <1>1, NoHole
<1>6. Steps(prog, depth, HolesOf(calls))
  BY <1>1, <1>2, <1>4, QuietSteps
<1>7. CallOK(f, prog.code, depth, Len(prog.vars), leaves)
  BY <1>1, <1>2, <1>6, GoesOnOK
<1>8. /\ f \in CallRecords /\ f.node = Node /\ f.base = Current.base /\ f.at = "right" /\ f.hole = 0
      /\ f = [Current EXCEPT !.at = "right"]
  <2>1. f = [Current EXCEPT !.at = "right"]
    BY <1>2, <1>5 DEF GoesOn, CallRecords
  <2> QED BY <1>1, <1>2, <2>1, GoesOnTypes
<1> HIDE DEF f
<1>9. Held(f) <= Cells + Worth(Node.right)
  <2>1. Held(f) = Current.base + (IF Node.type = "OP" THEN 2 ELSE 0)
    BY <1>8, HeldBy
  <2> QED BY <1>1, <1>2, <1>3, <2>1
<1>10. (HolesOf(calls) \ {Current.hole}) \cup ({f.hole} \ {0}) = HolesOf(calls)
  BY <1>5, <1>8
<1>11. depth[Offset(prog)] = Cells
  BY DEF Cells
<1>12. calls' = Calling(f, Node.right, prog, Cells)
  BY <1>1, <1>8
<1>13. prog.source_map # << >> \/ MAX_SOURCE_MAP = 0
  BY <1>1, NotEntered
<1>14. MakesCall(f, prog, depth, Node.right, Cells)
  BY <1>2, <1>3, <1>6, <1>7, <1>8, <1>9, <1>10, <1>11, <1>13 DEF MakesCall
<1> QED BY <1>1, <1>12, <1>14, StepCalls

LEMMA CompileTestKeeps ==
  ASSUME InCodegen, CompileTest, stage' = "codegen"
  PROVE  InCodegen'
<1> DEFINE p == EmitWith(prog, EMIT_JZ, 0)
           hole == Offset(prog) + 1
           f == GoesOn("right", Current.slot, hole)
           d == Known(Offset(p), Cells - 1)
           H == HolesOf(calls) \cup {hole}
<1>1. /\ calls # << >> /\ Node.type \in {"IF", "WHILE"} /\ Current.at = "left"
      /\ ~Exits(p) /\ prog' = p /\ depth' = d
      /\ calls' = Calling([Current EXCEPT !.at = "right", !.hole = hole], Node.right, p, Cells - 1)
      /\ leaves' = leaves
  BY DEF CompileTest, In, Emits, Exit
<1>2. /\ Node \in Trees /\ Current \in CallRecords /\ Current.base \in Nat
      /\ Cells = Held(Current) /\ Current.slot \in Int
      /\ prog \in Progs /\ Offset(prog) \in Nat /\ Len(prog.vars) \in Nat
  BY <1>1, InCalls, CallTypes
<1>3. Cells = Current.base + 1 /\ Node.right \in Trees /\ Worth(Node.right) \in {0, 1}
  BY <1>1, <1>2, HeldBy, Children DEF Worth, Node
<1>4. Cells - 1 = Current.base
  BY <1>2, <1>3
<1>5. After(prog, p, OP_JZ) /\ OP_JZ \in Emittable
  BY <1>2, EmitsWithAfter, Emitters
<1> HIDE DEF p
<1>6. MapOK(prog.source_map, depth)
  BY DEF InCodegen
<1>7. Adds(prog, p, OP_JZ, Cells - 1, H)
  BY <1>1, <1>2, <1>3, <1>4, <1>5, <1>6, Effects DEF Adds
<1>8. /\ Steps(p, d, H)
      /\ d[Offset(p)] = Current.base
      /\ Offset(prog) \in DOMAIN d \ {Offset(p)} /\ d[Offset(prog)] = Cells
      /\ p.code[hole] = OP_JZ
  BY <1>1, <1>4, <1>7, AddsSteps
<1> HIDE DEF d
<1>9. hole \in Nat \ {0} /\ hole - 1 = Offset(prog)
  BY <1>2
<1>10. /\ f \in CallRecords /\ f.node = Node /\ f.base = Current.base /\ f.at = "right" /\ f.hole = hole
       /\ f = [Current EXCEPT !.at = "right", !.hole = hole]
  <2> HIDE DEF hole
  <2>1. f = [Current EXCEPT !.at = "right", !.hole = hole]
    BY <1>2 DEF GoesOn, CallRecords
  <2> QED BY <1>1, <1>2, <1>9, <2>1, GoesOnTypes
<1>11. CallOK(f, p.code, d, Len(p.vars), leaves)
  <2>1. p.code[hole] \in Jumps /\ d[hole - 1] = Current.base + Pops(p.code[hole])
    BY <1>3, <1>8, <1>9, Effects
  <2> HIDE DEF hole
  <2> QED BY <1>1, <1>8, <1>9, <2>1, GoesOnWithHole
<1> HIDE DEF f, hole
<1>12. Steps(p, d, (HolesOf(calls) \ {Current.hole}) \cup ({f.hole} \ {0}))
  <2>1. HolesOf(calls) \ {Current.hole} = HolesOf(calls)
    BY <1>1, NoHole
  <2>2. (HolesOf(calls) \ {Current.hole}) \cup ({f.hole} \ {0}) = H
    BY <1>9, <1>10, <2>1
  <2> QED BY <1>8, <2>2
<1>13. Held(f) <= Current.base + Worth(Node.right)
  <2>1. Held(f) = Current.base + (IF Node.type = "OP" THEN 2 ELSE 0)
    BY <1>10, HeldBy
  <2> QED BY <1>1, <1>2, <1>3, <2>1
<1>14. p.source_map # << >> \/ MAX_SOURCE_MAP = 0
  BY <1>1, <1>5, NotEntered DEF After
<1>15. MakesCall(f, p, d, Node.right, Current.base)
  BY <1>2, <1>3, <1>8, <1>10, <1>11, <1>12, <1>13, <1>14 DEF MakesCall
<1>16. calls' = Calling(f, Node.right, p, Current.base)
  BY <1>1, <1>4, <1>10
<1> QED BY <1>1, <1>15, <1>16, StepCalls

LEMMA CompileElseKeeps ==
  ASSUME InCodegen, CompileElse, stage' = "codegen"
  PROVE  InCodegen'
<1> DEFINE over == EmitWith(prog, EMIT_JMP, 0)
           p == Patch(over, Current.hole, Offset(over))
           hole == Offset(prog) + 1
           f == GoesOn("extra", Current.slot, hole)
           d == Known(Offset(over), Current.base)
           H == HolesOf(calls) \cup {hole}
<1>1. /\ calls # << >> /\ Node.type = "IF" /\ Current.at = "right" /\ Node.extra # NoNode
      /\ ~Exits(p) /\ prog' = p /\ depth' = Known(Offset(p), Current.base)
      /\ calls' = Calling([Current EXCEPT !.at = "extra", !.hole = hole], Node.extra, p, Current.base)
      /\ leaves' = leaves
  BY DEF CompileElse, In, Emits, Exit
<1>2. /\ Node \in Trees /\ Current \in CallRecords /\ Current.base \in Nat
      /\ Cells = Held(Current) /\ Current.slot \in Int /\ leaves \in BOOLEAN
      /\ prog \in Progs /\ Offset(prog) \in Nat /\ Len(prog.vars) \in Nat
      /\ Offset(prog) = Len(prog.code)
      /\ CallOK(Current, prog.code, depth, Len(prog.vars), leaves)
  BY <1>1, InCalls, CallTypes
<1>3. Cells = Current.base /\ Node.extra \in Trees /\ Worth(Node.extra) \in {0, 1}
  BY <1>1, <1>2, HeldBy, Children DEF Worth, Node
<1>4. After(prog, over, OP_JMP) /\ OP_JMP \in Emittable
  BY <1>2, EmitsWithAfter, Emitters
<1> HIDE DEF over
<1>5. over \in Progs /\ ~Exits(over) /\ Offset(p) = Offset(over)
  BY <1>1, <1>4, PatchExits, PatchLen DEF After
<1>6. MapOK(prog.source_map, depth)
  BY DEF InCodegen
<1>7. Adds(prog, over, OP_JMP, Current.base, H)
  BY <1>2, <1>3, <1>4, <1>5, <1>6, Effects DEF Adds
<1>8. /\ Steps(over, d, H)
      /\ d[Offset(over)] = Current.base /\ Offset(over) \in DOMAIN d
      /\ Offset(prog) \in DOMAIN d \ {Offset(over)} /\ d[Offset(prog)] = Cells
      /\ over.code[hole] = OP_JMP
  BY <1>1, <1>7, AddsSteps
<1> HIDE DEF d
<1>9. hole \in Nat \ {0} /\ hole - 1 = Offset(prog) /\ Current.hole # 0 /\ Current.hole # hole
  <2>1. Current.hole # 0 /\ Current.hole - 1 # Len(prog.code) /\ Current.hole \in Nat
    BY <1>1, <1>2, CallTypes DEF CallOK, Node
  <2> QED BY <1>2, <2>1
<1>10. /\ Steps(p, d, H \ {Current.hole})
       /\ p.source_map = over.source_map
       /\ \A at \in DOMAIN d \ {Offset(over)} : p.code[at + 1] = over.code[at + 1]
  <2>1. Arrives(d[Offset(over)], Current.base, leaves)
    BY <1>2, <1>8 DEF Arrives
  <2>2. /\ calls # << >> /\ Current.hole # 0 /\ Steps(over, d, H)
        /\ Offset(over) \in DOMAIN d
    BY <1>1, <1>8, <1>9
  <2> HIDE DEF H
  <2>3. Steps(p, d, H \ {Current.hole})
    BY <2>1, <2>2, PatchSteps
  <2>4. p.source_map = over.source_map
    BY <2>1, <2>2, PatchSteps
  <2>5. \A at \in DOMAIN d \ {Offset(over)} : p.code[at + 1] = over.code[at + 1]
    BY <2>1, <2>2, PatchSteps
  <2> QED BY <2>3, <2>4, <2>5
<1> HIDE DEF p
<1>11. /\ f \in CallRecords /\ f.node = Node /\ f.base = Current.base /\ f.at = "extra" /\ f.hole = hole
       /\ f = [Current EXCEPT !.at = "extra", !.hole = hole]
  <2> HIDE DEF hole
  <2>1. f = [Current EXCEPT !.at = "extra", !.hole = hole]
    BY <1>2 DEF GoesOn, CallRecords
  <2> QED BY <1>1, <1>2, <1>9, <2>1, GoesOnTypes
<1>12. CallOK(f, p.code, d, Len(p.vars), leaves)
  <2>1. p.code[hole] = OP_JMP
    BY <1>8, <1>10
  <2>2. p.code[hole] \in Jumps /\ d[hole - 1] = Current.base + Pops(p.code[hole])
    BY <1>2, <1>3, <1>8, <1>9, <2>1, Effects
  <2>3. hole - 1 \in DOMAIN d \ {Offset(p)}
    BY <1>5, <1>8, <1>9
  <2> HIDE DEF hole
  <2> QED BY <1>1, <1>9, <1>10, <2>2, <2>3, GoesOnWithHole
<1> HIDE DEF f, hole
<1>13. Steps(p, d, (HolesOf(calls) \ {Current.hole}) \cup ({f.hole} \ {0}))
  <2>1. (HolesOf(calls) \ {Current.hole}) \cup ({f.hole} \ {0}) = H \ {Current.hole}
    BY <1>9, <1>11
  <2> QED BY <1>10, <2>1
<1>14. Held(f) <= Current.base + Worth(Node.extra)
  <2>1. Held(f) = Current.base
    BY <1>11, HeldBy
  <2> QED BY <1>2, <1>3, <2>1
<1>15. p.source_map # << >> \/ MAX_SOURCE_MAP = 0
  BY <1>1, <1>4, <1>10, NotEntered DEF After
<1>16. d[Offset(p)] = Current.base /\ depth' = d
  BY <1>1, <1>5, <1>8 DEF d
<1>17. MakesCall(f, p, d, Node.extra, Current.base)
  BY <1>2, <1>3, <1>11, <1>12, <1>13, <1>14, <1>15, <1>16 DEF MakesCall
<1>18. calls' = Calling(f, Node.extra, p, Current.base)
  BY <1>1, <1>11
<1> QED BY <1>1, <1>16, <1>17, <1>18, StepCalls
-----------------------------------------------------------------------------
(* Those that end a statement.                                              *)

LEMMA EndIfKeeps ==
  ASSUME InCodegen, EndIf, stage' = "codegen"
  PROVE  InCodegen'
<1> DEFINE p == Patch(prog, Current.hole, Offset(prog))
<1>1. /\ calls # << >> /\ Node.type = "IF" /\ Current.at \in {"right", "extra"}
      /\ ~Exits(p) /\ prog' = p /\ depth' = Known(Offset(p), Cells)
      /\ calls' = Returning /\ leaves' = leaves
  BY DEF EndIf, In, Emits, Exit
<1>2. /\ Current \in CallRecords /\ Current.base \in Nat /\ Cells = Held(Current)
      /\ prog \in Progs /\ Len(prog.vars) \in Nat /\ leaves \in BOOLEAN
      /\ Offset(prog) \in DOMAIN depth
      /\ CallOK(Current, prog.code, depth, Len(prog.vars), leaves)
  BY <1>1, InCalls
<1>3. Cells = Current.base /\ Worth(Node) = 0
  BY <1>1, <1>2, HeldBy DEF Worth, IsExpression, Node
<1>4. MapOK(prog.source_map, depth) /\ ~Exits(prog)
  BY DEF InCodegen
<1>5. Known(Offset(prog), Cells) = depth /\ Steps(prog, depth, HolesOf(calls))
  BY <1>1, <1>2, <1>4, QuietSteps
<1>6. Current.hole # 0
  BY <1>1, <1>2 DEF CallOK, Node
<1>7. /\ Steps(p, depth, HolesOf(calls) \ {Current.hole})
      /\ Offset(p) = Offset(prog) /\ p.source_map = prog.source_map
  <2>1. Arrives(depth[Offset(prog)], Current.base, leaves)
    BY <1>2, <1>3 DEF Arrives, Cells
  <2> QED BY <1>1, <1>2, <1>5, <1>6, <2>1, PatchSteps
<1> HIDE DEF p
<1>8. depth[Offset(p)] = Current.base + Worth(Node)
  BY <1>2, <1>3, <1>7 DEF Cells
<1>9. depth' = depth
  BY <1>1, <1>5, <1>7
<1>10. p.source_map = << >> /\ MAX_SOURCE_MAP > 0 => Len(calls) = 1
  BY <1>1, <1>7, NotEntered
<1> QED BY <1>1, <1>7, <1>8, <1>9, <1>10, StepReturns

LEMMA CompileLoopKeeps ==
  ASSUME InCodegen, CompileLoop, stage' = "codegen"
  PROVE  InCodegen'
<1> DEFINE loop == EmitWith(prog, EMIT_JMP, Current.start)
           p == Patch(loop, Current.hole, Offset(loop))
           d == Known(Offset(loop), Current.base)
<1>1. /\ calls # << >> /\ Node.type = "WHILE" /\ Current.at = "right"
      /\ ~Exits(p) /\ prog' = p /\ depth' = Known(Offset(p), Current.base)
      /\ calls' = Returning /\ leaves' = leaves
  BY DEF CompileLoop, In, Emits, Exit
<1>2. /\ Current \in CallRecords /\ Current.base \in Nat /\ Cells = Held(Current)
      /\ prog \in Progs /\ Len(prog.vars) \in Nat /\ leaves \in BOOLEAN
      /\ CallOK(Current, prog.code, depth, Len(prog.vars), leaves)
      /\ CodeSoFar(prog.code, depth, HolesOf(calls), Len(prog.vars), leaves)
  BY <1>1, InCalls
<1>3. Cells = Current.base /\ Worth(Node) = 0
  BY <1>1, <1>2, HeldBy DEF Worth, IsExpression, Node
<1>4. MapOK(prog.source_map, depth) /\ ~Exits(prog)
  BY DEF InCodegen
<1>5. /\ Current.start \in DOMAIN depth /\ Arrives(depth[Current.start], Current.base, leaves)
      /\ Current.hole # 0
  BY <1>1, <1>2 DEF CallOK, Node
<1>6. Current.start \in 0..HalfRange - 1 /\ Current.start \in Int
  <2>1. Len(prog.code) \in Nat /\ Len(prog.code) <= MAX_CODE_SIZE /\ MAX_CODE_SIZE \in Nat
    BY <1>2, <1>4, LenProperties, LimitsAssumption DEF Progs, Exits
  <2>2. MAX_CODE_SIZE <= HalfRange - 1 /\ HalfRange \in Nat
    BY LimitsAssumption, WordAssumption
  <2>3. Current.start \in 0..Len(prog.code)
    BY <1>2, <1>5 DEF CodeSoFar
  <2> QED BY <2>1, <2>2, <2>3
<1>7. /\ After(prog, loop, OP_JMP) /\ OP_JMP \in Emittable
      /\ WordIn(loop.code, Offset(prog) + 2) = Current.start
  BY <1>2, <1>6, EmitsWithAfter, Emitters
<1> HIDE DEF loop
<1>8. loop \in Progs /\ ~Exits(loop) /\ Offset(p) = Offset(loop)
  BY <1>1, <1>7, PatchExits, PatchLen DEF After
<1>9. Adds(prog, loop, OP_JMP, Current.base, HolesOf(calls))
  <2>1. Cells - Pops(OP_JMP) + Pushes(OP_JMP) = Current.base
    BY <1>2, <1>3, Effects
  <2>2. Cells >= Pops(OP_JMP)
    BY <1>2, <1>3, Effects
  <2> QED BY <1>2, <1>4, <1>5, <1>7, <1>8, <2>1, <2>2, Effects DEF Adds
<1>10. /\ Steps(loop, d, HolesOf(calls))
       /\ d[Offset(loop)] = Current.base /\ Offset(loop) \in DOMAIN d
  BY <1>1, <1>9, AddsSteps
<1>11. /\ Steps(p, d, HolesOf(calls) \ {Current.hole})
       /\ p.source_map = loop.source_map
  <2>1. Arrives(d[Offset(loop)], Current.base, leaves)
    BY <1>2, <1>10 DEF Arrives
  <2> HIDE DEF d
  <2> QED BY <1>1, <1>5, <1>10, <2>1, PatchSteps
<1> HIDE DEF p
<1>12. d[Offset(p)] = Current.base + Worth(Node)
  <2> HIDE DEF d
  <2> QED BY <1>2, <1>3, <1>8, <1>10
<1>13. depth' = d
  BY <1>1, <1>8
<1>14. p.source_map = << >> /\ MAX_SOURCE_MAP > 0 => Len(calls) = 1
  BY <1>1, <1>7, <1>11, NotEntered DEF After
<1> HIDE DEF d
<1> QED BY <1>1, <1>11, <1>12, <1>13, <1>14, StepReturns

LEMMA EndSeqKeeps ==
  ASSUME InCodegen, EndSeq
  PROVE  InCodegen'
<1>1. /\ calls # << >> /\ Node.type = "SEQ" /\ Current.at = "right"
      /\ prog' = prog /\ depth' = depth /\ leaves' = leaves /\ calls' = Returning
  BY DEF EndSeq, In
<1>2. /\ Current \in CallRecords /\ Current.base \in Nat /\ Cells = Held(Current)
      /\ prog \in Progs /\ Len(prog.vars) \in Nat
  BY <1>1, InCalls
<1>3. Cells = Current.base /\ Worth(Node) = 0
  BY <1>1, <1>2, HeldBy DEF Worth, IsExpression, Node
<1>4. MapOK(prog.source_map, depth) /\ ~Exits(prog)
  BY DEF InCodegen
<1>5. HolesOf(calls) \ {Current.hole} = HolesOf(calls)
  BY <1>1, NoHole
<1>6. Steps(prog, depth, HolesOf(calls) \ {Current.hole})
  <2>1. Steps(prog, depth, HolesOf(calls))
    BY <1>1, <1>2, <1>4, QuietSteps
  <2> QED BY <1>5, <2>1
<1>7. depth[Offset(prog)] = Current.base + Worth(Node)
  BY <1>2, <1>3 DEF Cells
<1> QED BY <1>1, <1>6, <1>7, NotEntered, StepReturns

LEMMA NodeReturnsKeeps ==
  ASSUME InCodegen, NodeReturns
  PROVE  InCodegen'
<1> DEFINE c == prog.code
           n == Len(prog.vars)
           cells == IF calls' = << >> THEN 0 ELSE Held(calls'[Len(calls')])
           d == Grown(depth, Len(c), cells)
           more == leaves \/ cells # depth[Len(c)]
           m == Len(calls)
<1>1. /\ calls # << >> /\ Current.at = "return" /\ calls' = SubSeq(calls, 1, m - 1)
      /\ depth' = Known(Offset(prog), cells)
      /\ leaves' = (leaves \/ depth' # depth) /\ prog' = prog
  BY DEF NodeReturns
<1>2. /\ Current \in CallRecords /\ Current.base \in Nat /\ Cells = Held(Current) /\ Cells \in Nat
      /\ prog \in Progs /\ n \in Nat /\ leaves \in BOOLEAN /\ m \in Nat \ {0}
      /\ calls \in Seq(CallRecords)
      /\ CallsOK(calls, c, depth, n, leaves)
      /\ CodeSoFar(c, depth, HolesOf(calls), n, leaves)
      /\ Offset(prog) = Len(c) /\ Len(c) \in Nat /\ Len(c) \in DOMAIN depth
      /\ depth \in [DOMAIN depth -> Nat]
  BY <1>1, InCalls
<1>3. Current.hole = 0
  BY <1>1, NoHole
<1>4. /\ Len(SubSeq(calls, 1, m - 1)) = m - 1
      /\ \A k \in 1..m - 1 : SubSeq(calls, 1, m - 1)[k] = calls[k]
  <2>1. Stands(c, depth, n, leaves, c, depth, n, leaves)
    BY <1>2, StandsSame
  <2>2. calls[Len(calls)].hole = 0
    BY <1>3 DEF Current
  <2> QED BY <1>1, <1>2, <2>1, <2>2, TopEnds
<1>5. /\ Len(calls') = m - 1 /\ (calls' = << >> <=> m = 1)
      /\ \A k \in 1..m - 1 : calls'[k] = calls[k]
  <2>1. Len(calls') = m - 1 /\ \A k \in 1..m - 1 : calls'[k] = calls[k]
    BY <1>1, <1>4
  <2>2. calls' = << >> => m = 1
    BY <1>2, <2>1
  <2>3. m = 1 => calls' = << >>
    <3>1. SubSeq(calls, 1, 0) = << >>
      BY <1>2, SubSeqEmpty
    <3> QED BY <1>1, <3>1
  <2> QED BY <2>1, <2>2, <2>3
<1>6. cells \in Nat /\ cells <= Cells
  <2>1. CASE calls' = << >>
    BY <1>2, <2>1
  <2>2. CASE calls' # << >>
    <3>1. m - 1 \in 1..m - 1 /\ m - 1 \in 1..m /\ (m - 1) + 1 = m
      BY <1>2, <1>5, <2>2
    <3>2. cells = Held(calls[m - 1])
      BY <1>5, <2>2, <3>1
    <3>3. Held(calls[m - 1]) <= Current.base + Worth(Current.node)
      BY <1>2, <3>1 DEF CallsOK, Current
    <3>4. Cells = Current.base + Worth(Current.node)
      BY <1>1, <1>2, HeldInTheEnd
    <3>5. calls[m - 1] \in CallRecords
      BY <1>2, <3>1, ElementOfSeq
    <3>6. Held(calls[m - 1]) \in Nat
      BY <3>5, CallTypes
    <3> QED BY <3>2, <3>3, <3>4, <3>6
  <2> QED BY <2>1, <2>2
<1> HIDE DEF cells, c, n
<1>7. Cells = depth[Len(c)]
  BY <1>2 DEF Cells
<1>8. more \in BOOLEAN /\ (more <=> leaves \/ cells # depth[Len(c)])
  BY <1>2
<1> HIDE DEF more
<1>9. /\ CodeSoFar(c, d, HolesOf(calls), n, more)
      /\ DOMAIN d = DOMAIN depth
      /\ d[Len(c)] = cells
      /\ \A k \in DOMAIN depth \ {Len(c)} : d[k] = depth[k]
      /\ d = depth <=> cells = depth[Len(c)]
  <2>1. cells <= depth[Len(c)] /\ n \in Int
    BY <1>2, <1>6, <1>7
  <2>2. /\ CodeSoFar(c, depth, HolesOf(calls), n, leaves) /\ leaves \in BOOLEAN
        /\ more \in BOOLEAN /\ cells \in Nat
    BY <1>2, <1>6, <1>8
  <2>3. \A b \in BOOLEAN : (b <=> leaves \/ cells # depth[Len(c)]) =>
          /\ CodeSoFar(c, d, HolesOf(calls), n, b)
          /\ DOMAIN d = DOMAIN depth
          /\ d[Len(c)] = cells
          /\ \A k \in DOMAIN depth \ {Len(c)} : d[k] = depth[k]
          /\ d = depth <=> cells = depth[Len(c)]
    BY <2>1, <2>2, LowerCode
  <2> HIDE DEF d
  <2> QED BY <1>8, <2>3
<1> HIDE DEF d
<1>10. depth' = d /\ leaves' = more
  <2>1. depth' = d
    BY <1>1, <1>2, KnownIsGrown DEF d
  <2> QED BY <1>1, <1>8, <1>9, <2>1 DEF more
<1>11. Stands(c, depth, n, leaves, c, d, n, more)
  <2>1. d \in [DOMAIN d -> Nat]
    BY <1>9 DEF CodeSoFar
  <2>2. ASSUME NEW k \in DOMAIN depth PROVE Arrives(d[k], depth[k], more)
    <3>1. CASE k = Len(c)
      BY <1>2, <1>6, <1>7, <1>8, <1>9, <3>1 DEF Arrives
    <3>2. CASE k # Len(c)
      <4>1. d[k] = depth[k] /\ depth[k] \in Nat
        BY <1>2, <1>9, <3>2
      <4> QED BY <4>1 DEF Arrives
    <3> QED BY <3>1, <3>2
  <2>3. leaves => more
    BY <1>8
  <2>4. n \in Int /\ n <= n
    BY <1>2
  <2> QED BY <1>2, <1>8, <1>9, <2>1, <2>2, <2>3, <2>4 DEF Stands
<1>12. /\ CallsOK(calls', c, d, n, more)
       /\ HolesOf(calls) \subseteq HolesOf(calls')
  <2>1. calls[Len(calls)].hole = 0
    BY <1>3 DEF Current
  <2> QED BY <1>1, <1>2, <1>11, <2>1, TopEnds
<1>13. CodeSoFar(c, d, HolesOf(calls'), n, more)
  <2>1. n \in Int /\ n <= n
    BY <1>2
  <2> QED BY <1>8, <1>9, <1>12, <2>1, WidenCode
<1>14. OnTop'
  <2>1. Cells' = cells
    BY <1>1, <1>9, <1>10 DEF Cells, Offset, c
  <2> QED BY <2>1 DEF OnTop, Current, cells
<1>15. MapOK(prog.source_map, d) /\ ~Exits(prog)
  BY <1>9, MapKept DEF InCodegen
<1>16. Unmapped'
  <2>1. CASE m = 1
    BY <1>5, <2>1 DEF Unmapped
  <2>2. CASE m # 1
    BY <1>1, <2>2, NotEntered DEF Unmapped
  <2> QED BY <2>1, <2>2
<1> QED BY <1>1, <1>2, <1>8, <1>10, <1>12, <1>13, <1>14, <1>15, <1>16 DEF InCodegen, c, n
-----------------------------------------------------------------------------
(* The end of codegen_compile.                                              *)

LEMMA HaltEmitted ==
  /\ OP_HALT \in Opcodes \ {OP_CALL, OP_RET} /\ OP_HALT \in Byte
  /\ OP_HALT \notin BranchOps \cup {OP_JMP, OP_STORE, OP_LOAD}
  /\ Size(OP_HALT) = 1 /\ Pops(OP_HALT) = 0 /\ Pushes(OP_HALT) = 0
BY DEF Opcodes, OperandOps, BinaryOps, BranchOps, Byte, Pops, Pushes, Size,
       OP_PUSH, OP_POP, OP_DUP, OP_ADD, OP_SUB, OP_MUL, OP_DIV, OP_CMP, OP_CMP_EQ, OP_CMP_NE,
       OP_CMP_GT, OP_CMP_LE, OP_CMP_GE, OP_JMP, OP_JZ, OP_JNZ, OP_STORE, OP_LOAD, OP_CALL,
       OP_RET, OP_PRINT, OP_HALT

\* c1 is c with OP_HALT behind it.
WithHalt(c, c1) ==
  /\ Len(c1) = Len(c) + 1
  /\ \A i \in 1..Len(c) : c1[i] = c[i]
  /\ c1[Len(c) + 1] = OP_HALT

(* Code without holes and an OP_HALT behind it is promised code.            *)
LEMMA HaltCode ==
  ASSUME NEW c, NEW d, NEW n \in Int, NEW more \in BOOLEAN, CodeSoFar(c, d, {}, n, more),
         d[Len(c)] = 0, n <= MAX_CODEGEN_VARS, NEW c1, WithHalt(c, c1)
  PROVE  LET d1 == Grown(d, Len(c1), 0)
         IN  /\ WholeCode(c1, DOMAIN d1)
             /\ Balanced(c1, d1, MAX_CODEGEN_VARS)
             /\ ~more => Exact(c1, d1)
<1> DEFINE d1 == Grown(d, Len(c1), 0)
           e == Len(c)
<1>0. MAX_CODEGEN_VARS \in Int
  BY LimitsAssumption
<1>1. /\ e \in Nat /\ DOMAIN d \subseteq 0..e /\ {0, e} \subseteq DOMAIN d
      /\ d \in [DOMAIN d -> Nat] /\ d[0] = 0 /\ IntBytes \in Nat
  BY LenProperties, WordAssumption DEF CodeSoFar
<1>2. /\ Len(c1) = e + 1 /\ c1[e + 1] = OP_HALT
      /\ \A i \in 1..e : c1[i] = c[i]
  BY DEF WithHalt
<1>3. Len(c1) \in Nat /\ Len(c1) > e /\ Len(c1) \notin DOMAIN d
  BY <1>1, <1>2
<1>4. /\ d1 \in [DOMAIN d1 -> Nat] /\ DOMAIN d1 = DOMAIN d \cup {Len(c1)}
      /\ d1[Len(c1)] = 0 /\ \A k \in DOMAIN d : d1[k] = d[k]
  <2>1. \A k \in DOMAIN d : k # Len(c1)
    BY <1>3
  <2> QED BY <1>1, <1>3, <2>1 DEF Grown
<1> HIDE DEF d1
<1>5. d[e] = 0
  OBVIOUS
<1> HIDE DEF e
<1>6. ASSUME NEW at \in DOMAIN d1 \ {Len(c1)}
      PROVE  /\ c1[at + 1] \in Opcodes \ {OP_CALL, OP_RET}
             /\ at + Size(c1[at + 1]) \in DOMAIN d1
             /\ c1[at + 1] \in BranchOps \cup {OP_JMP} =>
                  WordIn(c1, at + 2) \in DOMAIN d1 \ {Len(c1)}
             /\ c1[at + 1] = OP_HALT <=> at + Size(c1[at + 1]) = Len(c1)
             /\ d1[at] >= Pops(c1[at + 1])
             /\ LET left == d1[at] - Pops(c1[at + 1]) + Pushes(c1[at + 1])
                IN  /\ c1[at + 1] # OP_JMP => Arrives(d1[at + Size(c1[at + 1])], left, more)
                    /\ c1[at + 1] \in BranchOps \cup {OP_JMP} =>
                         Arrives(d1[WordIn(c1, at + 2)], left, more)
             /\ c1[at + 1] \in {OP_STORE, OP_LOAD} => WordIn(c1, at + 2) \in 0..MAX_CODEGEN_VARS - 1
  <2>1. CASE at = e
    <3>1. c1[at + 1] = OP_HALT /\ at + Size(OP_HALT) = Len(c1)
      BY <1>1, <1>2, <2>1, HaltEmitted
    <3>2. d1[at] = 0 /\ d1[at + Size(OP_HALT)] = 0
      BY <1>1, <1>4, <1>5, <2>1, <3>1
    <3>3. d1[at] - Pops(OP_HALT) + Pushes(OP_HALT) = 0 /\ d1[at] >= Pops(OP_HALT)
      BY <3>2, HaltEmitted
    <3>4. Arrives(d1[at + Size(OP_HALT)], d1[at] - Pops(OP_HALT) + Pushes(OP_HALT), more)
      BY <3>2, <3>3 DEF Arrives
    <3>5. at + Size(OP_HALT) \in DOMAIN d1
      BY <1>4, <3>1
    <3> QED BY <3>1, <3>3, <3>4, <3>5, HaltEmitted
  <2>2. CASE at # e
    <3>1. at \in DOMAIN d \ {e}
      BY <1>4, <2>2
    <3>2. /\ at \in Nat /\ at < e /\ c[at + 1] \in Emittable
          /\ at + Size(c[at + 1]) <= e
          /\ c[at + 1] \in OperandOps => at + 1 + IntBytes <= e
      BY <3>1, Inside DEF e
    <3> DEFINE op == c[at + 1]
               left == d[at] - Pops(op) + Pushes(op)
               operand == WordIn(c, at + 2)
    <3>3. /\ at + Size(op) \in DOMAIN d
          /\ d[at] >= Pops(op)
          /\ op # OP_JMP => Arrives(d[at + Size(op)], left, more)
          /\ op \in {OP_STORE, OP_LOAD} => operand \in 0..n - 1
          /\ op \in Jumps => operand \in DOMAIN d /\ Arrives(d[operand], left, more)
      BY <3>1 DEF CodeSoFar, Instruction, e
    <3>4. /\ op \in Opcodes \ {OP_CALL, OP_RET, OP_HALT}
          /\ op \in BranchOps \cup {OP_JMP} <=> op \in Jumps
      BY <3>2, EmittedOps
    <3>5. c1[at + 1] = op /\ d1[at] = d[at] /\ at + 1 \in 1..e
      BY <1>1, <1>2, <1>4, <3>1, <3>2
    <3>6. op \in OperandOps => WordIn(c1, at + 2) = operand
      <4> SUFFICES ASSUME op \in OperandOps PROVE WordIn(c1, at + 2) = operand
        OBVIOUS
      <4>1. \A k \in 0..IntBytes - 1 : at + 2 + k \in 1..e
        BY <1>1, <3>2, SMTT(30)
      <4>2. \A k \in 0..IntBytes - 1 : c1[(at + 2) + k] = c[(at + 2) + k]
        BY <1>2, <4>1
      <4>3. at + 2 \in Int
        BY <3>2
      <4> HIDE DEF op
      <4> QED BY <4>2, <4>3, WordKept
    <3>7. op \in Jumps \cup {OP_STORE, OP_LOAD} => op \in OperandOps
      BY DEF Jumps, OperandOps, BranchOps, OP_JMP, OP_JZ, OP_JNZ, OP_STORE, OP_LOAD, OP_PUSH, OP_CALL
    <3> HIDE DEF op, left, operand
    <3>8. at + Size(op) \in DOMAIN d1 /\ d1[at + Size(op)] = d[at + Size(op)]
          /\ at + Size(op) # Len(c1)
      BY <1>3, <1>4, <3>3
    <3>9. op \in Jumps => /\ WordIn(c1, at + 2) \in DOMAIN d1 \ {Len(c1)}
                          /\ d1[WordIn(c1, at + 2)] = d[operand]
      BY <1>3, <1>4, <3>3, <3>6, <3>7
    <3>10. op \in {OP_STORE, OP_LOAD} => WordIn(c1, at + 2) \in 0..MAX_CODEGEN_VARS - 1
      <4>1. operand \in 0..n - 1 => operand \in 0..MAX_CODEGEN_VARS - 1
        BY <1>0
      <4> QED BY <3>3, <3>6, <3>7, <4>1
    <3>11. left = d1[at] - Pops(c1[at + 1]) + Pushes(c1[at + 1])
      BY <3>5 DEF left
    <3> QED BY <3>3, <3>4, <3>5, <3>8, <3>9, <3>10, <3>11
  <2> QED BY <2>1, <2>2
<1>7. WholeCode(c1, DOMAIN d1)
  <2>1. /\ {0, Len(c1)} \subseteq DOMAIN d1 /\ Len(c1) > 0 /\ DOMAIN d1 \subseteq 0..Len(c1)
    BY <1>1, <1>3, <1>4
  <2> QED BY <1>6, <2>1 DEF WholeCode
<1>8. Balanced(c1, d1, MAX_CODEGEN_VARS)
  <2>1. d1[0] = 0
    BY <1>1, <1>4
  <2> QED BY <1>4, <1>6, <2>1 DEF Balanced, Arrives
<1>9. ~more => Exact(c1, d1)
  BY <1>4, <1>6 DEF Exact, Arrives
<1> QED BY <1>3, <1>4, <1>7, <1>8, <1>9 DEF d1

LEMMA FinishReturns ==
  ASSUME InCodegen, Finish, stage' = "returned"
  PROVE  Returned'
<1> DEFINE p == Emit(prog, EMIT_HALT)
           c == prog.code
           n == Len(prog.vars)
           d == Grown(depth, Len(p.code), 0)
<1>1. /\ calls = << >> /\ ~Exits(p) /\ prog' = p /\ depth' = Known(Offset(p), Cells)
      /\ leaves' = leaves
  BY DEF Finish, Exit
<1>2. /\ prog \in Progs /\ ~Exits(prog) /\ leaves \in BOOLEAN
      /\ CodeSoFar(c, depth, HolesOf(calls), n, leaves)
      /\ Cells = 0 /\ MapOK(prog.source_map, depth)
  BY <1>1 DEF InCodegen, OnTop
<1>3. HolesOf(calls) = {}
  BY <1>1 DEF HolesOf
<1>4. n \in Nat /\ n <= MAX_CODEGEN_VARS /\ MAX_CODEGEN_VARS \in Int
  BY <1>2, LenProperties, LimitsAssumption DEF Progs, Exits
<1>5. /\ p \in Progs /\ p.vars = prog.vars /\ p.source_map = prog.source_map
      /\ WithHalt(c, p.code)
  <2>1. EMIT_HALT \in Byte /\ EMIT_HALT = OP_HALT
    BY Emitters, HaltEmitted
  <2>2. /\ p \in Progs /\ p.vars = prog.vars /\ p.source_map = prog.source_map
        /\ Offset(p) = Offset(prog) + 1
        /\ \A i \in 1..Offset(prog) : p.code[i] = prog.code[i]
        /\ p.code[Offset(prog) + 1] = OP_HALT
    BY <1>2, <2>1, EmitEffect
  <2> HIDE DEF p
  <2> QED BY <2>2 DEF WithHalt, Offset
<1> HIDE DEF p
<1>6. depth[Len(c)] = 0
  BY <1>2 DEF Cells, Offset
<1>7. /\ WholeCode(p.code, DOMAIN d)
      /\ Balanced(p.code, d, MAX_CODEGEN_VARS)
      /\ ~leaves => Exact(p.code, d)
  <2>1. n \in Int /\ CodeSoFar(c, depth, {}, n, leaves) /\ WithHalt(c, p.code)
    BY <1>2, <1>3, <1>4, <1>5
  <2> HIDE DEF d, c, n
  <2>2. WholeCode(p.code, DOMAIN d)
    BY <1>2, <1>4, <1>6, <2>1, HaltCode DEF d
  <2>3. Balanced(p.code, d, MAX_CODEGEN_VARS)
    BY <1>2, <1>4, <1>6, <2>1, HaltCode DEF d
  <2>4. ~leaves => Exact(p.code, d)
    BY <1>2, <1>4, <1>6, <2>1, HaltCode DEF d
  <2> QED BY <2>2, <2>3, <2>4
<1>8. DOMAIN d = DOMAIN depth \cup {Len(p.code)} /\ Len(p.code) \notin DOMAIN depth
  <2>1. DOMAIN depth \subseteq 0..Len(c) /\ Len(c) \in Nat
    BY <1>2, LenProperties DEF CodeSoFar
  <2>2. Len(p.code) = Len(c) + 1
    BY <1>5 DEF WithHalt
  <2>3. DOMAIN d = DOMAIN depth \cup {Len(p.code)}
    BY DEF Grown
  <2> HIDE DEF c, d
  <2> QED BY <2>1, <2>2, <2>3
<1> HIDE DEF d
<1>9. depth' = d
  BY <1>1, <1>2, KnownIsGrown DEF d, Offset
<1>10. MapOK(p.source_map, [k \in DOMAIN d \ {Offset(p)} |-> d[k]])
  <2>1. DOMAIN d \ {Offset(p)} = DOMAIN depth
    BY <1>8 DEF Offset
  <2> QED BY <1>2, <1>5, <2>1 DEF MapOK
<1> QED BY <1>1, <1>5, <1>7, <1>9, <1>10 DEF Returned

LEMMA BeginKeeps ==
  ASSUME CInv, NEW root \in Trees, Begin(root)
  PROVE  InCodegen'
<1> DEFINE g == Called(root, prog, 0)
<1>1. /\ prog = NoCode /\ depth = [k \in {0} |-> 0] /\ leaves = FALSE
      /\ prog' = prog /\ depth' = depth /\ leaves' = leaves /\ calls' = <<g>>
  BY DEF CInv, Begin
<1>2. /\ prog.code = << >> /\ prog.vars = << >> /\ prog.source_map = << >> /\ prog \in Progs
      /\ Len(prog.code) = 0 /\ Len(prog.vars) = 0 /\ Offset(prog) = 0
  <2>1. << >> \in Seq(Byte) /\ << >> \in Seq(Names) /\ << >> \in Seq(Mapping) /\ Len(<< >>) = 0
    BY EmptySeq
  <2> QED BY <1>1, <2>1 DEF NoCode, Progs, Offset
<1>3. ~Exits(prog)
  BY <1>2, LimitsAssumption, WordAssumption DEF Exits
<1>4. /\ g \in CallRecords /\ g.hole = 0 /\ g.base = 0 /\ g.node = root /\ g.at = "enter"
      /\ g.start = 0
  BY <1>2 DEF Called, CallRecords
<1> HIDE DEF g
<1>5. /\ calls' \in Seq(CallRecords) /\ Len(calls') = 1 /\ calls'[1] = g /\ calls' # << >>
      /\ DOMAIN calls' = {1}
  BY <1>1, <1>4
<1>6. CodeSoFar(prog.code, depth, HolesOf(calls'), Len(prog.vars), leaves)
  <2>1. DOMAIN depth = {0} /\ depth[0] = 0 /\ depth \in [DOMAIN depth -> Nat]
    BY <1>1
  <2>2. prog.code \in Seq(Byte)
    BY <1>2 DEF Progs
  <2> QED BY <1>2, <2>1, <2>2 DEF CodeSoFar
<1>7. CallsOK(calls', prog.code, depth, Len(prog.vars), leaves)
  <2>1. DOMAIN depth = {0} /\ depth[0] = 0
    BY <1>1
  <2>2. CallOK(g, prog.code, depth, Len(prog.vars), leaves)
    BY <1>4, <2>1 DEF CallOK, Arrives
  <2>3. \A k \in 1..Len(calls') : calls'[k] = g
    BY <1>5
  <2> QED BY <1>5, <2>2, <2>3 DEF CallsOK
<1>8. OnTop'
  <2>1. Held(g) = 0
    BY <1>4, HeldBy
  <2>2. Cells' = 0
    BY <1>1, <1>2 DEF Cells, Offset
  <2> QED BY <1>5, <2>1, <2>2 DEF OnTop, Current
<1>9. MapOK(prog.source_map, depth)
  BY <1>2, EmptySeq DEF MapOK
<1>10. Unmapped'
  BY <1>1, <1>2, <1>4, <1>5 DEF Unmapped, Current
<1> QED BY <1>1, <1>2, <1>3, <1>6, <1>7, <1>8, <1>9, <1>10 DEF InCodegen
-----------------------------------------------------------------------------
(* The invariant of the compiler.                                           *)

LEMMA NodeStages ==
  ASSUME CompileNode
  PROVE  stage = "codegen" /\ stage' \in {"codegen", "exited"}
<1>1. \A p, cells, next : Emits(p, cells, next) => stage' \in {stage, "exited"}
  BY DEF Emits, Exit
<1> QED BY <1>1 DEF CompileNode, CompileInt, CompileVar, EnterStore, EnterOther, SecondPart,
          CompileOp, CompileStore, CompilePrint, CompileTest, CompileElse, EndIf, CompileLoop,
          EndSeq, NodeReturns, In

LEMMA NodeKeeps ==
  ASSUME InCodegen, CompileNode, stage' = "codegen"
  PROVE  InCodegen'
BY CompileIntKeeps, CompileVarKeeps, EnterStoreKeeps, EnterOtherKeeps, SecondPartKeeps,
   CompileOpKeeps, CompileStoreKeeps, CompilePrintKeeps, CompileTestKeeps, CompileElseKeeps,
   EndIfKeeps, CompileLoopKeeps, EndSeqKeeps, NodeReturnsKeeps
   DEF CompileNode

LEMMA CInit == CompilerInit => CInv
BY DEF CompilerInit, CInv

LEMMA CStutter ==
  ASSUME CInv, UNCHANGED compiler
  PROVE  CInv'
<1>1. /\ stage' = stage /\ prog' = prog /\ calls' = calls /\ depth' = depth /\ leaves' = leaves
  BY DEF compiler, emitted
<1>2. InCodegen => InCodegen'
  BY <1>1 DEF InCodegen, OnTop, Unmapped, Cells, Current
<1>3. Returned => Returned'
  BY <1>1 DEF Returned
<1> QED BY <1>1, <1>2, <1>3 DEF CInv

LEMMA CNext ==
  ASSUME CInv, [CompilerNext]_compiler
  PROVE  CInv'
<1>1. ASSUME NEW root \in Trees, Begin(root) PROVE CInv'
  <2>1. stage' = "codegen"
    BY <1>1 DEF Begin
  <2> QED BY <1>1, <2>1, BeginKeeps DEF CInv
<1>2. CASE CompileNode
  <2>1. stage = "codegen" /\ stage' \in {"codegen", "exited"}
    BY <1>2, NodeStages
  <2>2. stage' = "codegen" => InCodegen'
    BY <1>2, <2>1, NodeKeeps DEF CInv
  <2> QED BY <2>1, <2>2 DEF CInv
<1>3. CASE Finish
  <2>1. stage = "codegen" /\ stage' \in {"returned", "exited"}
    BY <1>3 DEF Finish, Exit
  <2>2. stage' = "returned" => Returned'
    BY <1>3, <2>1, FinishReturns DEF CInv
  <2> QED BY <2>1, <2>2 DEF CInv
<1>4. CASE UNCHANGED compiler
  BY <1>4, CStutter
<1> QED BY <1>1, <1>2, <1>3, <1>4 DEF CompilerNext

(* Whatever the tree, the calls of codegen_node keep the invariant: what is *)
(* emitted is an initial piece of promised code but for the holes of the    *)
(* open calls.                                                              *)
THEOREM CompilerInvariant == CompilerSpec => []CInv
<1>1. CInv /\ [CompilerNext]_compiler => CInv'
  BY CNext
<1> QED BY CInit, <1>1, PTL DEF CompilerSpec

(* codegen_compile returns whole instructions whose jumps are patched, that *)
(* take nothing from the stack that is not there, and that, expression      *)
(* statements aside, leave nothing on it.                                   *)
THEOREM CompilerKeepsPromise ==
  CompilerSpec =>
    [](stage = "returned" =>
         /\ WholeCode(prog.code, DOMAIN depth)
         /\ Balanced(prog.code, depth, MAX_CODEGEN_VARS)
         /\ ~leaves => Exact(prog.code, depth))
<1>1. CInv => (stage = "returned" =>
                 /\ WholeCode(prog.code, DOMAIN depth)
                 /\ Balanced(prog.code, depth, MAX_CODEGEN_VARS)
                 /\ ~leaves => Exact(prog.code, depth))
  BY DEF CInv, Returned
<1> QED BY CompilerInvariant, <1>1, PTL
=============================================================================
