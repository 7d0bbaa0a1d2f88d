------------------------------- MODULE Emission --------------------------------
(***************************************************************************)
(* The emitters of codegen.c: how bytecode, variable slots and source map  *)
(* grow.  p stands for the global prog that they append to.                *)
(***************************************************************************)
EXTENDS Nodes, Words, SequencesExt

CONSTANTS
  MAX_CODE_SIZE,
  MAX_CODEGEN_VARS,
  MAX_SOURCE_MAP

\* An offset and a slot fit an operand.
ASSUME LimitsAssumption ==
  /\ MAX_CODE_SIZE \in 1..HalfRange - 1
  /\ MAX_CODEGEN_VARS \in 0..HalfRange - 1
  /\ MAX_SOURCE_MAP \in Nat
-----------------------------------------------------------------------------
EMIT_PUSH == 1
EMIT_JMP == 32
EMIT_JZ == 33
EMIT_STORE == 48
EMIT_LOAD == 49
EMIT_PRINT == 80
EMIT_HALT == 255

EmitOp == [ADD |-> 16, SUB |-> 17, MUL |-> 18, DIV |-> 19, LT |-> 20,
           EQ |-> 21, NEQ |-> 22, GT |-> 23, LE |-> 24, GE |-> 25]

Offset(p) == Len(p.code)                                 \* current_offset

Bytes(value) == [k \in 1..IntBytes |-> (value \div 256 ^ (k - 1)) % 256]

Emit(p, op) == [p EXCEPT !.code = Append(@, op)]
EmitWith(p, op, value) == [p EXCEPT !.code = Append(@, op) \o Bytes(value)]

\* Faulty variant: the operand is written one byte early, over its opcode.
PatchEarly(p, offset, value) ==
  [p EXCEPT !.code = [k \in DOMAIN @ |->
     IF k - offset \in 0..IntBytes - 1 THEN Bytes(value)[k - offset + 1] ELSE @[k]]]

Patch(p, offset, value) ==
  [p EXCEPT !.code = [k \in DOMAIN @ |->
     IF k - offset \in 1..IntBytes THEN Bytes(value)[k - offset] ELSE @[k]]]

AddSourceMap(p, line) ==
  IF line > 0 /\ Len(p.source_map) < MAX_SOURCE_MAP
    THEN [p EXCEPT !.source_map =
            Append(@, [bytecode_offset |-> Offset(p), source_line |-> line])]
    ELSE p

AddVar(p, name) ==
  IF Contains(p.vars, name) THEN p ELSE [p EXCEPT !.vars = Append(@, name)]

Slot(p, name) == SelectInSeq(p.vars, LAMBDA v : v = name) - 1

\* emit_byte and find_or_add_var call exit(1) instead of passing a limit.
Exits(p) == Len(p.code) > MAX_CODE_SIZE \/ Len(p.vars) > MAX_CODEGEN_VARS

NoCode == [code |-> << >>, source_map |-> << >>, vars |-> << >>]
=============================================================================
