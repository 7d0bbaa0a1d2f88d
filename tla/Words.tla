--------------------------------- MODULE Words ---------------------------------
(***************************************************************************)
(* The int32_t of the interpreter, the compiler and the tree evaluator, at *)
(* a width a model can choose.  The build (gcc -g, no optimisation) wraps; *)
(* division rounds toward zero.                                            *)
(***************************************************************************)
EXTENDS Integers

CONSTANTS
  IntBytes,    \* bytes of an operand and of a stack cell; 4 in the code
  HalfRange    \* an int32_t is in -HalfRange .. HalfRange - 1

ASSUME WordAssumption ==
  /\ IntBytes \in 1..4
  /\ HalfRange \in Nat \ {0, 1}
  /\ HalfRange = 2 ^ (8 * IntBytes - 1)
-----------------------------------------------------------------------------
Word == -HalfRange .. HalfRange - 1
Wrap(x) == ((x + HalfRange) % (2 * HalfRange)) - HalfRange
Truth(b) == IF b THEN 1 ELSE 0

Abs(x) == IF x < 0 THEN -x ELSE x
TruncDiv(a, b) ==
  LET q == Abs(a) \div Abs(b)
  IN  IF (a < 0) # (b < 0) THEN -q ELSE q
=============================================================================
