--------------------------------- MODULE Heap ---------------------------------
(***************************************************************************)
(* What a garbage-collected heap promises its client, whatever the         *)
(* collector does inside: storage that the client can still reach from the *)
(* value stack stays where it is and keeps its contents, and a collection  *)
(* frees everything else, in one step.                                     *)
(***************************************************************************)
EXTENDS Integers, Sequences

CONSTANTS
  Objects,   \* the addresses malloc can return
  NULL,      \* the null pointer
  Integer        \* an integer Value (VAL_INT); which integer is never looked at

VARIABLES
  cells,     \* the addresses in use
  refs,      \* the two pointers each cell holds
  value_stack

hvars == <<cells, refs, value_stack>>

Pointer == Objects \cup {NULL}
NoRefs == <<NULL, NULL>>      \* a function object, or a pair of NULLs

Pointers(o) == {refs[o][1], refs[o][2]} \ {NULL}
Roots == {value_stack[k] : k \in DOMAIN value_stack} \ {NULL, Integer}

Closed(C) == \A o \in C : Pointers(o) \subseteq C

\* The least closed set that holds the roots.
Reach == {o \in Objects :
            \A C \in SUBSET Objects : Roots \subseteq C /\ Closed(C) => o \in C}

HeapInit ==
  /\ cells = {}
  /\ refs = [o \in Objects |-> NoRefs]
  /\ value_stack = << >>

Allocate(o, left, right) ==
  /\ o \in Objects \ cells
  /\ {left, right} \subseteq cells \cup {NULL}
  /\ cells' = cells \cup {o}
  /\ refs' = [refs EXCEPT ![o] = <<left, right>>]
  /\ UNCHANGED value_stack

Write(o, side, p) ==
  /\ o \in cells
  /\ p \in cells \cup {NULL}
  /\ refs' = [refs EXCEPT ![o][side] = p]
  /\ UNCHANGED <<cells, value_stack>>

PushValue(v) ==
  /\ v \in cells \cup {NULL, Integer}
  /\ value_stack' = Append(value_stack, v)
  /\ UNCHANGED <<cells, refs>>

PopValue ==
  /\ value_stack # << >>
  /\ value_stack' = SubSeq(value_stack, 1, Len(value_stack) - 1)
  /\ UNCHANGED <<cells, refs>>

FreeUnreachable ==          \* with nothing to free it is a stuttering step
  /\ cells' # cells
  /\ cells' = Reach
  /\ refs' = [o \in Objects |-> IF o \in Reach THEN refs[o] ELSE NoRefs]
  /\ UNCHANGED value_stack

FreeAll ==
  /\ cells' = {}
  /\ refs' = [o \in Objects |-> NoRefs]
  /\ UNCHANGED value_stack

HeapNext ==
  \/ \E o \in Objects, left, right \in Pointer : Allocate(o, left, right)
  \/ \E o \in Objects, side \in 1..2, p \in Pointer : Write(o, side, p)
  \/ \E v \in Pointer \cup {Integer} : PushValue(v)
  \/ PopValue
  \/ FreeUnreachable
  \/ FreeAll

HeapSpec == HeapInit /\ [][HeapNext]_hvars
=============================================================================
