---------------------------------- MODULE GC ----------------------------------
(***************************************************************************)
(* The mark-and-sweep collector of gc.c, one step per turn of its loops    *)
(* and per call of gc_mark_object, with the client that calls it.          *)
(*                                                                         *)
(* No bytecode allocates objects: the client is C code that links gc.c (it *)
(* is not part of this repository).  What it must do is what the collector *)
(* relies on: it hands new_pair and new_closure only objects it still has  *)
(* on the value stack, or reachable from there, and it roots a new object  *)
(* (pushes it, or stores it in a reachable one) before its next allocation *)
(* or collection.                                                          *)
(***************************************************************************)
EXTENDS Integers, Sequences, SequencesExt, FiniteSets

CONSTANTS
  Objects, NULL, Integer,     \* as in Heap
  VM_STACK_MAX,           \* slots of value_stack
  MinThreshold            \* least max_objects; 8 in the code

ASSUME PointersAssumption ==
  /\ NULL \notin Objects
  /\ Integer \notin Objects
  /\ Integer # NULL

ASSUME BoundsAssumption ==
  /\ VM_STACK_MAX \in Nat
  /\ MinThreshold \in Nat \ {0}

VARIABLES
  allocated,     \* addresses malloc returned and free has not got back
  refs,          \* pair.left and right, or closure.fn and env
  objects,       \* the list from first_object along next
  num_objects,
  max_objects,
  auto_gc,
  value_stack,
  local,         \* the object the client last got and has not pushed
  marked,
  phase,         \* "client", "mark", "sweep", "malloc" or "destroyed"
  request,       \* fields of the object being allocated; << >> for gc()
  pending,       \* objects still to be marked by the open calls, innermost first;
                 \* the last is gc_mark_roots, the others are of gc_mark_object
  i              \* loop index of gc_mark_roots, position of gc_sweep

heap == <<allocated, refs, objects, num_objects>>
client == <<value_stack, local, auto_gc>>
collector == <<marked, pending, i>>
vars == <<heap, max_objects, client, collector, phase, request>>

Pointer == Objects \cup {NULL}
Value == Pointer \cup {Integer}
NoRefs == <<NULL, NULL>>
-----------------------------------------------------------------------------
H == INSTANCE Heap WITH cells <- allocated
Reach == H!Reach                \* what the client can reach from value_stack
-----------------------------------------------------------------------------
Init ==                                 \* gc_init
  /\ allocated = {}
  /\ refs = [o \in Objects |-> NoRefs]
  /\ objects = << >>
  /\ num_objects = 0
  /\ max_objects = MinThreshold
  /\ auto_gc = TRUE
  /\ value_stack = << >>
  /\ local = NULL
  /\ marked = {}
  /\ phase = "client"
  /\ request = << >>
  /\ pending = << >>
  /\ i = 1

BeginCollection(req) ==                 \* entry of gc_collect and gc_mark_roots
  /\ phase' = "mark"
  /\ request' = req
  /\ local' = NULL
  /\ pending' = << >>
  /\ i' = 1
  /\ UNCHANGED <<heap, max_objects, value_stack, auto_gc, marked>>

\* Faulty variant: the threshold test is off by one.
NewOverThreshold(left, right) ==
  /\ IF auto_gc /\ num_objects > max_objects
       THEN BeginCollection(<<left, right>>)
       ELSE /\ phase' = "malloc"
            /\ request' = <<left, right>>
            /\ local' = NULL
            /\ UNCHANGED <<heap, max_objects, value_stack, auto_gc, collector>>

New(left, right) ==      \* new_pair, new_closure; new_function passes NULLs
  /\ IF auto_gc /\ num_objects >= max_objects
       THEN BeginCollection(<<left, right>>)
       ELSE /\ phase' = "malloc"
            /\ request' = <<left, right>>
            /\ local' = NULL
            /\ UNCHANGED <<heap, max_objects, value_stack, auto_gc, collector>>

Collect == BeginCollection(<< >>)       \* gc(), pm_gc

Malloc(o) ==             \* the rest of gc_alloc_object, and the fields
  /\ phase = "malloc"
  /\ o \in Objects \ allocated
  /\ allocated' = allocated \cup {o}
  /\ refs' = [refs EXCEPT ![o] = request]
  /\ objects' = <<o>> \o objects
  /\ num_objects' = num_objects + 1
  /\ marked' = marked \ {o}
  /\ local' = o
  /\ phase' = "client"
  /\ request' = << >>
  /\ UNCHANGED <<max_objects, value_stack, auto_gc, pending, i>>

MallocFails ==                          \* NULL is returned to the client
  /\ phase = "malloc"
  /\ phase' = "client"
  /\ request' = << >>
  /\ UNCHANGED <<heap, max_objects, client, collector>>

\* Faulty variant: the loop stops one root early.
MarkRootButLast ==
  /\ phase = "mark"
  /\ pending = << >>
  /\ i <= Len(value_stack)
  /\ pending' = IF value_stack[i] = Integer \/ i = Len(value_stack)
                  THEN << >> ELSE <<<<value_stack[i]>>>>
  /\ i' = i + 1
  /\ UNCHANGED <<heap, max_objects, client, marked, phase, request>>

\* Faulty variant: an integer is skipped before the index is advanced.
MarkRootStuck ==
  /\ phase = "mark"
  /\ pending = << >>
  /\ i <= Len(value_stack)
  /\ value_stack[i] # Integer
  /\ pending' = <<<<value_stack[i]>>>>
  /\ i' = i + 1
  /\ UNCHANGED <<heap, max_objects, client, marked, phase, request>>

MarkRoot ==                             \* one turn of gc_mark_roots
  /\ phase = "mark"
  /\ pending = << >>
  /\ i <= Len(value_stack)
  /\ pending' = IF value_stack[i] = Integer THEN << >> ELSE <<<<value_stack[i]>>>>
  /\ i' = i + 1
  /\ UNCHANGED <<heap, max_objects, client, marked, phase, request>>

Called == Head(Head(pending))           \* the argument of the next call
Others == <<Tail(Head(pending))>> \o Tail(pending)
Calling == phase = "mark" /\ pending # << >> /\ Head(pending) # << >>

\* Faulty variant: env and right are not followed.
MarkLeftOnly ==
  /\ Calling
  /\ IF Called = NULL \/ Called \in marked
       THEN pending' = Others /\ UNCHANGED marked
       ELSE /\ pending' = <<<<refs[Called][1]>>>> \o Others
            /\ marked' = marked \cup {Called}
  /\ UNCHANGED <<heap, max_objects, client, i, phase, request>>

\* Faulty variant: the mark is not tested.
MarkAgain ==
  /\ Calling
  /\ IF Called = NULL
       THEN pending' = Others /\ UNCHANGED marked
       ELSE pending' = <<refs[Called]>> \o Others /\ marked' = marked \cup {Called}
  /\ UNCHANGED <<heap, max_objects, client, i, phase, request>>

MarkObject ==                           \* gc_mark_object up to the call for a child
  /\ Calling
  /\ IF Called = NULL \/ Called \in marked
       THEN pending' = Others /\ UNCHANGED marked
       ELSE pending' = <<refs[Called]>> \o Others /\ marked' = marked \cup {Called}
  /\ UNCHANGED <<heap, max_objects, client, i, phase, request>>

MarkReturns ==
  /\ phase = "mark"
  /\ pending # << >>
  /\ Head(pending) = << >>
  /\ pending' = Tail(pending)
  /\ UNCHANGED <<heap, max_objects, client, marked, i, phase, request>>

MarkDone ==
  /\ phase = "mark"
  /\ pending = << >>
  /\ i > Len(value_stack)
  /\ phase' = "sweep"
  /\ i' = 1
  /\ UNCHANGED <<heap, max_objects, client, marked, pending, request>>

\* Faulty variant: an object is freed and stays in the list.
SweepKeepsLink ==
  /\ phase = "sweep"
  /\ i <= Len(objects)
  /\ objects[i] \notin marked
  /\ allocated' = allocated \ {objects[i]}
  /\ refs' = [refs EXCEPT ![objects[i]] = NoRefs]
  /\ i' = i + 1
  /\ UNCHANGED <<objects, num_objects, max_objects, client, marked, pending,
                 phase, request>>

SweepUnreached ==
  /\ phase = "sweep"
  /\ i <= Len(objects)
  /\ objects[i] \notin marked
  /\ allocated' = allocated \ {objects[i]}
  /\ refs' = [refs EXCEPT ![objects[i]] = NoRefs]
  /\ objects' = RemoveAt(objects, i)
  /\ num_objects' = num_objects - 1
  /\ UNCHANGED <<max_objects, client, collector, phase, request>>

\* Faulty variant: the mark is left for the next collection.
SweepKeepsMark ==
  /\ phase = "sweep"
  /\ i <= Len(objects)
  /\ objects[i] \in marked
  /\ i' = i + 1
  /\ UNCHANGED <<heap, max_objects, client, marked, pending, phase, request>>

SweepReached ==
  /\ phase = "sweep"
  /\ i <= Len(objects)
  /\ objects[i] \in marked
  /\ marked' = marked \ {objects[i]}
  /\ i' = i + 1
  /\ UNCHANGED <<heap, max_objects, client, pending, phase, request>>

SweepDone ==                            \* and the rest of gc_collect
  /\ phase = "sweep"
  /\ i > Len(objects)
  /\ max_objects' = IF num_objects * 2 < MinThreshold
                      THEN MinThreshold ELSE num_objects * 2
  /\ phase' = IF request = << >> THEN "client" ELSE "malloc"
  /\ i' = 1
  /\ UNCHANGED <<heap, client, marked, pending, request>>

\* Faulty variant: the bound of the value stack is off by one.
PushOneTooMany(v) ==
  /\ value_stack' = IF Len(value_stack) > VM_STACK_MAX
                      THEN value_stack ELSE Append(value_stack, v)
  /\ local' = IF v = local THEN NULL ELSE local
  /\ UNCHANGED <<heap, max_objects, auto_gc, collector, phase, request>>

Push(v) ==                              \* a full stack drops the value
  /\ value_stack' = IF Len(value_stack) >= VM_STACK_MAX
                      THEN value_stack ELSE Append(value_stack, v)
  /\ local' = IF v = local THEN NULL ELSE local
  /\ UNCHANGED <<heap, max_objects, auto_gc, collector, phase, request>>

Pop ==                                  \* an empty stack gives VAL_INT(0)
  /\ IF value_stack = << >>
       THEN UNCHANGED <<value_stack, local>>
       ELSE LET v == value_stack[Len(value_stack)]
            IN  /\ local' = IF v = Integer THEN NULL ELSE v
                /\ value_stack' = SubSeq(value_stack, 1, Len(value_stack) - 1)
  /\ UNCHANGED <<heap, max_objects, auto_gc, collector, phase, request>>

SetField(o, side, p) ==                 \* the client writes a field in place
  /\ refs' = [refs EXCEPT ![o][side] = p]
  /\ UNCHANGED <<allocated, objects, num_objects, max_objects, client,
                 collector, phase, request>>

SetAutoCollect(enabled) ==
  /\ auto_gc' = enabled
  /\ UNCHANGED <<heap, max_objects, value_stack, local, collector, phase, request>>

Cleanup ==          \* gc_cleanup inside vm_destroy: stack_count is not reset
  /\ allocated' = {}
  /\ refs' = [o \in Objects |-> NoRefs]
  /\ objects' = << >>
  /\ num_objects' = 0
  /\ phase' = "destroyed"
  /\ UNCHANGED <<max_objects, client, collector, request>>

Destroyed == phase = "destroyed" /\ UNCHANGED vars

CollectorStep ==
  \/ MarkRoot \/ MarkObject \/ MarkReturns \/ MarkDone
  \/ SweepUnreached \/ SweepReached \/ SweepDone

ClientStep ==       \* a call of the client, whose pointers are what it can reach
  /\ phase = "client"
  /\ \/ \E left, right \in Reach \cup {NULL} : New(left, right)
     \/ \E v \in Reach \cup {NULL, Integer, local} : Push(v)
     \/ Pop
     \/ \E o \in Reach, side \in 1..2, p \in Reach \cup {NULL, local} :
          SetField(o, side, p)
     \/ \E enabled \in BOOLEAN : SetAutoCollect(enabled)
     \/ Collect
     \/ Cleanup

Next ==
  \/ ClientStep
  \/ (\E o \in Objects : Malloc(o)) \/ MallocFails
  \/ CollectorStep
  \/ Destroyed

Spec == Init /\ [][Next]_vars

\* A collection runs to its end inside the client's call; the client itself
\* need not make another one.
FairSpec == Spec /\ WF_vars(CollectorStep)
-----------------------------------------------------------------------------
Sweeping == phase = "sweep"
Kept == {objects[k] : k \in 1 .. i - 1}      \* while sweeping

TypeOK ==
  /\ allocated \subseteq Objects
  /\ refs \in [Objects -> Pointer \X Pointer]
  /\ objects \in Seq(Objects)
  /\ num_objects \in Nat
  /\ max_objects \in Nat
  /\ auto_gc \in BOOLEAN
  /\ value_stack \in Seq(Value)
  /\ Len(value_stack) <= VM_STACK_MAX
  /\ local \in Pointer
  /\ marked \subseteq Objects
  /\ phase \in {"client", "mark", "sweep", "malloc", "destroyed"}
  /\ request \in (Pointer \X Pointer) \cup {<< >>}
  /\ pending \in Seq(Seq(Pointer))
  /\ i \in Nat \ {0}

\* The list from first_object holds every allocated object once, and
\* num_objects counts it: an unlinked object would leak, one linked twice would
\* be freed twice, and a wrong count moves the threshold.
HeapIsList ==
  /\ {objects[k] : k \in DOMAIN objects} = allocated
  /\ \A j, k \in DOMAIN objects : objects[j] = objects[k] => j = k
  /\ num_objects = Len(objects)

\* Nothing the client can reach from the value stack has been freed, at any
\* point of a collection and with addresses reused by malloc.
NoDangling == phase # "destroyed" => Reach \subseteq allocated

\* A collection leaves no mark behind: an object that stayed marked would be
\* skipped by the next gc_mark_object and its children freed under it.
MarksCleared == phase \in {"client", "malloc"} => marked = {}

\* When the marking loops end, exactly the reachable objects are marked, in
\* spite of cycles, sharing and the early return on a marked object.
MarkedIsReach == phase = "sweep" => marked \cup Kept = Reach

\* The recursion is never deeper than there are objects, cycles or not: each open
\* call of gc_mark_object is for another object that is marked.  (It can be as
\* deep as that, for a list, so the C stack bounds the heap.)
DepthBounded == phase = "mark" => Len(pending) <= Cardinality(marked) + 1

\* With automatic collection on, an allocation never takes num_objects over
\* max_objects, whatever happened while it was off.
GrowthBounded ==
  [][num_objects' > num_objects /\ auto_gc => num_objects' <= max_objects']_vars

\* The collector implements the abstract heap: the collection takes effect in
\* one step, at the end of marking.
cellsBar == IF Sweeping THEN marked \cup Kept ELSE allocated
refsBar == [o \in Objects |-> IF o \in cellsBar THEN refs[o] ELSE NoRefs]
A == INSTANCE Heap WITH cells <- cellsBar, refs <- refsBar
ImplementsHeap == A!HeapSpec

\* Every collection ends, on any heap, cyclic ones included.
CollectionEnds == phase = "mark" ~> phase \in {"client", "malloc"}
=============================================================================
