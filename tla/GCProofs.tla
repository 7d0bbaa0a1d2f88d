------------------------------- MODULE GCProofs --------------------------------
(***************************************************************************)
(* The collector of gc.c on any heap, of any size and shape, and for any   *)
(* value stack: it frees what the client cannot reach and nothing else, it *)
(* leaves no mark, its recursion is bounded by the heap, and it implements *)
(* the abstract heap.                                                      *)
(***************************************************************************)
EXTENDS GC, SequenceTheorems, FiniteSetTheorems, TLAPS

Roots == H!Roots
Pointers(o) == H!Pointers(o)
Closed(C) == H!Closed(C)

Linked == {objects[k] : k \in DOMAIN objects}

\* The arguments of the calls in a stack of calls like pending.
Held(calls) == {p \in Pointer : \E k \in DOMAIN calls : \E j \in DOMAIN calls[k] :
                                  calls[k][j] = p}
Awaited == Held(pending)
\* Only objects in the heap have fields, and until a collection begins to free some
\* these and the roots point at objects in the heap: also those of garbage.
CellsInv ==
  /\ \A o \in Objects \ allocated : refs[o] = NoRefs
  /\ phase \in {"client", "malloc", "mark"} => Roots \subseteq allocated /\ Closed(allocated)

\* The pointers that are in use outside the heap: the client's new object, and the
\* fields of the one being allocated, which no root need keep but other objects do.
PointersInv ==
  /\ local # NULL => phase \in {"client", "destroyed"}
  /\ phase = "client" => local \in allocated \cup {NULL}
  /\ phase \in {"client", "destroyed"} => request = << >>
  /\ request # << >> => request[1] \in Reach \cup {NULL} /\ request[2] \in Reach \cup {NULL}
  /\ phase = "malloc" => request # << >>

\* Marking: only reachable objects are marked or about to be, and what a scanned
\* root or a field of a marked object points at is marked or about to be.
MarkInv ==
  phase = "mark" =>
    /\ i <= Len(value_stack) + 1
    /\ marked \subseteq Reach
    /\ Awaited \subseteq Reach \cup {NULL}
    /\ \A k \in 1 .. i - 1 : value_stack[k] \in marked \cup Awaited \cup {NULL, Integer}
    /\ \A o \in marked : Pointers(o) \subseteq marked \cup Awaited

\* Sweeping: the survivors are those still marked and those already passed.
SweepInv ==
  phase = "sweep" =>
    /\ i <= Len(objects) + 1
    /\ marked \cap Kept = {}
    /\ marked \cup Kept = Reach

DepthInv == IsFiniteSet(marked) /\ DepthBounded

GrowthInv == phase = "malloc" /\ auto_gc => num_objects < max_objects

IInv ==
  /\ TypeOK /\ HeapIsList /\ NoDangling /\ MarksCleared
  /\ CellsInv /\ PointersInv /\ MarkInv /\ SweepInv /\ DepthInv /\ GrowthInv
-----------------------------------------------------------------------------
(* What the operators on sequences do that the steps use.                  *)

LEMMA Prepended ==
  ASSUME NEW T, NEW s \in Seq(T), NEW e \in T
  PROVE  /\ <<e>> \o s \in Seq(T)
         /\ Len(<<e>> \o s) = Len(s) + 1
         /\ (<<e>> \o s)[1] = e
         /\ \A k \in 1..Len(s) : (<<e>> \o s)[k + 1] = s[k]
<1>1. <<e>> \in Seq(T) /\ Len(<<e>>) = 1 /\ <<e>>[1] = e
  OBVIOUS
<1> PICK u \in Seq(T) : u = <<e>> /\ Len(u) = 1 /\ u[1] = e
  BY <1>1
<1>2. /\ u \o s \in Seq(T)
      /\ Len(u \o s) = Len(u) + Len(s)
      /\ \A k \in 1..Len(u) + Len(s) :
           (u \o s)[k] = IF k <= Len(u) THEN u[k] ELSE s[k - Len(u)]
  BY ConcatProperties
<1> PICK v : v = u \o s
  OBVIOUS
<1>3. Len(s) \in Nat
  BY LenProperties
<1>4. v[1] = e
  BY <1>2, <1>3
<1>5. \A k \in 1..Len(s) : v[k + 1] = s[k]
  <2> SUFFICES ASSUME NEW k \in 1..Len(s) PROVE v[k + 1] = s[k]
    OBVIOUS
  <2>1. k + 1 \in 1..Len(u) + Len(s) /\ ~(k + 1 <= Len(u)) /\ (k + 1) - Len(u) = k
    BY <1>3
  <2> QED BY <1>2, <2>1
<1> QED BY <1>2, <1>3, <1>4, <1>5

LEMMA Removed ==
  ASSUME NEW T, NEW s \in Seq(T), NEW n \in 1..Len(s)
  PROVE  /\ RemoveAt(s, n) \in Seq(T)
         /\ Len(RemoveAt(s, n)) = Len(s) - 1
         /\ \A k \in 1..Len(s) - 1 :
              RemoveAt(s, n)[k] = IF k < n THEN s[k] ELSE s[k + 1]
<1> DEFINE u == SubSeq(s, 1, n - 1)
           v == SubSeq(s, n + 1, Len(s))
           w == u \o v
<1>1. Len(s) \in Nat /\ \A k \in 1..Len(s) : s[k] \in T
  BY LenProperties, ElementOfSeq
<1>2. /\ u \in Seq(T)
      /\ Len(u) = IF 1 <= n - 1 THEN (n - 1) - 1 + 1 ELSE 0
      /\ \A k \in 1..(n - 1) - 1 + 1 : u[k] = s[1 + k - 1]
  <2>1. 1 \in Int /\ n - 1 \in Int /\ \A k \in 1..n - 1 : s[k] \in T
    BY <1>1
  <2> QED BY <2>1, SubSeqProperties
<1>3. /\ v \in Seq(T)
      /\ Len(v) = IF n + 1 <= Len(s) THEN Len(s) - (n + 1) + 1 ELSE 0
      /\ \A k \in 1..Len(s) - (n + 1) + 1 : v[k] = s[(n + 1) + k - 1]
  <2>1. n + 1 \in Int /\ Len(s) \in Int /\ \A k \in n + 1..Len(s) : s[k] \in T
    BY <1>1
  <2> QED BY <2>1, SubSeqProperties
<1> HIDE DEF u, v
<1>4. /\ w \in Seq(T) /\ Len(w) = Len(u) + Len(v)
      /\ \A k \in 1..Len(u) + Len(v) :
           w[k] = IF k <= Len(u) THEN u[k] ELSE v[k - Len(u)]
  BY <1>2, <1>3, ConcatProperties
<1> HIDE DEF w
<1>5. Len(u) = n - 1 /\ Len(v) = Len(s) - n
  BY <1>1, <1>2, <1>3
<1>6. ASSUME NEW k \in 1..Len(s) - 1
      PROVE  w[k] = IF k < n THEN s[k] ELSE s[k + 1]
  <2>1. CASE k < n
    <3>1. /\ k \in 1..(n - 1) - 1 + 1 /\ 1 + k - 1 = k
          /\ k <= Len(u) /\ k \in 1..Len(u) + Len(v)
      BY <1>1, <1>5, <2>1
    <3>2. w[k] = u[k]
      BY <1>4, <3>1
    <3>3. u[k] = s[1 + k - 1]
      BY <1>2, <3>1
    <3> QED BY <2>1, <3>1, <3>2, <3>3
  <2>2. CASE ~(k < n)
    <3>1. /\ k - Len(u) \in 1..Len(s) - (n + 1) + 1 /\ (n + 1) + (k - Len(u)) - 1 = k + 1
          /\ ~(k <= Len(u)) /\ k \in 1..Len(u) + Len(v)
      BY <1>1, <1>5, <2>2
    <3>2. w[k] = v[k - Len(u)]
      BY <1>4, <3>1
    <3>3. v[k - Len(u)] = s[(n + 1) + (k - Len(u)) - 1]
      BY <1>3, <3>1
    <3> QED BY <2>2, <3>1, <3>2, <3>3
  <2> QED BY <2>1, <2>2
<1>7. RemoveAt(s, n) = w
  BY DEF RemoveAt, w, u, v
<1>8. w \in Seq(T) /\ Len(w) = Len(s) - 1
  BY <1>1, <1>4, <1>5
<1> QED BY <1>6, <1>7, <1>8, Zenon

LEMMA HeldPrepended ==
  ASSUME NEW s \in Seq(Seq(Pointer)), NEW e \in Seq(Pointer)
  PROVE  /\ <<e>> \o s \in Seq(Seq(Pointer))
         /\ Len(<<e>> \o s) = Len(s) + 1
         /\ Held(<<e>> \o s) = Held(s) \cup {e[j] : j \in DOMAIN e}
<1> DEFINE v == <<e>> \o s
<1>1. /\ v \in Seq(Seq(Pointer)) /\ Len(v) = Len(s) + 1
      /\ v[1] = e /\ \A k \in 1..Len(s) : v[k + 1] = s[k]
  BY Prepended
<1> HIDE DEF v
<1>2. DOMAIN s = 1..Len(s) /\ DOMAIN v = 1..Len(v) /\ Len(s) \in Nat
  BY <1>1, LenProperties
<1>3. \A j \in DOMAIN e : e[j] \in Pointer
  BY LenProperties, ElementOfSeq
<1>4. \A p \in Held(s) : p \in Held(v)
  <2> SUFFICES ASSUME NEW k \in DOMAIN s, NEW j \in DOMAIN s[k], s[k][j] \in Pointer
               PROVE  s[k][j] \in Held(v)
    BY DEF Held
  <2>1. k + 1 \in DOMAIN v /\ v[k + 1] = s[k]
    BY <1>1, <1>2
  <2> QED BY <2>1 DEF Held
<1>5. \A j \in DOMAIN e : e[j] \in Held(v)
  <2>1. 1 \in DOMAIN v /\ v[1] = e
    BY <1>1, <1>2
  <2> QED BY <1>3, <2>1 DEF Held
<1>6. \A p \in Held(v) : p \in Held(s) \/ p \in {e[j] : j \in DOMAIN e}
  <2> SUFFICES ASSUME NEW k \in DOMAIN v, NEW j \in DOMAIN v[k], v[k][j] \in Pointer
               PROVE  v[k][j] \in Held(s) \/ v[k][j] \in {e[m] : m \in DOMAIN e}
    BY DEF Held
  <2>1. CASE k = 1
    BY <1>1, <2>1
  <2>2. CASE k # 1
    <3>0. k - 1 \in 1..Len(s) /\ (k - 1) + 1 = k
      BY <1>1, <1>2, <2>2, SMTT(30)
    <3> PICK m \in 1..Len(s) : m + 1 = k
      BY <3>0
    <3>1. m \in DOMAIN s /\ v[k] = s[m]
      BY <1>1, <1>2
    <3> QED BY <1>2, <3>1 DEF Held
  <2> QED BY <2>1, <2>2
<1>7. Held(v) = Held(s) \cup {e[j] : j \in DOMAIN e}
  BY <1>4, <1>5, <1>6
<1> QED BY <1>1, <1>7 DEF v

LEMMA HeldTail ==
  ASSUME NEW s \in Seq(Seq(Pointer)), s # << >>
  PROVE  /\ Head(s) \in Seq(Pointer) /\ Tail(s) \in Seq(Seq(Pointer))
         /\ Len(Tail(s)) = Len(s) - 1 /\ Len(s) >= 1
         /\ Held(s) = Held(Tail(s)) \cup {Head(s)[j] : j \in DOMAIN Head(s)}
<1> DEFINE v == Tail(s)
<1>1. /\ Head(s) \in Seq(Pointer) /\ v \in Seq(Seq(Pointer)) /\ Len(v) = Len(s) - 1
      /\ \A k \in 1..Len(v) : v[k] = s[k + 1]
  BY HeadTailProperties
<1> HIDE DEF v
<1>2. /\ DOMAIN s = 1..Len(s) /\ DOMAIN v = 1..Len(v) /\ Len(s) \in Nat /\ Len(s) >= 1
      /\ Head(s) = s[1]
  BY <1>1, LenProperties, EmptySeq
<1>3. \A j \in DOMAIN s[1] : s[1][j] \in Pointer
  BY <1>1, <1>2, LenProperties, ElementOfSeq
<1>4. \A p \in Held(v) : p \in Held(s)
  <2> SUFFICES ASSUME NEW k \in DOMAIN v, NEW j \in DOMAIN v[k], v[k][j] \in Pointer
               PROVE  v[k][j] \in Held(s)
    BY DEF Held
  <2>1. k + 1 \in DOMAIN s /\ v[k] = s[k + 1]
    BY <1>1, <1>2, SMTT(30)
  <2> QED BY <2>1 DEF Held
<1>5. \A j \in DOMAIN s[1] : s[1][j] \in Held(s)
  BY <1>2, <1>3 DEF Held
<1>6. \A p \in Held(s) : p \in Held(v) \/ p \in {s[1][j] : j \in DOMAIN s[1]}
  <2> SUFFICES ASSUME NEW k \in DOMAIN s, NEW j \in DOMAIN s[k], s[k][j] \in Pointer
               PROVE  s[k][j] \in Held(v) \/ s[k][j] \in {s[1][m] : m \in DOMAIN s[1]}
    BY DEF Held
  <2>1. CASE k = 1
    BY <2>1
  <2>2. CASE k # 1
    <3>0. k - 1 \in 1..Len(v) /\ (k - 1) + 1 = k
      BY <1>1, <1>2, <2>2
    <3> PICK m \in 1..Len(v) : m + 1 = k
      BY <3>0
    <3>1. m \in DOMAIN v /\ v[m] = s[k]
      BY <1>1, <1>2
    <3> QED BY <3>1 DEF Held
  <2> QED BY <2>1, <2>2
<1>7. Held(s) = Held(v) \cup {s[1][j] : j \in DOMAIN s[1]}
  BY <1>4, <1>5, <1>6
<1> QED BY <1>1, <1>2, <1>7 DEF v
-----------------------------------------------------------------------------
(* Reachability.                                                           *)

LEMMA FieldsTyped ==
  ASSUME TypeOK, NEW o \in Objects
  PROVE  /\ refs[o][1] \in Pointer /\ refs[o][2] \in Pointer
         /\ refs[o] \in Seq(Pointer) /\ DOMAIN refs[o] = {1, 2}
         /\ Pointers(o) \subseteq Objects
<1>1. PICK p \in Pointer, q \in Pointer : refs[o] = <<p, q>>
  BY DEF TypeOK
<1>2. refs[o][1] = p /\ refs[o][2] = q
  BY <1>1
<1>3. refs[o] \in Seq(Pointer)
  BY <1>1
<1>4. DOMAIN refs[o] = {1, 2}
  BY <1>1
<1>5. Pointers(o) \subseteq Objects
  BY <1>2 DEF Pointers, H!Pointers, Pointer
<1> QED BY <1>2, <1>3, <1>4, <1>5

LEMMA ReachLeast ==
  /\ \A C \in SUBSET Objects : Roots \subseteq C /\ Closed(C) => Reach \subseteq C
  /\ Reach \subseteq Objects
BY DEF Reach, H!Reach, Roots, Closed

LEMMA ReachLeastNext ==
  /\ \A C \in SUBSET Objects : Roots' \subseteq C /\ Closed(C)' => Reach' \subseteq C
  /\ Reach' \subseteq Objects
BY DEF Reach, H!Reach, Roots, Closed

LEMMA ReachClosed ==
  ASSUME TypeOK
  PROVE  Roots \subseteq Reach /\ Closed(Reach)
<1>1. Roots \subseteq Objects
  <2>1. \A k \in DOMAIN value_stack : value_stack[k] \in Value
    BY LenProperties, ElementOfSeq DEF TypeOK
  <2> QED BY <2>1 DEF Roots, H!Roots, Value, Pointer
<1>2. Roots \subseteq Reach
  BY <1>1 DEF Reach, H!Reach, Roots
<1>3. ASSUME NEW o \in Reach, NEW p \in Pointers(o) PROVE p \in Reach
  <2>1. o \in Objects /\ p \in Objects
    BY <1>3, ReachLeast, FieldsTyped
  <2>2. ASSUME NEW C \in SUBSET Objects, Roots \subseteq C, Closed(C) PROVE p \in C
    <3>1. o \in C
      BY <2>2, ReachLeast
    <3> QED BY <1>3, <2>2, <3>1 DEF Closed, H!Closed, Pointers
  <2> QED BY <2>1, <2>2 DEF Reach, H!Reach, Roots, Closed
<1>4. Closed(Reach)
  BY <1>3 DEF Closed, H!Closed, Pointers
<1> QED BY <1>2, <1>4

\* What the client can reach stays the same if none of it is written and the stack
\* is not touched.
LEMMA ReachSame ==
  ASSUME TypeOK, UNCHANGED value_stack, \A o \in Reach : refs'[o] = refs[o]
  PROVE  Reach' = Reach /\ Roots' = Roots
<1>1. Roots' = Roots
  BY DEF Roots, H!Roots
<1>2. Roots \subseteq Reach /\ Closed(Reach) /\ Reach \subseteq Objects
  BY ReachClosed, ReachLeast
<1>4. \A o \in Reach : Pointers(o)' = Pointers(o)
  BY DEF Pointers, H!Pointers
<1>5. Reach' \subseteq Reach
  <2>1. PICK R \in SUBSET Objects : R = Reach
    BY <1>2
  <2>2. Closed(R)'
    BY <1>2, <1>4, <2>1 DEF Closed, H!Closed, Pointers
  <2> QED BY <1>1, <1>2, <2>1, <2>2, ReachLeastNext
<1>6. Reach \subseteq Reach'
  <2> SUFFICES ASSUME NEW C \in SUBSET Objects, Roots' \subseteq C, Closed(C)'
               PROVE  Reach \subseteq C
    BY <1>2 DEF Reach, H!Reach, Roots, Closed
  <2>1. PICK D \in SUBSET Objects : D = C \cap Reach
    BY <1>2
  <2>2. Roots \subseteq D
    BY <1>1, <1>2, <2>1
  <2>3. \A o \in C : Pointers(o)' \subseteq C
    BY DEF Closed, H!Closed, Pointers
  <2>4. \A o \in D : Pointers(o) \subseteq D
    BY <1>2, <1>4, <2>1, <2>3 DEF Closed, H!Closed, Pointers
  <2>5. Closed(D)
    BY <2>4 DEF Closed, H!Closed, Pointers
  <2> QED BY <2>1, <2>2, <2>5, ReachLeast
<1> QED BY <1>1, <1>5, <1>6

LEMMA NothingDangles ==
  ASSUME Roots' \subseteq allocated', Closed(allocated)', allocated' \subseteq Objects
  PROVE  Reach' \subseteq allocated'
<1>1. PICK C \in SUBSET Objects : C = allocated'
  OBVIOUS
<1>2. Closed(C)'
  BY <1>1 DEF Closed, H!Closed
<1> QED BY <1>1, <1>2, ReachLeastNext
-----------------------------------------------------------------------------
(* The client.                                                             *)

LEMMA StackTyped ==
  ASSUME TypeOK
  PROVE  /\ Len(value_stack) \in Nat /\ DOMAIN value_stack = 1..Len(value_stack)
         /\ \A k \in DOMAIN value_stack : value_stack[k] \in Value
         /\ \A k \in DOMAIN value_stack :
              value_stack[k] \notin {NULL, Integer} => value_stack[k] \in Roots
BY LenProperties, ElementOfSeq DEF TypeOK, Roots, H!Roots

LEMMA ClosedCells ==
  ASSUME CellsInv, phase \in {"client", "malloc", "mark"}
  PROVE  Roots \subseteq allocated /\ \A o \in allocated : Pointers(o) \subseteq allocated
BY DEF CellsInv, Closed, H!Closed, Pointers

LEMMA ClosedCellsNext ==
  ASSUME Roots' \subseteq allocated', \A o \in allocated' : Pointers(o)' \subseteq allocated',
         \A o \in Objects \ allocated' : refs'[o] = NoRefs
  PROVE  CellsInv'
BY DEF CellsInv, Closed, H!Closed, Pointers

LEMMA ClientKeeps ==
  ASSUME IInv, phase = "client", UNCHANGED <<max_objects, collector, phase, request>>,
         TypeOK', HeapIsList', CellsInv', local' \in allocated' \cup {NULL}
  PROVE  IInv'
<1>1. Roots' \subseteq allocated' /\ Closed(allocated)' /\ allocated' \subseteq Objects
  BY DEF CellsInv, TypeOK
<1>2. NoDangling'
  BY <1>1, NothingDangles DEF NoDangling
<1>3. MarksCleared' /\ MarkInv' /\ SweepInv' /\ GrowthInv'
  BY DEF IInv, MarksCleared, MarkInv, SweepInv, GrowthInv, collector
<1>4. DepthInv'
  BY DEF IInv, DepthInv, DepthBounded, collector
<1>5. request' = << >>
  BY DEF IInv, PointersInv
<1>6. PointersInv'
  BY <1>5 DEF PointersInv
<1> QED BY <1>2, <1>3, <1>4, <1>6 DEF IInv

LEMMA PushKeeps ==
  ASSUME IInv, phase = "client", NEW v \in Reach \cup {NULL, Integer, local}, Push(v)
  PROVE  IInv'
<1> USE DEF IInv
<1>1. Reach \subseteq allocated /\ local \in allocated \cup {NULL} /\ allocated \subseteq Objects
  BY DEF NoDangling, PointersInv, TypeOK
<1>2. v \in Value /\ v \in allocated \cup {NULL, Integer}
  BY <1>1 DEF Value, Pointer
<1>3. /\ value_stack' \in Seq(Value) /\ Len(value_stack') <= VM_STACK_MAX
      /\ Roots' \subseteq Roots \cup ({v} \ {NULL, Integer})
  <2>1. CASE Len(value_stack) >= VM_STACK_MAX
    BY <2>1 DEF Push, TypeOK, Roots, H!Roots
  <2>2. CASE ~(Len(value_stack) >= VM_STACK_MAX)
    <3> DEFINE w == Append(value_stack, v)
    <3>1. /\ w \in Seq(Value) /\ Len(w) = Len(value_stack) + 1
          /\ w[Len(value_stack) + 1] = v
          /\ \A k \in 1..Len(value_stack) : w[k] = value_stack[k]
      <4>1. w \in Seq(Value)
        BY <1>2, AppendProperties DEF TypeOK
      <4>2. Len(w) = Len(value_stack) + 1
        BY <1>2, AppendProperties DEF TypeOK
      <4>3. w[Len(value_stack) + 1] = v
        BY <1>2, AppendProperties DEF TypeOK
      <4>4. \A k \in 1..Len(value_stack) : w[k] = value_stack[k]
        BY <1>2, AppendProperties DEF TypeOK
      <4> QED BY <4>1, <4>2, <4>3, <4>4
    <3>2. value_stack' = w
      BY <2>2 DEF Push
    <3> HIDE DEF w
    <3>3. DOMAIN w = 1..Len(value_stack) + 1 /\ Len(value_stack) \in Nat
      BY <3>1, LenProperties, StackTyped
    <3>4. \A k \in DOMAIN w : w[k] = v \/ \E j \in DOMAIN value_stack : w[k] = value_stack[j]
      BY <3>1, <3>3, StackTyped
    <3>5. Len(w) <= VM_STACK_MAX
      BY <2>2, <3>1, <3>3, BoundsAssumption
    <3> QED BY <3>1, <3>2, <3>4, <3>5 DEF Roots, H!Roots
  <2> QED BY <2>1, <2>2
<1>4. UNCHANGED heap /\ local' \in {NULL, local}
      /\ UNCHANGED <<max_objects, auto_gc, collector, phase, request>>
  BY DEF Push
<1>5. TypeOK'
  BY <1>3, <1>4 DEF TypeOK, heap, collector, Pointer
<1>6. HeapIsList'
  BY <1>4 DEF HeapIsList, heap
<1>7. CellsInv'
  <2>1. Roots' \subseteq allocated'
    BY <1>2, <1>3, <1>4, ClosedCells DEF heap
  <2>2. \A o \in allocated' : Pointers(o)' \subseteq allocated'
    BY <1>4, ClosedCells DEF heap, Pointers, H!Pointers
  <2> QED BY <1>4, <2>1, <2>2, ClosedCellsNext DEF CellsInv, heap
<1> QED BY <1>1, <1>4, <1>5, <1>6, <1>7, ClientKeeps DEF heap

LEMMA PopKeeps ==
  ASSUME IInv, phase = "client", Pop
  PROVE  IInv'
<1> USE DEF IInv
<1>1. UNCHANGED <<heap, max_objects, auto_gc, collector, phase, request>>
  BY DEF Pop
<1>2. /\ value_stack' \in Seq(Value) /\ Len(value_stack') <= VM_STACK_MAX
      /\ Roots' \subseteq Roots /\ local' \in allocated \cup {NULL}
  <2>1. CASE value_stack = << >>
    BY <2>1 DEF Pop, TypeOK, Roots, H!Roots, PointersInv
  <2>2. CASE value_stack # << >>
    <3> DEFINE n == Len(value_stack)
               w == SubSeq(value_stack, 1, n - 1)
    <3>1. n \in Nat \ {0} /\ n <= VM_STACK_MAX
      BY <2>2, EmptySeq DEF TypeOK
    <3>2. /\ w \in Seq(Value)
          /\ Len(w) = IF 1 <= n - 1 THEN (n - 1) - 1 + 1 ELSE 0
          /\ \A k \in 1..(n - 1) - 1 + 1 : w[k] = value_stack[1 + k - 1]
      <4>1. 1 \in Int /\ n - 1 \in Int /\ \A k \in 1..n - 1 : value_stack[k] \in Value
        BY <3>1, StackTyped
      <4> QED BY <4>1, SubSeqProperties
    <3>3. value_stack' = w
      BY <2>2 DEF Pop
    <3> HIDE DEF w
    <3>4. Len(w) = n - 1 /\ DOMAIN w = 1..n - 1
      <4> HIDE DEF n
      <4>1. Len(w) = n - 1
        <5>1. n \in Nat \ {0} /\ Len(w) = IF 1 <= n - 1 THEN (n - 1) - 1 + 1 ELSE 0
          BY <3>1, <3>2
        <5> QED BY <5>1
      <4>2. DOMAIN w = 1..Len(w)
        BY <3>2, LenProperties
      <4> QED BY <4>1, <4>2
    <3>5. \A k \in DOMAIN w : k \in DOMAIN value_stack /\ w[k] = value_stack[k]
      BY <3>1, <3>2, <3>4, StackTyped
    <3>6. value_stack[n] \in Value /\ (value_stack[n] \notin {NULL, Integer} => value_stack[n] \in allocated)
      BY <3>1, StackTyped, ClosedCells
    <3>7. local' = IF value_stack[n] = Integer THEN NULL ELSE value_stack[n]
      BY <2>2 DEF Pop
    <3>8. Len(w) <= VM_STACK_MAX
      BY <3>1, <3>4, BoundsAssumption
    <3> QED BY <3>2, <3>3, <3>5, <3>6, <3>7, <3>8 DEF Roots, H!Roots
  <2> QED BY <2>1, <2>2
<1>3. allocated \subseteq Objects
  BY DEF TypeOK
<1>4. TypeOK'
  BY <1>1, <1>2, <1>3 DEF TypeOK, heap, collector, Pointer
<1>5. HeapIsList'
  BY <1>1 DEF HeapIsList, heap
<1>6. CellsInv'
  <2>1. Roots' \subseteq allocated'
    BY <1>1, <1>2, ClosedCells DEF heap
  <2>2. \A o \in allocated' : Pointers(o)' \subseteq allocated'
    BY <1>1, ClosedCells DEF heap, Pointers, H!Pointers
  <2> QED BY <1>1, <2>1, <2>2, ClosedCellsNext DEF CellsInv, heap
<1> QED BY <1>1, <1>2, <1>4, <1>5, <1>6, ClientKeeps DEF heap

LEMMA SetFieldKeeps ==
  ASSUME IInv, phase = "client", NEW o \in Reach, NEW side \in 1..2,
         NEW p \in Reach \cup {NULL, local}, SetField(o, side, p)
  PROVE  IInv'
<1> USE DEF IInv
<1>1. Reach \subseteq allocated /\ local \in allocated \cup {NULL} /\ allocated \subseteq Objects
  BY DEF NoDangling, PointersInv, TypeOK
<1>2. o \in allocated /\ o \in Objects /\ p \in allocated \cup {NULL} /\ p \in Pointer
  BY <1>1 DEF Pointer
<1>3. UNCHANGED <<allocated, objects, num_objects, max_objects, client, collector, phase, request>>
  BY DEF SetField
<1>4. PICK a \in Pointer, b \in Pointer : refs[o] = <<a, b>>
  BY <1>2 DEF TypeOK
<1>5. refs' = [refs EXCEPT ![o] = IF side = 1 THEN <<p, b>> ELSE <<a, p>>]
  <2>1. refs' = [refs EXCEPT ![o] = [refs[o] EXCEPT ![side] = p]]
    BY <1>2 DEF SetField, TypeOK
  <2>2. [<<a, b>> EXCEPT ![side] = p] = IF side = 1 THEN <<p, b>> ELSE <<a, p>>
    BY <1>2
  <2> QED BY <1>4, <2>1, <2>2
<1> PICK t \in Pointer \X Pointer : t = IF side = 1 THEN <<p, b>> ELSE <<a, p>>
  <2>1. <<p, b>> \in Pointer \X Pointer /\ <<a, p>> \in Pointer \X Pointer
    BY <1>2
  <2> QED BY <2>1
<1>6. refs' = [refs EXCEPT ![o] = t] /\ {t[1], t[2]} \subseteq {a, b, p}
  BY <1>5
<1>7. TypeOK'
  <2>1. refs' \in [Objects -> Pointer \X Pointer]
    BY <1>2, <1>6 DEF TypeOK
  <2> QED BY <1>3, <2>1 DEF TypeOK, client, collector
<1>8. HeapIsList'
  BY <1>3 DEF HeapIsList
<1>9. CellsInv'
  <2>1. Roots' \subseteq allocated'
    BY <1>3, ClosedCells DEF client, Roots, H!Roots
  <2>2. refs'[o] = t /\ \A q \in Objects \ {o} : refs'[q] = refs[q]
    BY <1>2, <1>6 DEF TypeOK
  <2>3. Pointers(o)' \subseteq allocated
    <3>1. {a, b} \ {NULL} \subseteq allocated
      BY <1>2, <1>4, ClosedCells DEF Pointers, H!Pointers
    <3> QED BY <1>2, <1>6, <2>2, <3>1 DEF Pointers, H!Pointers
  <2>4. \A q \in allocated' : Pointers(q)' \subseteq allocated'
    BY <1>1, <1>3, <2>2, <2>3, ClosedCells DEF Pointers, H!Pointers
  <2>5. \A q \in Objects \ allocated' : refs'[q] = NoRefs
    BY <1>2, <1>3, <2>2 DEF CellsInv
  <2> QED BY <2>1, <2>4, <2>5, ClosedCellsNext
<1> QED BY <1>1, <1>3, <1>7, <1>8, <1>9, ClientKeeps DEF client

LEMMA SetAutoCollectKeeps ==
  ASSUME IInv, phase = "client", NEW enabled \in BOOLEAN, SetAutoCollect(enabled)
  PROVE  IInv'
<1> USE DEF IInv
<1>1. UNCHANGED <<heap, max_objects, value_stack, local, collector, phase, request>>
  BY DEF SetAutoCollect
<1>2. TypeOK'
  <2>1. auto_gc' \in BOOLEAN
    BY DEF SetAutoCollect
  <2> QED BY <1>1, <2>1 DEF TypeOK, heap, collector
<1>3. HeapIsList' /\ CellsInv' /\ local' \in allocated' \cup {NULL}
  BY <1>1 DEF HeapIsList, CellsInv, PointersInv, heap, Roots, H!Roots, Closed, H!Closed,
              H!Pointers
<1> QED BY <1>1, <1>2, <1>3, ClientKeeps

LEMMA CleanupKeeps ==
  ASSUME IInv, phase = "client", Cleanup
  PROVE  IInv'
<1> USE DEF IInv
<1>1. UNCHANGED <<max_objects, client, collector, request>> /\ phase' = "destroyed"
  BY DEF Cleanup
<1>2. TypeOK'
  <2>1. refs' \in [Objects -> Pointer \X Pointer]
    BY DEF Cleanup, NoRefs, Pointer
  <2>2. allocated' \subseteq Objects /\ objects' \in Seq(Objects) /\ num_objects' \in Nat
    BY DEF Cleanup
  <2> QED BY <1>1, <2>1, <2>2 DEF TypeOK, client, collector
<1>3. HeapIsList'
  BY DEF Cleanup, HeapIsList
<1>4. CellsInv'
  BY <1>1 DEF Cleanup, CellsInv
<1>5. PointersInv' /\ NoDangling' /\ MarksCleared' /\ MarkInv' /\ SweepInv' /\ GrowthInv'
  BY <1>1 DEF PointersInv, NoDangling, MarksCleared, MarkInv, SweepInv, GrowthInv
<1>6. DepthInv'
  BY <1>1 DEF DepthInv, DepthBounded, collector
<1> QED BY <1>2, <1>3, <1>4, <1>5, <1>6

-----------------------------------------------------------------------------
(* Allocation.                                                             *)

\* The heap, the stack and with them all that can be reached stay as they are.
LEMMA SameHeap ==
  ASSUME UNCHANGED <<heap, value_stack>>
  PROVE  /\ Reach' = Reach /\ Roots' = Roots
         /\ Closed(allocated)' = Closed(allocated)
         /\ \A o : Pointers(o)' = Pointers(o)
         /\ HeapIsList' = HeapIsList
BY DEF heap, Reach, H!Reach, Roots, H!Roots, Closed, H!Closed, Pointers, H!Pointers,
       HeapIsList

LEMMA BeginKeeps ==
  ASSUME IInv, phase = "client", NEW req \in (Pointer \X Pointer) \cup {<< >>},
         req # << >> => req[1] \in Reach \cup {NULL} /\ req[2] \in Reach \cup {NULL},
         BeginCollection(req)
  PROVE  IInv'
<1> USE DEF IInv
<1>1. /\ UNCHANGED <<heap, max_objects, value_stack, auto_gc, marked>>
      /\ phase' = "mark" /\ request' = req /\ local' = NULL /\ pending' = << >> /\ i' = 1
  BY DEF BeginCollection
<1>2. marked = {}
  BY DEF MarksCleared
<1>3. /\ Reach' = Reach /\ Roots' = Roots /\ Closed(allocated)' = Closed(allocated)
      /\ HeapIsList'
  BY <1>1, SameHeap
<1>4. TypeOK'
  <2>1. pending' \in Seq(Seq(Pointer))
    BY <1>1
  <2> QED BY <1>1, <2>1 DEF TypeOK, heap, Pointer
<1>5. NoDangling' /\ MarksCleared' /\ CellsInv' /\ SweepInv' /\ GrowthInv'
  BY <1>1, <1>3 DEF NoDangling, MarksCleared, CellsInv, SweepInv, GrowthInv, heap
<1>6. PointersInv'
  BY <1>1, <1>3 DEF PointersInv
<1>7. MarkInv'
  <2>1. Awaited' = {}
    BY <1>1 DEF Awaited, Held
  <2>2. Len(value_stack) \in Nat
    BY StackTyped
  <2> QED BY <1>1, <1>2, <2>1, <2>2 DEF MarkInv
<1>8. DepthInv'
  BY <1>1, <1>2, FS_EmptySet DEF DepthInv, DepthBounded
<1> QED BY <1>3, <1>4, <1>5, <1>6, <1>7, <1>8

LEMMA NewKeeps ==
  ASSUME IInv, phase = "client", NEW left \in Reach \cup {NULL},
         NEW right \in Reach \cup {NULL}, New(left, right)
  PROVE  IInv'
<1> USE DEF IInv
<1>1. PICK req \in Pointer \X Pointer : req = <<left, right>>
  BY ReachLeast DEF Pointer
<1>2. req # << >> /\ req[1] = left /\ req[2] = right
  BY <1>1
<1>3. CASE auto_gc /\ num_objects >= max_objects
  BY <1>1, <1>2, <1>3, BeginKeeps DEF New
<1>4. CASE ~(auto_gc /\ num_objects >= max_objects)
  <2>1. /\ UNCHANGED <<heap, max_objects, value_stack, auto_gc, collector>>
        /\ phase' = "malloc" /\ request' = req /\ local' = NULL
    BY <1>1, <1>4 DEF New
  <2>2. /\ Reach' = Reach /\ Roots' = Roots /\ Closed(allocated)' = Closed(allocated)
        /\ HeapIsList'
    BY <2>1, SameHeap
  <2>3. TypeOK'
    BY <2>1 DEF TypeOK, heap, collector, Pointer
  <2>4. NoDangling' /\ MarksCleared' /\ CellsInv' /\ SweepInv' /\ MarkInv'
    BY <2>1, <2>2 DEF NoDangling, MarksCleared, CellsInv, SweepInv, MarkInv, heap, collector
  <2>5. PointersInv'
    BY <1>2, <2>1, <2>2 DEF PointersInv
  <2>6. DepthInv'
    BY <2>1 DEF DepthInv, DepthBounded, collector
  <2>7. GrowthInv'
    BY <1>4, <2>1 DEF GrowthInv, TypeOK, heap
  <2> QED BY <2>2, <2>3, <2>4, <2>5, <2>6, <2>7
<1> QED BY <1>3, <1>4

LEMMA MallocEffect ==
  ASSUME IInv, NEW o \in Objects, Malloc(o)
  PROVE  /\ o \in Objects \ allocated /\ o \notin Reach
         /\ request \in Pointer \X Pointer
         /\ request[1] \in Reach \cup {NULL} /\ request[2] \in Reach \cup {NULL}
         /\ refs'[o] = request
         /\ \A q \in Objects \ {o} : refs'[q] = refs[q]
         /\ refs' \in [Objects -> Pointer \X Pointer]
<1> USE DEF IInv
<1>1. request # << >> /\ request \in Pointer \X Pointer
  BY DEF Malloc, PointersInv, TypeOK
<1>2. o \in Objects \ allocated /\ o \notin Reach
  BY DEF Malloc, NoDangling
<1>3. refs' = [refs EXCEPT ![o] = request]
  BY DEF Malloc
<1> QED BY <1>1, <1>2, <1>3 DEF PointersInv, TypeOK

LEMMA MallocKeeps ==
  ASSUME IInv, NEW o \in Objects, Malloc(o)
  PROVE  IInv'
<1> USE DEF IInv
<1>1. /\ allocated' = allocated \cup {o} /\ num_objects' = num_objects + 1
      /\ marked' = marked \ {o} /\ local' = o /\ phase' = "client" /\ request' = << >>
      /\ UNCHANGED <<max_objects, value_stack, auto_gc, pending, i>>
      /\ phase = "malloc" /\ marked = {}
  BY DEF Malloc, MarksCleared
<1>2. /\ objects \in Seq(Objects) /\ Len(objects) \in Nat
      /\ DOMAIN objects = 1..Len(objects)
  BY LenProperties DEF TypeOK
<1>3. /\ objects' \in Seq(Objects) /\ Len(objects') = Len(objects) + 1
      /\ objects'[1] = o /\ \A k \in 1..Len(objects) : objects'[k + 1] = objects[k]
  BY <1>2, Prepended DEF Malloc
<1>4. TypeOK'
  BY <1>1, <1>3, MallocEffect DEF TypeOK, Pointer
<1>5. HeapIsList'
  <2>1. DOMAIN objects' = 1..Len(objects) + 1
    BY <1>3, LenProperties
  <2>2. \A k \in DOMAIN objects' : k = 1 \/ (k - 1 \in DOMAIN objects /\ objects'[k] = objects[k - 1])
    <3> SUFFICES ASSUME NEW k \in DOMAIN objects', k # 1
                 PROVE  k - 1 \in DOMAIN objects /\ objects'[k] = objects[k - 1]
      OBVIOUS
    <3>1. k - 1 \in 1..Len(objects) /\ (k - 1) + 1 = k
      BY <1>2, <2>1
    <3>2. PICK m \in 1..Len(objects) : m = k - 1 /\ m + 1 = k
      BY <3>1
    <3>3. objects'[k] = objects[m]
      BY <1>3, <3>2
    <3> QED BY <1>2, <3>2, <3>3
  <2>3. \A k \in DOMAIN objects : objects[k] \in allocated
    BY DEF HeapIsList
  <2>4. {objects'[k] : k \in DOMAIN objects'} \subseteq allocated'
    BY <1>1, <1>3, <2>2, <2>3
  <2>5. allocated' \subseteq {objects'[k] : k \in DOMAIN objects'}
    <3> SUFFICES ASSUME NEW q \in allocated PROVE \E k \in DOMAIN objects' : objects'[k] = q
      BY <1>1, <1>2, <1>3, <2>1
    <3>1. PICK k \in DOMAIN objects : objects[k] = q
      BY DEF HeapIsList
    <3>2. k + 1 \in DOMAIN objects' /\ objects'[k + 1] = q
      BY <1>2, <1>3, <2>1, <3>1
    <3> QED BY <3>2
  <2>6. ASSUME NEW j \in DOMAIN objects', NEW k \in DOMAIN objects', objects'[j] = objects'[k]
        PROVE  j = k
    <3>1. o \notin allocated
      BY MallocEffect
    <3>2. CASE j = 1 \/ k = 1
      BY <1>3, <2>2, <2>3, <2>6, <3>1, <3>2
    <3>3. CASE j # 1 /\ k # 1
      <4>1. j - 1 = k - 1
        BY <2>2, <2>6, <3>3 DEF HeapIsList
      <4> QED BY <1>2, <2>1, <4>1
    <3> QED BY <3>2, <3>3
  <2>7. num_objects' = Len(objects')
    BY <1>1, <1>3 DEF HeapIsList
  <2> QED BY <2>4, <2>5, <2>6, <2>7 DEF HeapIsList
<1>6. CellsInv'
  <2>1. Roots' \subseteq allocated'
    BY <1>1, ClosedCells DEF Roots, H!Roots
  <2>2. Pointers(o)' \subseteq allocated'
    BY <1>1, MallocEffect DEF NoDangling, Pointers, H!Pointers
  <2>3. \A q \in allocated : q \in Objects /\ q # o
    BY MallocEffect DEF TypeOK
  <2>4. \A q \in allocated : Pointers(q)' \subseteq allocated'
    BY <1>1, <2>3, MallocEffect, ClosedCells DEF Pointers, H!Pointers
  <2>5. \A q \in Objects \ allocated' : refs'[q] = NoRefs
    BY <1>1, MallocEffect DEF CellsInv
  <2> QED BY <1>1, <2>1, <2>2, <2>4, <2>5, ClosedCellsNext
<1>7. NoDangling'
  <2>1. Roots' \subseteq allocated' /\ Closed(allocated)'
    BY <1>1, <1>6 DEF CellsInv
  <2>2. allocated' \subseteq Objects
    BY <1>4 DEF TypeOK
  <2> QED BY <2>1, <2>2, NothingDangles DEF NoDangling
<1>8. PointersInv' /\ MarksCleared' /\ MarkInv' /\ SweepInv' /\ GrowthInv'
  BY <1>1 DEF PointersInv, MarksCleared, MarkInv, SweepInv, GrowthInv
<1>9. DepthInv'
  BY <1>1, FS_EmptySet DEF DepthInv, DepthBounded
<1> QED BY <1>4, <1>5, <1>6, <1>7, <1>8, <1>9

LEMMA MallocFailsKeeps ==
  ASSUME IInv, MallocFails
  PROVE  IInv'
<1> USE DEF IInv
<1>1. /\ UNCHANGED <<heap, max_objects, client, collector>>
      /\ phase = "malloc" /\ phase' = "client" /\ request' = << >> /\ local = NULL
  BY DEF MallocFails, PointersInv
<1>2. /\ Reach' = Reach /\ Roots' = Roots /\ Closed(allocated)' = Closed(allocated)
      /\ HeapIsList'
  BY <1>1, SameHeap DEF client
<1>3. TypeOK'
  BY <1>1 DEF TypeOK, heap, client, collector
<1>4. NoDangling' /\ MarksCleared' /\ CellsInv' /\ SweepInv' /\ MarkInv' /\ GrowthInv'
  BY <1>1, <1>2 DEF NoDangling, MarksCleared, CellsInv, SweepInv, MarkInv, GrowthInv,
                    heap, collector
<1>5. PointersInv'
  BY <1>1 DEF PointersInv, client
<1>6. DepthInv'
  BY <1>1 DEF DepthInv, DepthBounded, collector
<1> QED BY <1>2, <1>3, <1>4, <1>5, <1>6
-----------------------------------------------------------------------------
(* Marking.                                                                *)

LEMMA MarkingKeeps ==
  ASSUME IInv, phase = "mark",
         UNCHANGED <<heap, max_objects, client, phase, request>>,
         pending' \in Seq(Seq(Pointer)), i' \in Nat \ {0},
         MarkInv', DepthInv'
  PROVE  IInv'
<1> USE DEF IInv
<1>1. /\ Reach' = Reach /\ Roots' = Roots /\ Closed(allocated)' = Closed(allocated)
      /\ HeapIsList'
  BY SameHeap DEF client
<1>2. marked' \subseteq Objects
  BY <1>1, ReachLeast DEF MarkInv
<1>3. TypeOK'
  BY <1>2 DEF TypeOK, heap, client
<1>4. NoDangling' /\ MarksCleared' /\ CellsInv' /\ SweepInv' /\ GrowthInv'
  BY <1>1 DEF NoDangling, MarksCleared, CellsInv, SweepInv, GrowthInv, heap
<1>5. PointersInv'
  BY <1>1 DEF PointersInv, client
<1> QED BY <1>1, <1>3, <1>4, <1>5

LEMMA MarkRootKeeps ==
  ASSUME IInv, MarkRoot
  PROVE  IInv'
<1> USE DEF IInv
<1>1. /\ phase = "mark" /\ i \in DOMAIN value_stack /\ i' = i + 1 /\ i \in Nat \ {0}
      /\ i <= Len(value_stack) /\ Len(value_stack) \in Nat
      /\ UNCHANGED <<heap, max_objects, client, marked, phase, request>>
  BY StackTyped DEF MarkRoot, TypeOK
<1> PICK v \in Value : v = value_stack[i]
  BY <1>1, StackTyped
<1>2. v # Integer => v \in Pointer /\ v \in Reach \cup {NULL}
  BY <1>1, StackTyped, ReachClosed DEF Value
<1>3. Awaited = {}
  BY DEF MarkRoot, Awaited, Held
<1>4. /\ pending' \in Seq(Seq(Pointer)) /\ Len(pending') \in {0, 1}
      /\ Awaited' = {v} \ {Integer}
  <2>1. CASE v = Integer
    <3>1. pending' = << >>
      BY <2>1 DEF MarkRoot
    <3> QED BY <2>1, <3>1 DEF Awaited, Held
  <2>2. CASE v # Integer
    <3>1. pending' = <<<<v>>>>
      BY <2>2 DEF MarkRoot
    <3>2. Held(<<<<v>>>>) = {v}
      BY <1>2, <2>2 DEF Held
    <3>3. <<<<v>>>> \in Seq(Seq(Pointer)) /\ Len(<<<<v>>>>) = 1
      BY <1>2, <2>2
    <3> QED BY <2>2, <3>1, <3>2, <3>3 DEF Awaited
  <2> QED BY <2>1, <2>2
<1>5. MarkInv'
  <2>1. Reach' = Reach /\ \A o : Pointers(o)' = Pointers(o)
    BY <1>1, SameHeap DEF client
  <2>2. /\ i' <= Len(value_stack') + 1 /\ marked' \subseteq Reach'
    BY <1>1, <2>1 DEF MarkInv, client
  <2>3. Awaited' \subseteq Reach' \cup {NULL}
    BY <1>2, <1>4, <2>1
  <2>4. \A k \in 1 .. i' - 1 : value_stack'[k] \in marked' \cup Awaited' \cup {NULL, Integer}
    <3> SUFFICES ASSUME NEW k \in 1..i
                 PROVE  value_stack[k] \in marked \cup Awaited' \cup {NULL, Integer}
      BY <1>1 DEF client
    <3>1. CASE k = i
      BY <1>4, <3>1
    <3>2. CASE k # i
      <4>1. k \in 1 .. i - 1
        BY <1>1, <3>2
      <4> QED BY <1>1, <1>3, <4>1 DEF MarkInv
    <3> QED BY <3>1, <3>2
  <2>5. \A o \in marked' : Pointers(o)' \subseteq marked' \cup Awaited'
    BY <1>1, <1>3, <2>1 DEF MarkInv
  <2> QED BY <2>2, <2>3, <2>4, <2>5 DEF MarkInv
<1>6. DepthInv'
  <2> PICK n \in Nat : n = Cardinality(marked)
    BY FS_CardinalityType DEF DepthInv
  <2>2. IsFiniteSet(marked') /\ Cardinality(marked') = n
    BY <1>1 DEF DepthInv
  <2>3. Len(pending') <= n + 1
    <3>1. \A a \in {0, 1} : a <= n + 1
      OBVIOUS
    <3> QED BY <1>4, <3>1
  <2> QED BY <2>2, <2>3 DEF DepthInv, DepthBounded
<1>7. i' \in Nat \ {0}
  BY <1>1
<1> QED BY <1>1, <1>4, <1>5, <1>6, <1>7, MarkingKeeps

\* One call returns or is made; the others stay to be made.
LEMMA CallAndOthers ==
  ASSUME TypeOK, Calling
  PROVE  /\ Called \in Pointer
         /\ Others \in Seq(Seq(Pointer)) /\ Len(Others) = Len(pending)
         /\ Len(pending) \in Nat
         /\ Awaited = Held(Others) \cup {Called}
<1>1. pending \in Seq(Seq(Pointer)) /\ pending # << >> /\ Head(pending) # << >>
  BY DEF TypeOK, Calling
<1> PICK h \in Seq(Pointer), t \in Seq(Seq(Pointer)) :
      /\ h = Head(pending) /\ t = Tail(pending)
      /\ Len(t) = Len(pending) - 1
      /\ Held(pending) = Held(t) \cup {h[j] : j \in DOMAIN h}
  BY <1>1, HeldTail
<1>2. Len(pending) \in Nat
  BY <1>1, LenProperties
<1> DEFINE r == Tail(h)
<1>3. /\ h # << >> /\ Head(h) \in Pointer /\ r \in Seq(Pointer) /\ Len(r) = Len(h) - 1
      /\ \A k \in 1..Len(r) : r[k] = h[k + 1]
  BY <1>1, HeadTailProperties
<1>4. /\ Len(h) \in Nat /\ Len(h) >= 1 /\ DOMAIN h = 1..Len(h) /\ DOMAIN r = 1..Len(r)
      /\ Head(h) = h[1]
  BY <1>3, LenProperties, EmptySeq
<1> HIDE DEF r
<1>5. {h[j] : j \in DOMAIN h} = {r[j] : j \in DOMAIN r} \cup {h[1]}
  <2> PICK m \in Nat : m = Len(r)
    BY <1>3, LenProperties
  <2>0. /\ DOMAIN r = 1..m /\ DOMAIN h = 1..m + 1
        /\ \A k \in 1..m : r[k] = h[k + 1]
    <3>1. Len(h) = m + 1
      BY <1>3, <1>4
    <3> QED BY <1>3, <1>4, <3>1
  <2>1. \A j \in DOMAIN r : j + 1 \in DOMAIN h /\ r[j] = h[j + 1]
    BY <2>0
  <2>2. ASSUME NEW j \in DOMAIN h, j # 1 PROVE \E k \in DOMAIN r : r[k] = h[j]
    <3>1. j - 1 \in 1..m /\ (j - 1) + 1 = j
      BY <2>0, <2>2
    <3>2. PICK k \in 1..m : k + 1 = j
      BY <3>1
    <3> QED BY <2>0, <3>2
  <2>3. 1 \in DOMAIN h
    BY <2>0
  <2> DEFINE P == {h[j] : j \in DOMAIN h}
             Q == {r[j] : j \in DOMAIN r} \cup {h[1]}
  <2>4. Q \subseteq P
    BY <2>1, <2>3
  <2>5. \A p \in P : p \in Q
    BY <2>2
  <2> HIDE DEF P, Q
  <2>6. P = Q
    BY <2>4, <2>5
  <2> QED BY <2>6 DEF P, Q
<1>6. /\ <<r>> \o t \in Seq(Seq(Pointer)) /\ Len(<<r>> \o t) = Len(t) + 1
      /\ Held(<<r>> \o t) = Held(t) \cup {r[j] : j \in DOMAIN r}
  BY <1>3, HeldPrepended
<1>7. Others = <<r>> \o t /\ Called = h[1]
  BY <1>4 DEF Others, Called, r
<1> HIDE DEF Others
<1>8. Len(Others) = Len(pending)
  BY <1>2, <1>6, <1>7
<1>9. Awaited = Held(Others) \cup {Called}
  BY <1>5, <1>6, <1>7 DEF Awaited
<1> QED BY <1>2, <1>3, <1>4, <1>6, <1>7, <1>8, <1>9

LEMMA MarkObjectKeeps ==
  ASSUME IInv, MarkObject
  PROVE  IInv'
<1> USE DEF IInv
<1>1. /\ phase = "mark" /\ Calling
      /\ UNCHANGED <<heap, max_objects, client, i, phase, request>>
  BY DEF MarkObject, Calling
<1>2. /\ Reach' = Reach /\ \A o : Pointers(o)' = Pointers(o)
  BY <1>1, SameHeap DEF client
<1>3. i' \in Nat \ {0} /\ i' <= Len(value_stack') + 1
  BY <1>1 DEF TypeOK, MarkInv, client
<1> PICK c \in Pointer : c = Called
  BY <1>1, CallAndOthers
<1> PICK rest \in Seq(Seq(Pointer)) : rest = Others
  BY <1>1, CallAndOthers
<1>4. /\ Len(rest) = Len(pending) /\ Len(pending) \in Nat
      /\ Awaited = Held(rest) \cup {c}
  BY <1>1, CallAndOthers
<1>5. /\ IsFiniteSet(marked) /\ Cardinality(marked) \in Nat
      /\ Len(pending) <= Cardinality(marked) + 1
  BY <1>1, FS_CardinalityType DEF DepthInv, DepthBounded
<1>6. CASE c = NULL \/ c \in marked
  <2>1. pending' = rest /\ marked' = marked
    BY <1>6 DEF MarkObject
  <2>2. Awaited' = Held(rest)
    BY <2>1 DEF Awaited
  <2>3. \A o \in marked : Pointers(o) \subseteq marked \cup Held(rest)
    BY <1>1, <1>4, <1>6 DEF MarkInv, Pointers, H!Pointers
  <2>4. \A k \in 1 .. i - 1 : value_stack[k] \in marked \cup Held(rest) \cup {NULL, Integer}
    BY <1>1, <1>4, <1>6 DEF MarkInv
  <2>5. MarkInv'
    BY <1>1, <1>2, <1>3, <1>4, <2>1, <2>2, <2>3, <2>4 DEF MarkInv, client
  <2>6. DepthInv'
    BY <1>4, <1>5, <2>1 DEF DepthInv, DepthBounded
  <2> QED BY <1>1, <1>3, <2>1, <2>5, <2>6, MarkingKeeps
<1>7. CASE ~(c = NULL \/ c \in marked)
  <2>1. pending' = <<refs[c]>> \o rest /\ marked' = marked \cup {c}
    BY <1>7 DEF MarkObject
  <2>2. c \in Objects /\ c \in Reach
    BY <1>1, <1>4, <1>7 DEF MarkInv, Pointer
  <2>3. PICK e \in Seq(Pointer) : e = refs[c] /\ DOMAIN e = {1, 2}
    BY <2>2, FieldsTyped
  <2>4. /\ pending' \in Seq(Seq(Pointer)) /\ Len(pending') = Len(rest) + 1
        /\ Awaited' = Held(rest) \cup {e[j] : j \in DOMAIN e}
    BY <2>1, <2>3, HeldPrepended DEF Awaited
  <2>5. {e[j] : j \in DOMAIN e} \subseteq Pointers(c) \cup {NULL}
        /\ Pointers(c) \subseteq {e[j] : j \in DOMAIN e}
    BY <2>3 DEF Pointers, H!Pointers
  <2>6. Pointers(c) \subseteq Reach
    BY <2>2, ReachClosed DEF Closed, H!Closed, Pointers
  <2>7. \A o \in marked' : Pointers(o) \subseteq marked' \cup Awaited'
    BY <1>1, <1>4, <2>1, <2>4, <2>5 DEF MarkInv
  <2>8. \A k \in 1 .. i - 1 : value_stack[k] \in marked' \cup Awaited' \cup {NULL, Integer}
    BY <1>1, <1>4, <2>1, <2>4 DEF MarkInv
  <2>9. marked' \subseteq Reach /\ Awaited' \subseteq Reach \cup {NULL}
    BY <1>1, <1>4, <2>1, <2>2, <2>4, <2>5, <2>6 DEF MarkInv
  <2>10. MarkInv'
    BY <1>1, <1>2, <1>3, <2>7, <2>8, <2>9 DEF MarkInv, client
  <2>11. DepthInv'
    <3>1. IsFiniteSet(marked') /\ Cardinality(marked') = Cardinality(marked) + 1
      BY <1>5, <1>7, <2>1, FS_AddElement
    <3> QED BY <1>4, <1>5, <2>4, <3>1 DEF DepthInv, DepthBounded
  <2> QED BY <1>1, <1>3, <2>4, <2>10, <2>11, MarkingKeeps
<1> QED BY <1>6, <1>7

LEMMA MarkReturnsKeeps ==
  ASSUME IInv, MarkReturns
  PROVE  IInv'
<1> USE DEF IInv
<1>1. /\ phase = "mark" /\ pending # << >> /\ Head(pending) = << >>
      /\ pending' = Tail(pending)
      /\ UNCHANGED <<heap, max_objects, client, marked, i, phase, request>>
  BY DEF MarkReturns
<1>2. /\ Reach' = Reach /\ \A o : Pointers(o)' = Pointers(o)
  BY <1>1, SameHeap DEF client
<1>3. /\ pending' \in Seq(Seq(Pointer)) /\ Len(pending') = Len(pending) - 1
      /\ Len(pending) \in Nat
      /\ Held(pending) = Held(pending') \cup {Head(pending)[j] : j \in DOMAIN Head(pending)}
  BY <1>1, HeldTail, LenProperties DEF TypeOK
<1>4. Awaited' = Awaited
  BY <1>1, <1>3 DEF Awaited
<1>5. MarkInv'
  BY <1>1, <1>2, <1>4 DEF MarkInv, client
<1>6. DepthInv'
  <2>1. Cardinality(marked) \in Nat
    BY FS_CardinalityType DEF DepthInv
  <2> QED BY <1>1, <1>3, <2>1 DEF DepthInv, DepthBounded
<1>7. i' \in Nat \ {0}
  BY <1>1 DEF TypeOK
<1> QED BY <1>1, <1>3, <1>5, <1>6, <1>7, MarkingKeeps

\* No call is left to be made: what is marked holds the roots and is closed.
LEMMA MarkedAll ==
  ASSUME IInv, MarkDone
  PROVE  marked = Reach
<1> USE DEF IInv
<1>1. phase = "mark" /\ pending = << >> /\ i > Len(value_stack)
  BY DEF MarkDone
<1>2. Awaited = {}
  BY <1>1 DEF Awaited, Held
<1>3. \A k \in DOMAIN value_stack : k \in 1 .. i - 1
  BY <1>1, StackTyped DEF TypeOK
<1>4. Roots \subseteq marked
  BY <1>1, <1>2, <1>3 DEF MarkInv, Roots, H!Roots
<1>5. Closed(marked)
  BY <1>1, <1>2 DEF MarkInv, Closed, H!Closed, Pointers
<1>6. marked \subseteq Reach /\ marked \subseteq Objects
  BY <1>1, ReachLeast DEF MarkInv
<1> QED BY <1>4, <1>5, <1>6, ReachLeast

LEMMA MarkDoneKeeps ==
  ASSUME IInv, MarkDone
  PROVE  IInv'
<1> USE DEF IInv
<1>1. /\ phase = "mark" /\ phase' = "sweep" /\ i' = 1
      /\ UNCHANGED <<heap, max_objects, client, marked, pending, request>>
  BY DEF MarkDone
<1>2. /\ Reach' = Reach /\ Roots' = Roots /\ Closed(allocated)' = Closed(allocated)
      /\ HeapIsList'
  BY <1>1, SameHeap DEF client
<1>3. TypeOK'
  BY <1>1 DEF TypeOK, heap, client
<1>4. SweepInv'
  <2>1. Kept' = {}
    BY <1>1 DEF Kept
  <2>2. i' <= Len(objects') + 1
    <3>1. Len(objects) \in Nat
      BY LenProperties DEF TypeOK
    <3> QED BY <1>1, <3>1 DEF heap
  <2> QED BY <1>1, <1>2, <2>1, <2>2, MarkedAll DEF SweepInv
<1>5. NoDangling' /\ MarksCleared' /\ CellsInv' /\ MarkInv' /\ GrowthInv'
  BY <1>1, <1>2 DEF NoDangling, MarksCleared, CellsInv, MarkInv, GrowthInv, heap
<1>6. PointersInv'
  BY <1>1, <1>2 DEF PointersInv, client
<1>7. DepthInv'
  BY <1>1 DEF DepthInv, DepthBounded
<1> QED BY <1>2, <1>3, <1>4, <1>5, <1>6, <1>7
-----------------------------------------------------------------------------
(* Sweeping.                                                               *)

\* The object that gc_sweep looks at is not one it has passed.
LEMMA SweepAt ==
  ASSUME IInv, phase = "sweep", i <= Len(objects)
  PROVE  /\ i \in DOMAIN objects /\ DOMAIN objects = 1..Len(objects)
         /\ Len(objects) \in Nat /\ i \in Nat \ {0}
         /\ objects[i] \in allocated /\ objects[i] \in Objects
         /\ objects[i] \notin Kept
         /\ {objects[k] : k \in 1..i} = Kept \cup {objects[i]}
<1> USE DEF IInv
<1>1. Len(objects) \in Nat /\ DOMAIN objects = 1..Len(objects) /\ i \in Nat \ {0}
  BY LenProperties DEF TypeOK
<1>2. i \in DOMAIN objects /\ \A k \in 1 .. i - 1 : k \in DOMAIN objects /\ k # i
  BY <1>1
<1>3. objects[i] \in allocated /\ objects[i] \in Objects
  BY <1>2 DEF HeapIsList, TypeOK
<1>4. objects[i] \notin Kept
  BY <1>2 DEF HeapIsList, Kept
<1>5. 1..i = (1 .. i - 1) \cup {i}
  BY <1>1
<1>6. {objects[k] : k \in 1..i} = Kept \cup {objects[i]}
  BY <1>5 DEF Kept
<1> QED BY <1>1, <1>2, <1>3, <1>4, <1>6

LEMMA SweepReachedKeeps ==
  ASSUME IInv, SweepReached
  PROVE  IInv'
<1> USE DEF IInv
<1>1. /\ phase = "sweep" /\ i <= Len(objects) /\ objects[i] \in marked
      /\ marked' = marked \ {objects[i]} /\ i' = i + 1
      /\ UNCHANGED <<heap, max_objects, client, pending, phase, request>>
  BY DEF SweepReached
<1>2. /\ Reach' = Reach /\ Roots' = Roots /\ Closed(allocated)' = Closed(allocated)
      /\ HeapIsList'
  BY <1>1, SameHeap DEF client
<1>3. i' \in Nat \ {0} /\ i' <= Len(objects) + 1 /\ i' - 1 = i
  BY <1>1, SweepAt
<1>4. TypeOK'
  BY <1>1, <1>3 DEF TypeOK, heap, client
<1>5. SweepInv'
  <2>1. Kept' = Kept \cup {objects[i]}
    BY <1>1, <1>3, SweepAt DEF Kept, heap
  <2>2. marked' \cap Kept' = {} /\ marked' \cup Kept' = Reach
    BY <1>1, <2>1 DEF SweepInv
  <2> QED BY <1>1, <1>2, <1>3, <2>2 DEF SweepInv, heap
<1>6. NoDangling' /\ MarksCleared' /\ CellsInv' /\ MarkInv' /\ GrowthInv'
  BY <1>1, <1>2 DEF NoDangling, MarksCleared, CellsInv, MarkInv, GrowthInv, heap
<1>7. PointersInv'
  BY <1>1, <1>2 DEF PointersInv, client
<1>8. DepthInv'
  BY <1>1, FS_RemoveElement DEF DepthInv, DepthBounded
<1> QED BY <1>2, <1>4, <1>5, <1>6, <1>7, <1>8

\* What a step of the sweep that frees leaves behind.
LEMMA FreeEffect ==
  ASSUME IInv, SweepUnreached
  PROVE  /\ objects[i] \notin Reach /\ objects[i] \in allocated
         /\ objects' \in Seq(Objects) /\ Len(objects') = Len(objects) - 1
         /\ \A k \in 1..Len(objects) - 1 :
              objects'[k] = IF k < i THEN objects[k] ELSE objects[k + 1]
         /\ \A q \in Objects : refs'[q] = IF q = objects[i] THEN NoRefs ELSE refs[q]
         /\ refs' \in [Objects -> Pointer \X Pointer]
         /\ Reach' = Reach /\ Kept' = Kept
<1> USE DEF IInv
<1>1. /\ phase = "sweep" /\ i <= Len(objects) /\ objects[i] \notin marked
      /\ UNCHANGED <<value_stack, i>>
  BY DEF SweepUnreached, client, collector
<1>2. objects[i] \notin Reach /\ objects[i] \in allocated
  BY <1>1, SweepAt DEF SweepInv
<1>3. /\ objects' \in Seq(Objects) /\ Len(objects') = Len(objects) - 1
      /\ \A k \in 1..Len(objects) - 1 :
           objects'[k] = IF k < i THEN objects[k] ELSE objects[k + 1]
  <2>1. objects \in Seq(Objects) /\ i \in 1..Len(objects)
    BY <1>1, SweepAt DEF TypeOK
  <2>2. objects' = RemoveAt(objects, i)
    BY DEF SweepUnreached
  <2> QED BY <2>1, <2>2, Removed
<1>4. /\ \A q \in Objects : refs'[q] = IF q = objects[i] THEN NoRefs ELSE refs[q]
      /\ refs' \in [Objects -> Pointer \X Pointer]
  BY DEF SweepUnreached, TypeOK, NoRefs, Pointer
<1>5. Reach' = Reach
  BY <1>1, <1>2, <1>4, ReachSame, ReachLeast
<1>6. Kept' = Kept
  <2>1. \A k \in 1 .. i - 1 : k \in 1..Len(objects) - 1 /\ k < i
    BY <1>1, SweepAt
  <2>2. \A k \in 1 .. i - 1 : objects'[k] = objects[k]
    BY <1>3, <2>1
  <2> QED BY <1>1, <2>2 DEF Kept
<1> QED BY <1>2, <1>3, <1>4, <1>5, <1>6

LEMMA SweepUnreachedKeeps ==
  ASSUME IInv, SweepUnreached
  PROVE  IInv'
<1> USE DEF IInv
<1> PICK o \in Objects : o = objects[i]
  BY SweepAt DEF SweepUnreached
<1>1. /\ phase = "sweep" /\ i <= Len(objects) /\ o \notin marked
      /\ allocated' = allocated \ {o} /\ num_objects' = num_objects - 1
      /\ UNCHANGED <<max_objects, client, collector, phase, request>>
  BY DEF SweepUnreached
<1>2. /\ Len(objects) \in Nat /\ i \in 1..Len(objects) /\ DOMAIN objects = 1..Len(objects)
  BY <1>1, SweepAt
<1>3. DOMAIN objects' = 1..Len(objects) - 1
  <2>1. DOMAIN objects' = 1..Len(objects')
    BY FreeEffect, LenProperties
  <2>2. Len(objects') = Len(objects) - 1
    BY FreeEffect
  <2> QED BY <2>1, <2>2
<1>4. num_objects' = Len(objects') /\ num_objects' \in Nat
  <2>1. Len(objects') = Len(objects) - 1 /\ num_objects = Len(objects)
    BY FreeEffect DEF HeapIsList
  <2> QED BY <1>1, <1>2, <2>1
<1>5. TypeOK'
  BY <1>1, <1>4, FreeEffect DEF TypeOK, client, collector
\* Where an element of the new list stood in the old one.
<1> DEFINE Was(k) == IF k < i THEN k ELSE k + 1
<1>6. \A k \in DOMAIN objects' : /\ Was(k) \in DOMAIN objects /\ Was(k) # i
                                 /\ objects'[k] = objects[Was(k)]
  <2> SUFFICES ASSUME NEW k \in 1..Len(objects) - 1
               PROVE  /\ Was(k) \in 1..Len(objects) /\ Was(k) # i
                      /\ objects'[k] = objects[Was(k)]
    BY <1>2, <1>3
  <2>1. objects'[k] = IF k < i THEN objects[k] ELSE objects[k + 1]
    BY FreeEffect
  <2>2. Was(k) \in 1..Len(objects) /\ Was(k) # i
    BY <1>2
  <2> QED BY <2>1, <2>2
<1>7. \A m \in DOMAIN objects : m # i => \E k \in DOMAIN objects' : Was(k) = m
  <2> SUFFICES ASSUME NEW m \in 1..Len(objects), m # i
               PROVE  \E k \in 1..Len(objects) - 1 : Was(k) = m
    BY <1>2, <1>3
  <2>1. CASE m < i
    <3>1. m \in 1..Len(objects) - 1 /\ Was(m) = m
      BY <1>2, <2>1
    <3> QED BY <3>1
  <2>2. CASE ~(m < i)
    <3>1. m - 1 \in 1..Len(objects) - 1 /\ Was(m - 1) = m
      BY <1>2, <2>2
    <3> QED BY <3>1
  <2> QED BY <2>1, <2>2
<1>8. \A j, k \in DOMAIN objects' : Was(j) = Was(k) => j = k
  BY <1>2, <1>3
<1> HIDE DEF Was
<1>9. HeapIsList'
  <2>1. {objects'[k] : k \in DOMAIN objects'} \subseteq allocated'
    <3> SUFFICES ASSUME NEW k \in DOMAIN objects' PROVE objects'[k] \in allocated \ {o}
      BY <1>1
    <3>1. objects[Was(k)] \in allocated /\ objects[Was(k)] # objects[i]
      BY <1>2, <1>6 DEF HeapIsList
    <3> QED BY <1>6, <3>1
  <2>2. ASSUME NEW q \in allocated' PROVE \E k \in DOMAIN objects' : objects'[k] = q
    <3>1. PICK m \in DOMAIN objects : objects[m] = q
      BY <1>1, <2>2 DEF HeapIsList
    <3>2. m # i
      BY <1>1, <2>2, <3>1
    <3> QED BY <1>6, <1>7, <3>1, <3>2
  <2>3. \A j, k \in DOMAIN objects' : objects'[j] = objects'[k] => j = k
    BY <1>6, <1>8 DEF HeapIsList
  <2> QED BY <1>4, <2>1, <2>2, <2>3 DEF HeapIsList
<1>10. NoDangling'
  BY <1>1, FreeEffect DEF NoDangling
<1>11. CellsInv'
  BY <1>1, FreeEffect DEF CellsInv
<1>12. SweepInv'
  <2>1. i <= Len(objects') + 1
    <3>1. Len(objects') = Len(objects) - 1
      BY FreeEffect
    <3> QED BY <1>2, <3>1
  <2> QED BY <1>1, <2>1, FreeEffect DEF SweepInv, collector
<1>13. MarksCleared' /\ MarkInv' /\ GrowthInv'
  BY <1>1 DEF MarksCleared, MarkInv, GrowthInv
<1>14. PointersInv'
  BY <1>1, FreeEffect DEF PointersInv, client
<1>15. DepthInv'
  BY <1>1 DEF DepthInv, DepthBounded, collector
<1> QED BY <1>5, <1>9, <1>10, <1>11, <1>12, <1>13, <1>14, <1>15

\* At the end of the list no mark is left, and what is left of the heap is what the
\* client can reach.
LEMMA SweptAll ==
  ASSUME IInv, SweepDone
  PROVE  marked = {} /\ Kept = allocated /\ allocated = Reach
<1> USE DEF IInv
<1>1. phase = "sweep" /\ i = Len(objects) + 1
      /\ Len(objects) \in Nat /\ DOMAIN objects = 1..Len(objects)
  BY LenProperties DEF SweepDone, SweepInv, TypeOK
<1>2. 1 .. i - 1 = DOMAIN objects
  BY <1>1
<1>3. Kept = allocated
  BY <1>2 DEF Kept, HeapIsList
<1>4. marked \cap Kept = {} /\ marked \cup Kept = Reach /\ Reach \subseteq allocated
  BY <1>1 DEF SweepInv, NoDangling
<1> QED BY <1>3, <1>4

LEMMA SweepDoneKeeps ==
  ASSUME IInv, SweepDone
  PROVE  IInv'
<1> USE DEF IInv
<1>1. /\ phase = "sweep" /\ i' = 1
      /\ max_objects' = IF num_objects * 2 < MinThreshold
                          THEN MinThreshold ELSE num_objects * 2
      /\ phase' = IF request = << >> THEN "client" ELSE "malloc"
      /\ UNCHANGED <<heap, client, marked, pending, request>>
  BY DEF SweepDone
<1>2. /\ Reach' = Reach /\ Roots' = Roots /\ Closed(allocated)' = Closed(allocated)
      /\ HeapIsList'
  BY <1>1, SameHeap DEF client
<1>3. max_objects' \in Nat /\ num_objects < max_objects' /\ num_objects \in Nat
  BY <1>1, BoundsAssumption DEF TypeOK
<1>4. TypeOK'
  BY <1>1, <1>3 DEF TypeOK, heap, client
<1>5. CellsInv'
  <2>1. Roots \subseteq allocated /\ Closed(allocated)
    BY SweptAll, ReachClosed
  <2> QED BY <1>1, <1>2, <2>1 DEF CellsInv, heap
<1>6. NoDangling' /\ MarksCleared' /\ MarkInv' /\ SweepInv' /\ GrowthInv'
  BY <1>1, <1>2, <1>3, SweptAll
  DEF NoDangling, MarksCleared, MarkInv, SweepInv, GrowthInv, heap
<1>7. PointersInv'
  BY <1>1, <1>2 DEF PointersInv, client
<1>8. DepthInv'
  BY <1>1 DEF DepthInv, DepthBounded
<1> QED BY <1>2, <1>4, <1>5, <1>6, <1>7, <1>8
-----------------------------------------------------------------------------
LEMMA Initially == Init => IInv
<1> SUFFICES ASSUME Init PROVE IInv
  OBVIOUS
<1>1. TypeOK
  <2>1. refs \in [Objects -> Pointer \X Pointer]
    BY DEF Init, NoRefs, Pointer
  <2>2. max_objects \in Nat /\ Len(value_stack) <= VM_STACK_MAX
    BY BoundsAssumption DEF Init
  <2>3. /\ objects \in Seq(Objects) /\ value_stack \in Seq(Value)
        /\ pending \in Seq(Seq(Pointer)) /\ num_objects \in Nat
    BY DEF Init
  <2>4. auto_gc \in BOOLEAN
    BY DEF Init
  <2>5. /\ allocated \subseteq Objects /\ local \in Pointer /\ marked \subseteq Objects
        /\ phase \in {"client", "mark", "sweep", "malloc", "destroyed"}
        /\ request \in (Pointer \X Pointer) \cup {<< >>} /\ i \in Nat \ {0}
    BY DEF Init, Pointer
  <2> QED BY <2>1, <2>2, <2>3, <2>4, <2>5 DEF TypeOK
<1>2. HeapIsList
  BY DEF Init, HeapIsList
<1>3. Roots = {} /\ Closed({})
  BY DEF Init, Roots, H!Roots, Closed, H!Closed
<1>4. Reach = {}
  BY <1>3, ReachLeast
<1>5. CellsInv
  BY <1>3 DEF Init, CellsInv
<1>6. /\ NoDangling /\ MarksCleared /\ PointersInv /\ MarkInv /\ SweepInv /\ GrowthInv
  BY <1>4 DEF Init, NoDangling, MarksCleared, PointersInv, MarkInv, SweepInv, GrowthInv
<1>7. DepthInv
  BY FS_EmptySet DEF Init, DepthInv, DepthBounded
<1> QED BY <1>1, <1>2, <1>5, <1>6, <1>7 DEF IInv

LEMMA StepKeeps == IInv /\ [Next]_vars => IInv'
<1> SUFFICES ASSUME IInv, [Next]_vars PROVE IInv'
  OBVIOUS
<1>1. CASE UNCHANGED vars
  <2>1. /\ UNCHANGED <<heap, max_objects, client, collector, phase, request>>
        /\ Reach' = Reach /\ Roots' = Roots /\ Closed(allocated)' = Closed(allocated)
    BY <1>1, SameHeap DEF vars, client
  <2> QED
    BY <2>1
    DEF IInv, TypeOK, HeapIsList, NoDangling, MarksCleared, CellsInv, PointersInv, MarkInv,
        Awaited, Held, Pointers, H!Pointers, SweepInv, Kept, DepthInv, DepthBounded,
        GrowthInv, heap, client, collector
<1>2. CASE ClientStep
  <2>1. Collect => BeginCollection(<< >>)
    BY DEF Collect
  <2> QED
    BY <1>2, <2>1, BeginKeeps, NewKeeps, PushKeeps, PopKeeps, SetFieldKeeps,
       SetAutoCollectKeeps, CleanupKeeps
    DEF ClientStep
<1>3. CASE (\E o \in Objects : Malloc(o)) \/ MallocFails
  BY <1>3, MallocKeeps, MallocFailsKeeps
<1>4. CASE CollectorStep
  BY <1>4, MarkRootKeeps, MarkObjectKeeps, MarkReturnsKeeps, MarkDoneKeeps,
     SweepUnreachedKeeps, SweepReachedKeeps, SweepDoneKeeps
  DEF CollectorStep
<1> QED BY <1>1, <1>2, <1>3, <1>4 DEF Next, Destroyed

LEMMA Invariance == Spec => []IInv
BY Initially, StepKeeps, PTL DEF Spec
-----------------------------------------------------------------------------
\* Every variable of gc.c and its client keeps its type, on any heap: the fields of
\* an object are objects or NULL, and the value stack never exceeds VM_STACK_MAX.
THEOREM TypeCorrect == Spec => []TypeOK
<1>1. IInv => TypeOK
  BY DEF IInv
<1> QED BY <1>1, Invariance, PTL

\* The links that gc_alloc_object and gc_sweep rewrite always hold exactly the
\* objects malloc gave and free has not got back, each of them once.
THEOREM ListIsHeap == Spec => []HeapIsList
<1>1. IInv => HeapIsList
  BY DEF IInv
<1> QED BY <1>1, Invariance, PTL

\* gc_sweep frees nothing that the client can reach from the value stack, for
\* graphs of any shape, in the midst of a collection as well as after it.
THEOREM NothingReachableFreed == Spec => []NoDangling
<1>1. IInv => NoDangling
  BY DEF IInv
<1> QED BY <1>1, Invariance, PTL

\* When gc_collect returns, gc_sweep has cleared every mark that gc_mark_object set.
THEOREM NoMarkSurvives == Spec => []MarksCleared
<1>1. IInv => MarksCleared
  BY DEF IInv
<1> QED BY <1>1, Invariance, PTL

\* gc_mark_roots marks what can be reached and nothing else: each later survivor of
\* gc_sweep is one of these.
THEOREM MarkingIsExact == Spec => []MarkedIsReach
<1>1. IInv => MarkedIsReach
  BY DEF IInv, SweepInv, MarkedIsReach
<1> QED BY <1>1, Invariance, PTL

\* gc_mark_object has at most one open call for each marked object.
THEOREM RecursionBounded == Spec => []DepthBounded
<1>1. IInv => DepthBounded
  BY DEF IInv, DepthInv
<1> QED BY <1>1, Invariance, PTL

\* gc_alloc_object keeps num_objects within max_objects while auto_gc is set, with
\* the threshold that gc_collect chooses and whatever was allocated without it.
THEOREM GrowthIsBounded == Spec => GrowthBounded
<1>1. IInv /\ [Next]_vars =>
        [num_objects' > num_objects /\ auto_gc => num_objects' <= max_objects']_vars
  <2> SUFFICES ASSUME IInv, [Next]_vars, num_objects' > num_objects, auto_gc
               PROVE  num_objects' <= max_objects'
    OBVIOUS
  <2>1. num_objects \in Nat /\ max_objects \in Nat
    BY DEF IInv, TypeOK
  <2>2. \E o \in Objects : Malloc(o)
    <3>1. CASE num_objects' \in {num_objects, num_objects - 1, 0}
      BY <2>1, <3>1
    <3>2. CASE ClientStep
      <4>1. num_objects' \in {num_objects, 0}
        BY <3>2 DEF ClientStep, New, Collect, BeginCollection, Push, Pop, SetField,
                    SetAutoCollect, Cleanup, heap
      <4> QED BY <3>1, <4>1
    <3>3. CASE MallocFails \/ CollectorStep \/ UNCHANGED vars
      <4>1. num_objects' \in {num_objects, num_objects - 1}
        BY <3>3 DEF MallocFails, CollectorStep, MarkRoot, MarkObject, MarkReturns, MarkDone,
                    SweepUnreached, SweepReached, SweepDone, vars, heap
      <4> QED BY <3>1, <4>1
    <3> QED BY <3>2, <3>3 DEF Next, Destroyed
  <2>3. num_objects' = num_objects + 1 /\ max_objects' = max_objects /\ phase = "malloc"
    BY <2>2 DEF Malloc
  <2>4. num_objects < max_objects
    BY <2>3 DEF IInv, GrowthInv
  <2> QED BY <2>1, <2>3, <2>4
<1> QED BY <1>1, Invariance, PTL DEF Spec, GrowthBounded
-----------------------------------------------------------------------------
(* The collector implements the abstract heap.                             *)

LEMMA BarOutsideSweep ==
  ASSUME TypeOK, CellsInv, phase # "sweep"
  PROVE  cellsBar = allocated /\ refsBar = refs
<1>1. cellsBar = allocated
  BY DEF cellsBar, Sweeping
<1>2. \A o \in Objects : refsBar[o] = refs[o]
  BY <1>1 DEF refsBar, CellsInv
<1>3. refsBar = [o \in Objects |-> refsBar[o]] /\ refs = [o \in Objects |-> refs[o]]
  BY DEF refsBar, TypeOK
<1> QED BY <1>1, <1>2, <1>3

LEMMA BarOutsideSweepNext ==
  ASSUME TypeOK', CellsInv', phase' # "sweep"
  PROVE  cellsBar' = allocated' /\ refsBar' = refs'
<1>1. cellsBar' = allocated'
  BY DEF cellsBar, Sweeping
<1>2. \A o \in Objects : refsBar'[o] = refs'[o]
  BY <1>1 DEF refsBar, CellsInv
<1>3. refsBar' = [o \in Objects |-> refsBar'[o]] /\ refs' = [o \in Objects |-> refs'[o]]
  BY DEF refsBar, TypeOK
<1> QED BY <1>1, <1>2, <1>3

LEMMA ClientImplements ==
  ASSUME IInv, IInv', ClientStep
  PROVE  [A!HeapNext]_A!hvars
<1> USE DEF IInv
<1>1. phase = "client" /\ phase' # "sweep"
  BY DEF ClientStep, New, Collect, BeginCollection, Push, Pop, SetField, SetAutoCollect,
         Cleanup
<1>2. cellsBar = allocated /\ refsBar = refs /\ cellsBar' = allocated' /\ refsBar' = refs'
  BY <1>1, BarOutsideSweep, BarOutsideSweepNext
<1>3. /\ Reach \subseteq allocated /\ local \in allocated \cup {NULL}
      /\ allocated \subseteq Objects
  BY <1>1 DEF NoDangling, PointersInv, TypeOK
<1>4. CASE UNCHANGED <<heap, value_stack>>
  BY <1>2, <1>4 DEF A!hvars, heap
<1>5. ASSUME NEW v \in Reach \cup {NULL, Integer, local}, Push(v)
      PROVE  [A!HeapNext]_A!hvars
  <2>1. CASE Len(value_stack) >= VM_STACK_MAX
    BY <1>4, <1>5, <2>1 DEF Push
  <2>2. CASE ~(Len(value_stack) >= VM_STACK_MAX)
    <3>1. v \in allocated \cup {NULL, Integer} /\ v \in Pointer \cup {Integer}
      BY <1>3 DEF Pointer
    <3>2. value_stack' = Append(value_stack, v) /\ UNCHANGED heap
      BY <1>5, <2>2 DEF Push
    <3>3. A!PushValue(v)
      BY <1>2, <3>1, <3>2 DEF A!PushValue, heap
    <3> QED BY <3>1, <3>3 DEF A!HeapNext, A!Pointer, Pointer
  <2> QED BY <2>1, <2>2
<1>6. CASE Pop
  <2>1. CASE value_stack = << >>
    BY <1>4, <1>6, <2>1 DEF Pop
  <2>2. CASE value_stack # << >>
    <3>1. value_stack' = SubSeq(value_stack, 1, Len(value_stack) - 1) /\ UNCHANGED heap
      BY <1>6, <2>2 DEF Pop
    <3>2. A!PopValue
      BY <1>2, <2>2, <3>1 DEF A!PopValue, heap
    <3> QED BY <3>2 DEF A!HeapNext
  <2> QED BY <2>1, <2>2
<1>7. ASSUME NEW o \in Reach, NEW side \in 1..2, NEW p \in Reach \cup {NULL, local},
             SetField(o, side, p)
      PROVE  A!HeapNext
  <2>1. o \in Objects /\ o \in allocated /\ p \in Pointer /\ p \in allocated \cup {NULL}
    BY <1>3 DEF Pointer
  <2>2. A!Write(o, side, p)
    BY <1>2, <1>7, <2>1 DEF A!Write, SetField, client
  <2> QED BY <2>1, <2>2 DEF A!HeapNext, A!Pointer, Pointer
<1>8. CASE Cleanup
  <2>1. A!FreeAll
    BY <1>2, <1>8 DEF A!FreeAll, A!NoRefs, NoRefs, Cleanup, client
  <2> QED BY <2>1 DEF A!HeapNext
<1>9. ASSUME NEW left, NEW right, New(left, right) PROVE UNCHANGED <<heap, value_stack>>
  BY <1>9 DEF New, BeginCollection
<1>10. (\E enabled \in BOOLEAN : SetAutoCollect(enabled)) \/ Collect
         => UNCHANGED <<heap, value_stack>>
  BY DEF SetAutoCollect, Collect, BeginCollection
<1> QED BY <1>4, <1>5, <1>6, <1>7, <1>8, <1>9, <1>10 DEF ClientStep

LEMMA MallocImplements ==
  ASSUME IInv, IInv', NEW o \in Objects, Malloc(o)
  PROVE  A!HeapNext
<1> USE DEF IInv
<1>1. phase = "malloc" /\ phase' = "client"
  BY DEF Malloc
<1>2. cellsBar = allocated /\ refsBar = refs /\ cellsBar' = allocated' /\ refsBar' = refs'
  BY <1>1, BarOutsideSweep, BarOutsideSweepNext
<1>3. PICK left \in Pointer, right \in Pointer : request = <<left, right>>
  BY MallocEffect
<1>4. {left, right} \subseteq allocated \cup {NULL}
  <2>1. request[1] = left /\ request[2] = right
    BY <1>3
  <2> QED BY <1>1, <2>1, MallocEffect DEF NoDangling
<1>5. A!Allocate(o, left, right)
  BY <1>2, <1>3, <1>4, MallocEffect DEF A!Allocate, Malloc
<1> QED BY <1>5 DEF A!HeapNext, A!Pointer, Pointer

\* The whole of a collection takes effect when marking ends.
LEMMA MarkDoneImplements ==
  ASSUME IInv, IInv', MarkDone
  PROVE  [A!HeapNext]_A!hvars
<1> USE DEF IInv
<1>1. /\ phase = "mark" /\ phase' = "sweep" /\ i' = 1
      /\ UNCHANGED <<heap, client, marked>>
  BY DEF MarkDone
<1>2. cellsBar = allocated /\ refsBar = refs
  BY <1>1, BarOutsideSweep
<1>3. cellsBar' = Reach
  BY <1>1, MarkedAll DEF cellsBar, Sweeping, Kept
<1>4. refsBar' = [o \in Objects |-> IF o \in Reach THEN refs[o] ELSE NoRefs]
  BY <1>1, <1>3 DEF refsBar, heap
<1>5. A!Reach = Reach
  BY <1>2 DEF A!Reach, A!Roots, A!Closed, A!Pointers, Reach, H!Reach, H!Roots, H!Closed,
              H!Pointers
<1>6. CASE cellsBar' = cellsBar
  <2>1. \A o \in Objects : refsBar'[o] = refs[o]
    BY <1>2, <1>3, <1>4, <1>6 DEF CellsInv
  <2>2. refs = [o \in Objects |-> refs[o]] /\ refsBar' = [o \in Objects |-> refsBar'[o]]
    BY <1>4 DEF TypeOK
  <2> QED BY <1>1, <1>2, <1>6, <2>1, <2>2 DEF A!hvars, client
<1>7. CASE cellsBar' # cellsBar
  <2>1. A!FreeUnreachable
    BY <1>1, <1>2, <1>3, <1>4, <1>5, <1>7 DEF A!FreeUnreachable, A!NoRefs, NoRefs, client
  <2> QED BY <2>1 DEF A!HeapNext
<1> QED BY <1>6, <1>7

\* Sweeping changes nothing that the client could tell.
LEMMA SweepStutters ==
  ASSUME IInv, IInv', SweepUnreached \/ SweepReached \/ SweepDone
  PROVE  UNCHANGED A!hvars
<1> USE DEF IInv
<1>1. phase = "sweep" /\ UNCHANGED value_stack
  BY DEF SweepUnreached, SweepReached, SweepDone, client
<1>2. cellsBar = Reach
  BY <1>1 DEF cellsBar, Sweeping, SweepInv
<1>3. cellsBar' = Reach /\ \A o \in Reach : refs'[o] = refs[o]
  <2>1. CASE SweepUnreached
    <3>1. phase' = "sweep" /\ Reach' = Reach /\ \A o \in Reach : refs'[o] = refs[o]
      BY <1>1, <2>1, FreeEffect, ReachLeast DEF SweepUnreached
    <3> QED BY <3>1 DEF cellsBar, Sweeping, SweepInv
  <2>2. CASE SweepReached
    <3>1. phase' = "sweep" /\ UNCHANGED heap
      BY <1>1, <2>2 DEF SweepReached
    <3>2. Reach' = Reach
      BY <1>1, <3>1, SameHeap
    <3> QED BY <3>1, <3>2 DEF cellsBar, Sweeping, SweepInv, heap
  <2>3. CASE SweepDone
    <3>1. phase' # "sweep" /\ UNCHANGED heap
      BY <2>3 DEF SweepDone
    <3> QED BY <2>3, <3>1, SweptAll DEF cellsBar, Sweeping, heap
  <2> QED BY <2>1, <2>2, <2>3
<1>4. refsBar' = refsBar
  BY <1>2, <1>3 DEF refsBar
<1> QED BY <1>1, <1>2, <1>3, <1>4 DEF A!hvars

\* For the client of gc.c the heap behaves as if each collection freed at once all
\* that it cannot reach, and nothing else ever moved or changed.
THEOREM CollectorImplementsHeap == Spec => ImplementsHeap
<1>1. Init => A!HeapInit
  <2> SUFFICES ASSUME Init PROVE A!HeapInit
    OBVIOUS
  <2>1. cellsBar = {}
    BY DEF Init, cellsBar, Sweeping
  <2>2. refsBar = [o \in Objects |-> NoRefs]
    BY <2>1 DEF refsBar
  <2> QED BY <2>1, <2>2 DEF Init, A!HeapInit, A!NoRefs, NoRefs
<1>2. IInv /\ IInv' /\ [Next]_vars => [A!HeapNext]_A!hvars
  <2> SUFFICES ASSUME IInv, IInv', [Next]_vars PROVE [A!HeapNext]_A!hvars
    OBVIOUS
  <2>1. ASSUME UNCHANGED <<heap, value_stack>>, phase # "sweep", phase' # "sweep"
        PROVE  UNCHANGED A!hvars
    <3>1. cellsBar = allocated /\ refsBar = refs /\ cellsBar' = allocated' /\ refsBar' = refs'
      BY <2>1, BarOutsideSweep, BarOutsideSweepNext DEF IInv
    <3> QED BY <2>1, <3>1 DEF A!hvars, heap
  <2>2. CASE MarkRoot \/ MarkObject \/ MarkReturns \/ MallocFails
    BY <2>1, <2>2 DEF MarkRoot, MarkObject, MarkReturns, MallocFails, Calling, client
  <2>3. CASE UNCHANGED vars
    BY <2>3
    DEF vars, heap, client, collector, A!hvars, cellsBar, refsBar, Sweeping, Kept
  <2> QED
    BY <2>2, <2>3, ClientImplements, MallocImplements, MarkDoneImplements, SweepStutters
    DEF Next, CollectorStep, Destroyed
<1> QED BY <1>1, <1>2, Invariance, PTL DEF Spec, ImplementsHeap, A!HeapSpec
================================================================================
