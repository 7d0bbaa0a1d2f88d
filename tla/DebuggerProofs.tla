---------------------------- MODULE DebuggerProofs ----------------------------
(***************************************************************************)
(* The debugger drives the interpreter only through steps the interpreter  *)
(* allows any host, so what VMProofs proves of VM holds in every session.  *)
(* What the debugger adds is proved for all compiled files, any number of  *)
(* breakpoints and every order of the commands.                            *)
(***************************************************************************)
EXTENDS Debugger, CompiledCodeProofs, WellFoundedInduction

LEMMA StepsMap == [DebuggerNext]_dvars => [Next]_vars
<1> SUFFICES ASSUME [DebuggerNext]_dvars PROVE [Next]_vars
  OBVIOUS
<1>1. CASE Open \/ Interactive
  BY <1>1 DEF Open, Interactive, Next
<1>2. CASE \E line \in Lines : AddBreakpoint(line) \/ RemoveBreakpoint(line)
  BY <1>2 DEF AddBreakpoint, RemoveBreakpoint
<1>3. CASE StepInstruction \/ NextBegin \/ ContinueFirst
  BY <1>3 DEF StepInstruction, NextBegin, ContinueFirst, Next
<1>4. CASE Turn
  BY <1>4 DEF Turn, NextTurn, ContinueHit, ContinueTurn, DebuggeeTraps, Next
<1>5. CASE Quit \/ Over \/ UNCHANGED dvars
  BY <1>5 DEF Quit, Over, dvars
<1> QED BY <1>1, <1>2, <1>3, <1>4, <1>5 DEF DebuggerNext

(* Every session is a behaviour of the interpreter: breakpoints and lines are *)
(* bookkeeping, and resuming after a fault is a call any host could make.     *)
THEOREM SessionIsRun == DebuggerSpec => Spec
<1>1. DebuggerInit => Init
  BY DEF DebuggerInit
<1> QED BY <1>1, StepsMap, PTL DEF DebuggerSpec, Spec

(* In every session, whatever is resumed after whatever fault, the machine's  *)
(* values stay in range and an error stops the loops of next and continue.    *)
THEOREM SessionSafe == DebuggerSpec => [](TypeOK /\ ErrorStops)
<1>1. Spec => [](TypeOK /\ ErrorStops)
  BY TypeCorrect, ErrorsStop, PTL
<1> QED BY <1>1, SessionIsRun
-----------------------------------------------------------------------------
(* The first and the last index that a search of a sequence can find. *)

LEMMA Smallest ==
  ASSUME NEW T \in SUBSET Nat, T # {}
  PROVE  \E m \in T : \A k \in T : m <= k
<1> DEFINE R == OpToRel(<, Nat)
<1>1. IsWellFoundedOn(R, Nat)
  BY NatLessThanWellFounded
<1>2. \A x, y \in Nat : <<y, x>> \in R <=> y < x
  BY DEF OpToRel
<1> HIDE DEF R
<1>3. PICK m \in T : \A y \in T : <<y, m>> \notin R
  BY <1>1, WFMin
<1>4. \A y \in T : ~(y < m)
  BY <1>2, <1>3
<1> QED BY <1>3, <1>4

LEMMA Largest ==
  ASSUME NEW n \in Nat, NEW T \in SUBSET (0..n), T # {}
  PROVE  \E m \in T : \A k \in T : m >= k
<1> DEFINE U == {n - k : k \in T}
<1>1. U \in SUBSET Nat
  OBVIOUS
<1>2. U # {}
  OBVIOUS
<1>3. PICK m \in U : \A k \in U : m <= k
  <2> HIDE DEF U
  <2> QED BY <1>1, <1>2, Smallest
<1>4. PICK t \in T : m = n - t
  BY <1>3
<1>5. ASSUME NEW k \in T PROVE t >= k
  <2>1. n - k \in U
    BY <1>5
  <2>2. n - t <= n - k
    BY <1>3, <1>4, <2>1
  <2> QED BY <2>2
<1> QED BY <1>5

Mapping == [bytecode_offset : Nat, source_line : Nat \ {0}]
MapOK == source_map \in Seq(Mapping)
              /\ (source_map # << >> => source_map[1].bytecode_offset = 0)

(* The source map of a program that has a line gives every offset one, since  *)
(* its first entry is at offset 0; an empty one gives line 0 throughout.      *)
LEMMA LineAtIs ==
  ASSUME MapOK, NEW at \in Nat
  PROVE  /\ LineAt(at) \in Nat
         /\ source_map # << >> => LineAt(at) > 0
         /\ source_map = << >> => LineAt(at) = 0
<1> DEFINE I == {k \in 1..Len(source_map) : source_map[k].bytecode_offset <= at}
           last == IF I # {} THEN Max(I) ELSE 0
<1>1. LineAt(at) = IF last = 0 THEN 0 ELSE source_map[last].source_line
  BY DEF LineAt, SelectLastInSeq
<1>2. Len(source_map) \in Nat /\ \A k \in 1..Len(source_map) : source_map[k] \in Mapping
  BY LenProperties, ElementOfSeq DEF MapOK
<1>3. ASSUME I # {} PROVE last \in 1..Len(source_map)
  <2>1. I \in SUBSET (0..Len(source_map))
    BY <1>2
  <2>2. \E m \in I : \A k \in I : m >= k
    <3> HIDE DEF I
    <3> QED BY <1>2, <1>3, <2>1, Largest
  <2>3. Max(I) \in I
    BY <2>2 DEF Max
  <2> QED BY <1>3, <2>3
<1>4. ASSUME source_map # << >> PROVE 1 \in I
  <2>1. 1 \in 1..Len(source_map)
    BY <1>2, <1>4, EmptySeq DEF MapOK
  <2> QED BY <1>4, <2>1 DEF MapOK
<1>5. ASSUME source_map = << >> PROVE I = {}
  <2>1. Len(source_map) = 0
    BY <1>5
  <2> QED BY <1>2, <2>1
<1>6. last # 0 => source_map[last].source_line \in Nat \ {0}
  BY <1>2, <1>3 DEF Mapping
<1>7. source_map # << >> => last # 0
  <2> HIDE DEF I
  <2> QED BY <1>2, <1>3, <1>4
<1>8. source_map = << >> => last = 0
  BY <1>5
<1> HIDE DEF last
<1> QED BY <1>1, <1>6, <1>7, <1>8

(* Without a source map every breakpoint is refused. *)
LEMMA PcForLineIs ==
  ASSUME source_map = << >>, NEW line
  PROVE  ~(PcForLine(line) >= 0)
<1>1. {k \in 1..Len(source_map) : source_map[k].source_line = line} = {}
  <2>1. Len(source_map) = 0
    OBVIOUS
  <2> QED BY <2>1
<1>2. PcForLine(line) = -1
  BY <1>1 DEF PcForLine, SelectInSeq
<1> QED BY <1>2

LEMMA LineKept ==
  ASSUME source_map' = source_map
  PROVE  Line' = LineAt(pc')
BY DEF Line, LineAt, SelectLastInSeq
-----------------------------------------------------------------------------
-----------------------------------------------------------------------------
(* The invariant of a session.  LastLineCurrent needs that a line is known   *)
(* at every offset or at none, and that pc is 0 until the first prompt;      *)
(* NoBreakpointMissed that continue, while it goes, has last_line and the    *)
(* line executed last agree; HaltIsFinal that a VM at rest without an error  *)
(* is at the end of its code; DeleteForgets that no line is held twice.      *)

EmptyMap == source_map = << >> => breakpoints = << >> /\ last_line = 0 /\ executed = 0

NoneTwice == \A j, k \in 1..Len(breakpoints) : breakpoints[j] = breakpoints[k] => j = k

ContinueLine == command = "continue" /\ ~resumed => executed = last_line

Phases ==
  /\ host \in {"idle", "killed"}
  /\ command = "create" => source_map = << >>
  /\ ~Opened => pc = 0 /\ host = "idle"
  /\ command \in {"next", "continue"} => running

CodeOK == WholeCode(code, Starts[code]) /\ pc \in Starts[code]
Loaded == command # "create" => CodeOK

RestsAtEnd == Opened /\ ~running /\ error = "VM_OK" => pc = Len(code)

SInv ==
  /\ IInv
  /\ DebuggerTypeOK
  /\ MapOK /\ EmptyMap
  /\ NoneTwice
  /\ LastLineCurrent
  /\ ContinueLine
  /\ Phases
  /\ Loaded
  /\ RestsAtEnd

(* The entry that delete takes out is one that holds the line. *)
LEMMA FoundBreakpoint ==
  ASSUME breakpoints \in Seq(Lines), NEW line \in Breakpoints
  PROVE  LET at == SelectInSeq(breakpoints, LAMBDA b : b = line)
         IN  at \in 1..Len(breakpoints) /\ breakpoints[at] = line
<1> DEFINE I == {k \in 1..Len(breakpoints) : breakpoints[k] = line}
<1>1. I \in SUBSET Nat
  OBVIOUS
<1>2. I # {}
  BY DEF Breakpoints, ToSet
<1>3. \E m \in I : \A k \in I : m <= k
  <2> HIDE DEF I
  <2> QED BY <1>1, <1>2, Smallest
<1>4. Min(I) \in I
  BY <1>3 DEF Min
<1>5. SelectInSeq(breakpoints, LAMBDA b : b = line) = Min(I)
  BY <1>2 DEF SelectInSeq
<1> QED BY <1>4, <1>5

(* delete on a table that holds no line twice. *)
LEMMA RemoveEffect ==
  ASSUME breakpoints \in Seq(Lines), NoneTwice, NEW line, RemoveBreakpoint(line)
  PROVE  /\ breakpoints' \in Seq(Lines)
         /\ Len(breakpoints') = Len(breakpoints) - 1
         /\ NoneTwice'
         /\ Breakpoints' = Breakpoints \ {line}
<1> DEFINE n == Len(breakpoints)
           at == SelectInSeq(breakpoints, LAMBDA b : b = line)
           from(k) == IF k = at THEN n ELSE k
<1>1. line \in Breakpoints
  BY DEF RemoveBreakpoint
<1>2. at \in 1..n /\ breakpoints[at] = line
  BY <1>1, FoundBreakpoint
<1>3. breakpoints' = [k \in 1..n - 1 |-> breakpoints[from(k)]]
  BY DEF RemoveBreakpoint
<1>4. n \in Nat /\ \A k \in 1..n : breakpoints[k] \in Lines
  BY LenProperties, ElementOfSeq
<1>5. \A j, k \in 1..n : breakpoints[j] = breakpoints[k] => j = k
  BY DEF NoneTwice
<1> HIDE DEF at, n
<1>6. n - 1 \in Nat /\ \A k \in 1..n - 1 : from(k) \in 1..n /\ from(k) # at
  BY <1>2, <1>4
<1>7. \A j, k \in 1..n - 1 : from(j) = from(k) => j = k
  BY <1>2, <1>4
<1>8. breakpoints' \in Seq(Lines) /\ Len(breakpoints') = n - 1
  BY <1>3, <1>4, <1>6
<1>9. \A k \in 1..n - 1 : breakpoints'[k] = breakpoints[from(k)]
  BY <1>3
<1>10. NoneTwice'
  <2> HIDE DEF from
  <2> QED BY <1>5, <1>6, <1>7, <1>8, <1>9 DEF NoneTwice
<1>11. Breakpoints' = {breakpoints'[k] : k \in 1..n - 1}
  BY <1>3 DEF Breakpoints, ToSet
<1>12. Breakpoints = {breakpoints[k] : k \in 1..n}
  BY LenProperties DEF Breakpoints, ToSet, n
<1>13. ASSUME NEW k \in 1..n - 1 PROVE breakpoints'[k] \in Breakpoints \ {line}
  <2> HIDE DEF from
  <2>1. from(k) \in 1..n /\ from(k) # at
    BY <1>6
  <2>2. breakpoints[from(k)] # line
    BY <1>2, <1>5, <2>1
  <2> QED BY <1>9, <1>12, <2>1, <2>2
<1>14. ASSUME NEW k \in 1..n, breakpoints[k] # line
       PROVE  \E j \in 1..n - 1 : breakpoints'[j] = breakpoints[k]
  <2>1. k # at
    BY <1>2, <1>14
  <2>2. CASE k = n
    <3>1. at \in 1..n - 1 /\ from(at) = k
      BY <1>2, <1>4, <2>1, <2>2
    <3> QED BY <1>9, <3>1
  <2>3. CASE k # n
    <3>1. k \in 1..n - 1 /\ from(k) = k
      BY <1>4, <2>1, <2>3
    <3> QED BY <1>9, <3>1
  <2> QED BY <2>2, <2>3
<1>15. Breakpoints' \subseteq Breakpoints \ {line}
  BY <1>11, <1>13
<1>16. Breakpoints \ {line} \subseteq Breakpoints'
  BY <1>11, <1>12, <1>14
<1> QED BY <1>8, <1>10, <1>15, <1>16 DEF n

(* One instruction in a session: the machine stays well, pc goes to another   *)
(* instruction, and its line is known if any is.                              *)
LEMMA StepEffect ==
  ASSUME SInv, Step, command # "create", source_map' = source_map
  PROVE  /\ IInv'
         /\ CodeOK'
         /\ ~running' /\ error' = "VM_OK" => pc' = Len(code')
         /\ running' \in BOOLEAN
         /\ host' = "idle" /\ UNCHANGED code
         /\ MapOK'
         /\ Line \in Nat /\ LineAt(pc') \in Nat /\ Line' = LineAt(pc')
         /\ source_map # << >> => Line > 0 /\ LineAt(pc') > 0
         /\ source_map = << >> => Line = 0 /\ LineAt(pc') = 0
<1>1. IInv' /\ Effect
  <2>1. IInv'
    BY NextInv DEF SInv, Next
  <2> QED BY <2>1, ExecuteEffect DEF Step, SInv, IInv
<1>2. UNCHANGED <<code, host>> /\ host = "idle" /\ Execute /\ TypeOK /\ TypeOK' /\ CodeOK
  BY <1>1 DEF Step, SInv, IInv, Loaded
<1>3. pc' \in Starts[code] /\ (Halted => pc' = Len(code))
  <2>1. PICK starts : starts = Starts[code]
    OBVIOUS
  <2> QED BY <1>2, <2>1, ExecuteMoves DEF CodeOK
<1>4. CodeOK'
  BY <1>2, <1>3 DEF CodeOK
<1>5. ~running' /\ error' = "VM_OK" => pc' = Len(code')
  BY <1>1, <1>2, <1>3 DEF Effect, Verdict
<1>6. pc \in Nat /\ pc' \in Nat /\ running' \in BOOLEAN
  BY <1>1, <1>2 DEF TypeOK, Effect
<1>7. MapOK /\ MapOK'
  BY DEF SInv, MapOK
<1>8. /\ Line \in Nat /\ LineAt(pc') \in Nat
      /\ source_map # << >> => Line > 0 /\ LineAt(pc') > 0
      /\ source_map = << >> => Line = 0 /\ LineAt(pc') = 0
  <2>1. PICK at \in Nat : at = pc'
    BY <1>6
  <2>2. /\ LineAt(at) \in Nat
        /\ source_map # << >> => LineAt(at) > 0
        /\ source_map = << >> => LineAt(at) = 0
    BY <1>7, LineAtIs
  <2>3. /\ LineAt(pc) \in Nat
        /\ source_map # << >> => LineAt(pc) > 0
        /\ source_map = << >> => LineAt(pc) = 0
    BY <1>6, <1>7, LineAtIs
  <2> QED BY <2>1, <2>2, <2>3 DEF Line
<1>9. Line' = LineAt(pc')
  BY LineKept
<1> QED BY <1>1, <1>2, <1>4, <1>5, <1>6, <1>7, <1>8, <1>9
-----------------------------------------------------------------------------
LEMMA SessionInit == DebuggerInit => SInv
<1> SUFFICES ASSUME DebuggerInit PROVE SInv
  OBVIOUS
<1>1. IInv
  BY InitInv DEF DebuggerInit
<1>2. /\ source_map = << >> /\ breakpoints = << >> /\ last_line = 0 /\ command = "create"
      /\ start_line = 0 /\ executed = 0 /\ resumed = FALSE /\ pc = 0 /\ host = "idle"
  BY DEF DebuggerInit, Init
<1>3. << >> \in Seq(Mapping) /\ << >> \in Seq(Lines) /\ Len(<< >>) = 0
  OBVIOUS
<1>4. DebuggerTypeOK
  <2>1. source_map \in Seq(Mapping) /\ breakpoints \in Seq(Lines) /\ Len(breakpoints) = 0
    BY <1>2, <1>3
  <2>2. last_line \in Nat /\ start_line \in Nat /\ executed \in Nat /\ resumed \in BOOLEAN
    BY <1>2
  <2>3. command \in {"create", "start", "prompt", "next", "continue", "quit"}
    BY <1>2
  <2>4. TypeOK /\ Len(breakpoints) <= MAX_BREAKPOINTS
    BY <1>1, <2>1, BreakpointsAssumption DEF IInv
  <2> QED BY <2>1, <2>2, <2>3, <2>4 DEF DebuggerTypeOK, Mapping
<1>5. MapOK /\ EmptyMap /\ NoneTwice
  BY <1>2, <1>3 DEF MapOK, EmptyMap, NoneTwice
<1>6. LastLineCurrent /\ ContinueLine /\ Phases /\ Loaded /\ RestsAtEnd
  BY <1>2 DEF LastLineCurrent, ContinueLine, Phases, Loaded, RestsAtEnd, Opened
<1> QED BY <1>1, <1>4, <1>5, <1>6 DEF SInv

(* What a command that leaves code, pc and source map alone must see to. *)
LEMMA StillThere ==
  ASSUME SInv, UNCHANGED <<code, pc, source_map>>, command # "create", command' # "create"
  PROVE  /\ MapOK' /\ Loaded'
         /\ source_map' \in Seq(Mapping)
         /\ Line' = Line
<1>1. Line' = Line
  BY LineKept DEF Line
<1> QED BY <1>1 DEF SInv, MapOK, Loaded, CodeOK

LEMMA SessionNext == SInv /\ [DebuggerNext]_dvars => SInv'
<1> SUFFICES ASSUME SInv, [DebuggerNext]_dvars PROVE SInv'
  OBVIOUS
<1>0. IInv' /\ TypeOK' /\ IInv /\ DebuggerTypeOK
  <2>1. IInv'
    BY NextInv, StepsMap DEF SInv
  <2> QED BY <2>1 DEF IInv, SInv
<1>1. CASE Open
  <2>1. PICK f \in Files : f.code = code' /\ source_map' = f.source_map
    BY <1>1 DEF Open
  <2>2. WholeCode(code', Starts[code'])
    BY <2>1, FilesAssumption
  <2>3. source_map' \in Seq(Mapping)
             /\ (source_map' # << >> => source_map'[1].bytecode_offset = 0)
    BY <2>1, FilesAssumption DEF Mapping
  <2>4. /\ pc' = 0 /\ host' = "idle" /\ command' = "start" /\ command = "create"
        /\ UNCHANGED <<breakpoints, last_line, start_line, executed, resumed>>
    BY <1>1 DEF Open, LoadProgram, LoadCode
  <2>5. DebuggerTypeOK'
    BY <1>0, <2>3, <2>4 DEF DebuggerTypeOK, Mapping
  <2>6. MapOK' /\ EmptyMap' /\ NoneTwice'
    BY <2>3, <2>4 DEF SInv, MapOK, EmptyMap, NoneTwice, Phases
  <2>7. LastLineCurrent' /\ ContinueLine' /\ Phases' /\ RestsAtEnd'
    BY <2>4 DEF LastLineCurrent, ContinueLine, Phases, RestsAtEnd, Opened
  <2>8. Loaded'
    BY <2>2, <2>4 DEF Loaded, CodeOK, WholeCode
  <2> QED BY <1>0, <2>5, <2>6, <2>7, <2>8 DEF SInv
<1>2. CASE Interactive
  <2>1. /\ command = "start" /\ command' = "prompt" /\ last_line' = LineAt(0)
        /\ UNCHANGED <<source_map, breakpoints, start_line, executed, resumed>>
        /\ UNCHANGED <<code, pc, host>> /\ running' = TRUE /\ error' = "VM_OK"
        /\ pc = 0 /\ host = "idle"
    BY <1>2 DEF Interactive, Resume, Proceed, SInv, Phases, Opened
  <2>2. MapOK' /\ Loaded' /\ source_map' \in Seq(Mapping) /\ Line' = Line
    BY <2>1, StillThere
  <2>3. Line = LineAt(0) /\ LineAt(0) \in Nat /\ (source_map = << >> => LineAt(0) = 0)
    BY <2>1, LineAtIs DEF Line, SInv
  <2>4. DebuggerTypeOK'
    BY <1>0, <2>1, <2>2, <2>3 DEF DebuggerTypeOK, Mapping
  <2>5. EmptyMap' /\ NoneTwice'
    BY <2>1, <2>3 DEF SInv, EmptyMap, NoneTwice
  <2>6. LastLineCurrent' /\ ContinueLine' /\ Phases' /\ RestsAtEnd'
    BY <2>1, <2>2, <2>3 DEF LastLineCurrent, ContinueLine, Phases, RestsAtEnd, Opened
  <2> QED BY <1>0, <2>2, <2>4, <2>5, <2>6 DEF SInv
<1>3. ASSUME NEW line \in Lines, AddBreakpoint(line) PROVE SInv'
  <2> DEFINE more == Append(breakpoints, line)
  <2>1. /\ command = "prompt" /\ Len(breakpoints) < MAX_BREAKPOINTS
        /\ line \notin Breakpoints /\ PcForLine(line) >= 0 /\ breakpoints' = more
        /\ UNCHANGED <<source_map, last_line, command, start_line, executed, resumed>>
        /\ UNCHANGED <<code, pc, running, error, host>>
    BY <1>3 DEF AddBreakpoint, vars
  <2>2. MapOK' /\ Loaded' /\ source_map' \in Seq(Mapping) /\ Line' = Line
    BY <2>1, StillThere
  <2>3. breakpoints \in Seq(Lines) /\ Len(breakpoints) \in Nat
    BY <1>0, LenProperties DEF DebuggerTypeOK
  <2>4. /\ more \in Seq(Lines) /\ Len(more) = Len(breakpoints) + 1
        /\ \A k \in 1..Len(breakpoints) : more[k] = breakpoints[k]
        /\ more[Len(breakpoints) + 1] = line
    BY <2>3, AppendProperties
  <2>5. \A k \in 1..Len(breakpoints) : breakpoints[k] # line
    BY <2>1, <2>3 DEF Breakpoints, ToSet
  <2> HIDE DEF more
  <2>6. DebuggerTypeOK'
    BY <1>0, <2>1, <2>2, <2>3, <2>4, BreakpointsAssumption DEF DebuggerTypeOK, Mapping
  <2>7. NoneTwice'
    <3>1. \A j, k \in 1..Len(breakpoints) : breakpoints[j] = breakpoints[k] => j = k
      BY DEF SInv, NoneTwice
    <3>2. \A j, k \in 1..Len(more) : more[j] = more[k] => j = k
      BY <2>3, <2>4, <2>5, <3>1
    <3> QED BY <2>1, <3>2 DEF NoneTwice
  <2>8. EmptyMap'
    BY <2>1, PcForLineIs DEF EmptyMap
  <2>9. LastLineCurrent' /\ ContinueLine' /\ Phases' /\ RestsAtEnd'
    BY <2>1, <2>2 DEF SInv, LastLineCurrent, ContinueLine, Phases, RestsAtEnd, Opened
  <2> QED BY <1>0, <2>2, <2>6, <2>7, <2>8, <2>9 DEF SInv
<1>4. ASSUME NEW line \in Lines, RemoveBreakpoint(line) PROVE SInv'
  <2>1. /\ command = "prompt" /\ line \in Breakpoints
        /\ UNCHANGED <<source_map, last_line, command, start_line, executed, resumed>>
        /\ UNCHANGED <<code, pc, running, error, host>>
    BY <1>4 DEF RemoveBreakpoint, vars
  <2>2. MapOK' /\ Loaded' /\ source_map' \in Seq(Mapping) /\ Line' = Line
    BY <2>1, StillThere
  <2>3. /\ breakpoints \in Seq(Lines) /\ Len(breakpoints) \in Nat
        /\ Len(breakpoints) <= MAX_BREAKPOINTS
    BY <1>0, LenProperties DEF DebuggerTypeOK
  <2>4. /\ breakpoints' \in Seq(Lines) /\ Len(breakpoints') = Len(breakpoints) - 1
        /\ NoneTwice'
    BY <1>4, <2>3, RemoveEffect DEF SInv
  <2>5. Len(breakpoints') <= MAX_BREAKPOINTS
    BY <2>3, <2>4, BreakpointsAssumption
  <2>6. DebuggerTypeOK'
    BY <1>0, <2>1, <2>2, <2>4, <2>5 DEF DebuggerTypeOK, Mapping
  <2>7. EmptyMap'
    <3>1. breakpoints # << >>
      BY <2>1 DEF Breakpoints, ToSet
    <3> QED BY <2>1, <3>1 DEF SInv, EmptyMap
  <2>8. LastLineCurrent' /\ ContinueLine' /\ Phases' /\ RestsAtEnd'
    BY <2>1, <2>2 DEF SInv, LastLineCurrent, ContinueLine, Phases, RestsAtEnd, Opened
  <2> QED BY <1>0, <2>2, <2>4, <2>6, <2>7, <2>8 DEF SInv
<1>5. ASSUME StepInstruction \/ NextTurn \/ ContinueFirst \/ ContinueTurn PROVE SInv'
  <2>1. /\ command \in {"prompt", "next", "continue"} /\ Step /\ executed' = Line
        /\ UNCHANGED <<source_map, breakpoints>>
    BY <1>5 DEF StepInstruction, NextTurn, ContinueFirst, ContinueTurn
  <2>2. /\ CodeOK'
        /\ ~running' /\ error' = "VM_OK" => pc' = Len(code')
        /\ running' \in BOOLEAN
        /\ host' = "idle" /\ MapOK'
        /\ Line \in Nat /\ LineAt(pc') \in Nat /\ Line' = LineAt(pc')
        /\ source_map # << >> => Line > 0 /\ LineAt(pc') > 0
        /\ source_map = << >> => Line = 0 /\ LineAt(pc') = 0
    BY <2>1, StepEffect
  <2>3. last_line \in Nat /\ start_line \in Nat /\ resumed \in BOOLEAN /\ running \in BOOLEAN
    BY <1>0 DEF DebuggerTypeOK, TypeOK
  <2>4. source_map = << >> => last_line = 0
    BY DEF SInv, EmptyMap
  <2>5. /\ last_line' \in Nat /\ start_line' \in Nat /\ resumed' \in BOOLEAN
        /\ command' \in {"prompt", "next", "continue"}
        /\ command' \in {"next", "continue"} => running'
        /\ source_map = << >> => last_line' = 0
        /\ command' = "prompt" /\ running' => last_line' = Line'
        /\ command' = "continue" /\ ~resumed' => executed' = last_line'
    <3>1. CASE StepInstruction
      BY <2>1, <2>2, <2>3, <2>4, <3>1 DEF StepInstruction
    <3>2. CASE NextTurn
      <4>1. CASE LineAt(pc') # start_line /\ LineAt(pc') > 0
        BY <2>1, <2>2, <2>3, <2>4, <3>2, <4>1 DEF NextTurn
      <4>2. CASE ~(LineAt(pc') # start_line /\ LineAt(pc') > 0)
        BY <2>1, <2>2, <2>3, <2>4, <3>2, <4>2 DEF NextTurn, Continued
      <4> QED BY <4>1, <4>2
    <3>3. CASE ContinueFirst
      <4>1. host = "idle" /\ (running => last_line = Line)
        BY <2>1, <3>3 DEF SInv, LastLineCurrent, ContinueFirst, Step
      <4> QED BY <2>1, <2>2, <2>3, <2>4, <3>3, <4>1 DEF ContinueFirst, Continued
    <3>4. CASE ContinueTurn
      BY <2>1, <2>2, <2>3, <2>4, <3>4 DEF ContinueTurn, Continued
    <3> QED BY <1>5, <3>1, <3>2, <3>3, <3>4
  <2>6. DebuggerTypeOK'
    BY <1>0, <2>1, <2>2, <2>5 DEF DebuggerTypeOK
  <2>7. EmptyMap' /\ NoneTwice'
    BY <2>1, <2>2, <2>5 DEF SInv, EmptyMap, NoneTwice
  <2>8. LastLineCurrent' /\ ContinueLine' /\ Phases' /\ Loaded' /\ RestsAtEnd'
    BY <2>1, <2>2, <2>5 DEF LastLineCurrent, ContinueLine, Phases, Loaded, RestsAtEnd, Opened
  <2> QED BY <1>0, <2>2, <2>6, <2>7, <2>8 DEF SInv
<1>6. CASE NextBegin
  <2>1. /\ command = "prompt" /\ command' = "next" /\ start_line' = Line
        /\ UNCHANGED <<source_map, breakpoints, last_line, executed, resumed>>
        /\ UNCHANGED <<code, pc, host>> /\ running' = TRUE /\ error' = "VM_OK"
    BY <1>6 DEF NextBegin, Resume, Proceed
  <2>2. MapOK' /\ Loaded' /\ source_map' \in Seq(Mapping)
    BY <2>1, StillThere
  <2>3. Line \in Nat
    BY <1>0, LineAtIs DEF Line, SInv, DebuggerTypeOK, TypeOK
  <2>4. DebuggerTypeOK'
    BY <1>0, <2>1, <2>2, <2>3 DEF DebuggerTypeOK, Mapping
  <2>5. EmptyMap' /\ NoneTwice'
    BY <2>1 DEF SInv, EmptyMap, NoneTwice
  <2>6. LastLineCurrent' /\ ContinueLine' /\ Phases' /\ RestsAtEnd'
    BY <2>1 DEF SInv, LastLineCurrent, ContinueLine, Phases, RestsAtEnd, Opened
  <2> QED BY <1>0, <2>2, <2>4, <2>5, <2>6 DEF SInv
<1>7. CASE ContinueHit
  <2>1. /\ command = "continue" /\ command' = "prompt" /\ last_line' = Line /\ Line > 0
        /\ resumed' = FALSE
        /\ UNCHANGED <<source_map, breakpoints, start_line, executed>>
        /\ UNCHANGED <<code, pc, running, error, host>>
    BY <1>7 DEF ContinueHit, AtBreakpoint, vars
  <2>2. MapOK' /\ Loaded' /\ source_map' \in Seq(Mapping) /\ Line' = Line
    BY <2>1, StillThere
  <2>3. Line \in Nat /\ (source_map = << >> => Line = 0)
    BY <1>0, LineAtIs DEF Line, SInv, DebuggerTypeOK, TypeOK
  <2>4. DebuggerTypeOK'
    BY <1>0, <2>1, <2>2, <2>3 DEF DebuggerTypeOK, Mapping
  <2>5. EmptyMap' /\ NoneTwice'
    BY <2>1, <2>3 DEF SInv, EmptyMap, NoneTwice
  <2>6. LastLineCurrent' /\ ContinueLine' /\ Phases' /\ RestsAtEnd'
    BY <2>1, <2>2 DEF SInv, LastLineCurrent, ContinueLine, Phases, RestsAtEnd, Opened
  <2> QED BY <1>0, <2>2, <2>4, <2>5, <2>6 DEF SInv
<1>8. CASE DebuggeeTraps
  <2>1. /\ command \in {"prompt", "next", "continue"} /\ host' = "killed"
        /\ UNCHANGED <<source_map, breakpoints, last_line, command, start_line, executed, resumed>>
        /\ UNCHANGED <<code, pc, running, error>>
    BY <1>8 DEF DebuggeeTraps, Trap, session
  <2>2. MapOK' /\ Loaded' /\ source_map' \in Seq(Mapping)
    BY <2>1, StillThere
  <2>3. DebuggerTypeOK' /\ EmptyMap' /\ NoneTwice'
    BY <1>0, <2>1 DEF SInv, DebuggerTypeOK, EmptyMap, NoneTwice
  <2>4. LastLineCurrent' /\ ContinueLine' /\ Phases' /\ RestsAtEnd'
    BY <2>1 DEF SInv, LastLineCurrent, ContinueLine, Phases, RestsAtEnd, Opened
  <2> QED BY <1>0, <2>2, <2>3, <2>4 DEF SInv
<1>9. CASE Quit
  <2>1. /\ command = "prompt" /\ command' = "quit"
        /\ UNCHANGED <<source_map, breakpoints, last_line, start_line, executed, resumed>>
        /\ UNCHANGED <<code, pc, running, error, host>>
    BY <1>9 DEF Quit, vars
  <2>2. MapOK' /\ Loaded' /\ source_map' \in Seq(Mapping)
    BY <2>1, StillThere
  <2>3. DebuggerTypeOK' /\ EmptyMap' /\ NoneTwice'
    BY <1>0, <2>1 DEF SInv, DebuggerTypeOK, EmptyMap, NoneTwice
  <2>4. LastLineCurrent' /\ ContinueLine' /\ Phases' /\ RestsAtEnd'
    BY <2>1 DEF SInv, LastLineCurrent, ContinueLine, Phases, RestsAtEnd, Opened
  <2> QED BY <1>0, <2>2, <2>3, <2>4 DEF SInv
<1>10. CASE Over \/ UNCHANGED dvars
  <2>1. /\ UNCHANGED <<source_map, breakpoints, last_line, command, start_line, executed, resumed>>
        /\ UNCHANGED <<code, pc, running, error, host>>
    BY <1>10 DEF Over, dvars, vars, session
  <2>2. Line' = Line
    BY <2>1, LineKept DEF Line
  <2>3. DebuggerTypeOK' /\ MapOK' /\ EmptyMap' /\ NoneTwice'
    BY <1>0, <2>1 DEF SInv, DebuggerTypeOK, MapOK, EmptyMap, NoneTwice
  <2>4. Loaded' /\ LastLineCurrent' /\ ContinueLine' /\ Phases' /\ RestsAtEnd'
    BY <2>1, <2>2 DEF SInv, Loaded, CodeOK, LastLineCurrent, ContinueLine, Phases, RestsAtEnd, Opened
  <2> QED BY <1>0, <2>3, <2>4 DEF SInv
<1> QED
  BY <1>1, <1>2, <1>3, <1>4, <1>5, <1>6, <1>7, <1>8, <1>9, <1>10 DEF DebuggerNext, Turn

LEMMA SessionInvariance == DebuggerSpec => []SInv
BY SessionInit, SessionNext, PTL DEF DebuggerSpec

(* The table of breakpoints never outgrows its bound, and the lines that the  *)
(* commands keep are line numbers, through every loop of next and continue.   *)
THEOREM SessionTyped == DebuggerSpec => []DebuggerTypeOK
BY SessionInvariance, PTL DEF SInv

(* Whatever commands, breakpoints and faults have led to it, a prompt at which *)
(* the program can go on shows the line of the next instruction.              *)
THEOREM PromptShowsLine == DebuggerSpec => []LastLineCurrent
BY SessionInvariance, PTL DEF SInv

(* continue enters no line past its breakpoint, for every source map that has *)
(* the first instruction; the second instruction after a fault is excepted.   *)
THEOREM NoneMissed == DebuggerSpec => NoBreakpointMissed
<1> DEFINE Stops ==
      command = "continue" /\ ~resumed /\ pc' # pc /\ Line \in Breakpoints => executed = Line
<1>1. SInv /\ [DebuggerNext]_dvars => [Stops]_dvars
  <2> SUFFICES ASSUME SInv, DebuggerNext, command = "continue", ~resumed, pc' # pc,
                      Line \in Breakpoints
               PROVE  executed = Line
    OBVIOUS
  <2>1. ContinueTurn
    BY DEF DebuggerNext, Open, Interactive, AddBreakpoint, RemoveBreakpoint, StepInstruction,
           NextBegin, ContinueFirst, Turn, NextTurn, ContinueHit, DebuggeeTraps, Trap, Quit,
           Over, dvars, vars
  <2>2. Line > 0
    <3>1. breakpoints # << >>
      BY DEF Breakpoints, ToSet
    <3>2. source_map # << >> /\ MapOK /\ pc \in Nat
      BY <3>1 DEF SInv, EmptyMap, DebuggerTypeOK, TypeOK
    <3> QED BY <3>2, LineAtIs DEF Line
  <2>3. Line = last_line
    BY <2>1, <2>2 DEF ContinueTurn, AtBreakpoint
  <2> QED BY <2>3 DEF SInv, ContinueLine
<1> QED BY <1>1, SessionInvariance, PTL DEF DebuggerSpec, NoBreakpointMissed

(* delete takes out the line it is given and no other.                        *)
THEOREM DeletedIsGone == DebuggerSpec => DeleteForgets
<1> DEFINE Forgets ==
      \A line \in Lines : RemoveBreakpoint(line) => Breakpoints' = Breakpoints \ {line}
<1>1. SInv => [Forgets]_dvars
  BY RemoveEffect DEF SInv, DebuggerTypeOK
<1> QED BY <1>1, SessionInvariance, PTL DEF DeleteForgets

(* Compiled code rests without an error only at its end, where no command     *)
(* sets it running again.                                                     *)
THEOREM HaltedStays == DebuggerSpec => HaltIsFinal
<1> DEFINE Stays ==
      command = "prompt" /\ ~running /\ error = "VM_OK" => UNCHANGED <<pc, data, running>>
<1>1. SInv /\ [DebuggerNext]_dvars => [Stays]_dvars
  <2> SUFFICES ASSUME SInv, DebuggerNext, command = "prompt", ~running, error = "VM_OK"
               PROVE  UNCHANGED <<pc, data, running>>
    OBVIOUS
  <2>1. ~Goes
    <3>1. pc = Len(code) /\ Len(code) \in Nat
      BY LenProperties DEF SInv, RestsAtEnd, Opened, DebuggerTypeOK, TypeOK
    <3> QED BY <3>1 DEF Goes
  <2> QED
    BY <2>1 DEF DebuggerNext, Open, Interactive, AddBreakpoint, RemoveBreakpoint,
       StepInstruction, NextBegin, ContinueFirst, Turn, NextTurn, ContinueHit, ContinueTurn,
       DebuggeeTraps, Quit, Over, dvars, vars, data
<1> QED BY <1>1, SessionInvariance, PTL DEF DebuggerSpec, HaltIsFinal
-----------------------------------------------------------------------------
(* A session as the process table sees it. *)

LEMMA ManagerInit == DebuggerInit => PM!Init
<1> SUFFICES ASSUME DebuggerInit PROVE PM!Init
  OBVIOUS
<1>1. command = "create" /\ host = "idle"
  BY DEF DebuggerInit, Init
<1> QED BY <1>1 DEF PM!Init, Table, Pid, VMTable, OpenCall, InSession, Opened

(* Nothing the process table sees has changed. *)
LEMMA ManagerStutters ==
  ASSUME UNCHANGED <<command, host, running, error, pc, code>>
  PROVE  UNCHANGED PM!vars
BY DEF PM!vars, Table, Pid, VMTable, OpenCall, InSession, Opened, EntryState, Seen

(* At the prompt and inside next and continue the table has one entry, with   *)
(* its VM, and the call of pm_debug is open.                                  *)
LEMMA DuringSession ==
  ASSUME command \in {"prompt", "next", "continue"}, host = "idle"
  PROVE  /\ Table = <<[pid |-> 1, state |-> "PAUSED", vm |-> 1]>>
         /\ Pid = 2 /\ VMTable = <<Seen>> /\ OpenCall = "pm_debug" /\ InSession
BY DEF Table, Pid, VMTable, OpenCall, InSession, Opened, EntryState

LEMMA DuringSessionNext ==
  ASSUME command' \in {"prompt", "next", "continue"}, host' = "idle"
  PROVE  /\ Table' = <<[pid |-> 1, state |-> "PAUSED", vm |-> 1]>>
         /\ Pid' = 2 /\ VMTable' = <<Seen'>> /\ OpenCall' = "pm_debug" /\ InSession'
BY DEF Table, Pid, VMTable, OpenCall, InSession, Opened, EntryState

LEMMA ManagerNext == SInv /\ SInv' /\ [DebuggerNext]_dvars => [PM!Next]_(PM!vars)
<1> SUFFICES ASSUME SInv, SInv', [DebuggerNext]_dvars PROVE [PM!Next]_(PM!vars)
  OBVIOUS
<1>0. Seen \in PM!VMView /\ Seen' \in PM!VMView
  <2>1. running \in BOOLEAN /\ running' \in BOOLEAN
    BY DEF SInv, DebuggerTypeOK, TypeOK
  <2> QED BY <2>1 DEF Seen, PM!VMView
<1>1. CASE Open
  <2>1. command = "create" /\ command' = "start" /\ host = "idle" /\ host' = "idle"
    BY <1>1 DEF Open, LoadProgram, LoadCode
  <2>2. /\ Table = << >> /\ Table' = <<[pid |-> 1, state |-> "SUBMITTED", vm |-> 0]>>
        /\ Pid = 1 /\ Pid' = 2 /\ VMTable = << >> /\ VMTable' = << >>
        /\ OpenCall = "prompt" /\ OpenCall' = "prompt" /\ ~InSession /\ ~InSession'
    BY <2>1 DEF Table, Pid, VMTable, OpenCall, InSession, Opened, EntryState
  <2>3. PM!Submit
    BY <2>2 DEF PM!Submit
  <2> QED BY <2>2, <2>3 DEF PM!Next, PM!Command
<1>2. CASE Interactive
  <2>1. /\ command = "start" /\ command' = "prompt" /\ host = "idle" /\ host' = "idle"
        /\ running' = TRUE /\ error' = "VM_OK" /\ pc' = 0 /\ code' = code
    BY <1>2 DEF Interactive, Resume, Proceed, SInv, Phases, Opened
  <2>2. /\ Table = <<[pid |-> 1, state |-> "SUBMITTED", vm |-> 0]>>
        /\ Pid = 2 /\ VMTable = << >> /\ OpenCall = "prompt" /\ ~InSession
    BY <2>1 DEF Table, Pid, VMTable, OpenCall, InSession, Opened, EntryState
  <2>3. /\ Table' = <<[pid |-> 1, state |-> "PAUSED", vm |-> 1]>>
        /\ Pid' = 2 /\ VMTable' = <<Seen'>> /\ OpenCall' = "pm_debug" /\ InSession'
    BY <2>1, DuringSessionNext
  <2>4. Seen' = PM!Started
    <3>1. 0 < Len(code)
      BY <2>1 DEF SInv, Loaded, CodeOK, WholeCode
    <3> QED BY <2>1, <3>1 DEF Seen, PM!Started
  <2>5. PM!Debug(1)
    <3>1. 1 \in PM!Found(1)
      BY <2>2 DEF PM!Found, PM!Slots
    <3>2. PM!Live = {} /\ PM!State(1) = "SUBMITTED"
      BY <2>2 DEF PM!Live, PM!State
    <3>3. PM!Set(1, "PAUSED", 1)
      <4> DEFINE before == [pid |-> 1, state |-> "SUBMITTED", vm |-> 0]
                 after == [pid |-> 1, state |-> "PAUSED", vm |-> 1]
      <4>1. \A r, a \in [pid : Nat, state : {"SUBMITTED", "PAUSED"}, vm : Nat] :
              r.pid = a.pid /\ a.state = "PAUSED" /\ a.vm = 1
                => [r EXCEPT !.state = "PAUSED", !.vm = 1] = a
        OBVIOUS
      <4>2. /\ before \in [pid : Nat, state : {"SUBMITTED", "PAUSED"}, vm : Nat]
            /\ after \in [pid : Nat, state : {"SUBMITTED", "PAUSED"}, vm : Nat]
            /\ before.pid = after.pid /\ after.state = "PAUSED" /\ after.vm = 1
        OBVIOUS
      <4> HIDE DEF before, after
      <4>3. [before EXCEPT !.state = "PAUSED", !.vm = 1] = after
        BY <4>1, <4>2
      <4>4. [Table EXCEPT ![1].state = "PAUSED", ![1].vm = 1] = <<after>>
        BY <2>2, <4>3 DEF before
      <4> QED BY <2>3, <4>4 DEF PM!Set, after
    <3>4. VMTable' = [b \in (PM!Live \ {PM!VMOf(1)}) \cup {1} |-> PM!Create(1)[b]]
      <4>1. PM!Create(1)[1] = Seen'
        BY <2>4, <3>2 DEF PM!Create
      <4>2. [b \in {1} |-> PM!Create(1)[b]] = <<Seen'>>
        BY <4>1
      <4>3. (PM!Live \ {PM!VMOf(1)}) \cup {1} = {1}
        BY <3>2
      <4> QED BY <2>3, <4>2, <4>3
    <3>5. 1 \in {1} \ PM!Live
      BY <3>2
    <3> QED BY <2>2, <2>3, <3>1, <3>2, <3>3, <3>4, <3>5 DEF PM!Debug, PM!Debuggable
  <2> QED BY <2>2, <2>5 DEF PM!Next, PM!Command, PM!Pids
<1>3. CASE StepInstruction \/ NextBegin \/ NextTurn \/ ContinueFirst \/ ContinueTurn
  <2>1. /\ command \in {"prompt", "next", "continue"} /\ host = "idle"
        /\ command' \in {"prompt", "next", "continue"} /\ host' = "idle"
        /\ running \/ pc < Len(code)
    BY <1>3 DEF StepInstruction, NextBegin, NextTurn, ContinueFirst, ContinueTurn, Continued,
                Goes, Step, Resume, SInv, Phases
  <2>2. /\ Table = <<[pid |-> 1, state |-> "PAUSED", vm |-> 1]>>
        /\ Pid = 2 /\ VMTable = <<Seen>> /\ OpenCall = "pm_debug" /\ InSession
    BY <2>1, DuringSession
  <2>3. /\ Table' = <<[pid |-> 1, state |-> "PAUSED", vm |-> 1]>>
        /\ Pid' = 2 /\ VMTable' = <<Seen'>> /\ OpenCall' = "pm_debug" /\ InSession'
    BY <2>1, DuringSessionNext
  <2>4. Seen.running \/ Seen.inside
    BY <2>1 DEF Seen
  <2>5. Seen'.fault => ~Seen'.running
    BY DEF Seen, SInv, IInv, ErrorStops
  <2>6. PM!DebugExecute
    <3>1. PM!VMOf(1) = 1
      BY <2>2 DEF PM!VMOf
    <3>2. VMTable' = [VMTable EXCEPT ![1] = Seen'] /\ VMTable[1] = Seen
      BY <2>2, <2>3
    <3> QED BY <1>0, <2>2, <2>3, <2>4, <2>5, <3>1, <3>2 DEF PM!DebugExecute
  <2> QED BY <2>6 DEF PM!Next
<1>4. CASE DebuggeeTraps
  <2>1. /\ command \in {"prompt", "next", "continue"} /\ host = "idle"
        /\ command' = command /\ host' = "killed"
    BY <1>4 DEF DebuggeeTraps, Trap, session, SInv, Phases
  <2>2. /\ OpenCall = "pm_debug" /\ OpenCall' = "exited" /\ Table' = Table /\ Pid' = Pid
        /\ VMTable' = << >> /\ ~InSession'
    BY <2>1 DEF Table, Pid, VMTable, OpenCall, InSession, Opened, EntryState
  <2>3. PM!ShellDies
    BY <2>2 DEF PM!ShellDies
  <2> QED BY <2>3 DEF PM!Next
<1>5. CASE Quit
  <2>1. /\ command = "prompt" /\ command' = "quit" /\ host = "idle" /\ host' = "idle"
        /\ UNCHANGED <<running, error, pc, code>>
    BY <1>5 DEF Quit, vars
  <2>2. /\ Table = <<[pid |-> 1, state |-> "PAUSED", vm |-> 1]>>
        /\ Pid = 2 /\ VMTable = <<Seen>> /\ OpenCall = "pm_debug" /\ InSession
    BY <2>1, DuringSession
  <2>3. /\ Table' = <<[pid |-> 1, state |-> IF running THEN "PAUSED" ELSE "FINISHED", vm |-> 1]>>
        /\ Pid' = 2 /\ VMTable' = <<Seen>> /\ OpenCall' = "prompt" /\ ~InSession'
    BY <2>1 DEF Table, Pid, VMTable, OpenCall, InSession, Opened, EntryState, Seen
  <2>4. PM!VMOf(1) = 1 /\ VMTable[1].running = running
    BY <2>2 DEF PM!VMOf, Seen
  <2>5. PM!Set(1, IF running THEN "PAUSED" ELSE "FINISHED", 1)
    BY <2>2, <2>3 DEF PM!Set
  <2>6. PM!DebugReturns
    BY <2>2, <2>3, <2>4, <2>5 DEF PM!DebugReturns
  <2> QED BY <2>6 DEF PM!Next
<1>6. CASE (\E line \in Lines : AddBreakpoint(line) \/ RemoveBreakpoint(line))
             \/ ContinueHit \/ Over \/ UNCHANGED dvars
  <2>1. UNCHANGED <<host, running, error, pc, code>>
    BY <1>6 DEF AddBreakpoint, RemoveBreakpoint, ContinueHit, Over, dvars, vars
  <2>2. CASE ~ContinueHit
    <3>1. UNCHANGED command
      BY <1>6, <2>2 DEF AddBreakpoint, RemoveBreakpoint, Over, dvars, session
    <3> QED BY <2>1, <3>1, ManagerStutters
  <2>3. CASE ContinueHit
    <3>1. command = "continue" /\ command' = "prompt"
      BY <2>3 DEF ContinueHit
    <3> QED BY <2>1, <3>1 DEF PM!vars, Table, Pid, VMTable, OpenCall, InSession, Opened,
                              EntryState, Seen
  <2> QED BY <2>2, <2>3
<1> QED BY <1>1, <1>2, <1>3, <1>4, <1>5, <1>6 DEF DebuggerNext, Turn

(* A session is what the process table takes it for: its VM is started once,  *)
(* changes only while pm_debug is open and may go on, never runs with a fault,*)
(* and leaves the entry PAUSED or FINISHED.                                   *)
THEOREM SessionImplementsManager == DebuggerSpec => ImplementsManager
<1>1. SInv /\ SInv' /\ [DebuggerNext]_dvars => [PM!Next]_(PM!vars)
  BY ManagerNext
<1> QED BY <1>1, ManagerInit, SessionInvariance, PTL DEF DebuggerSpec, ImplementsManager, PM!Spec
=============================================================================
