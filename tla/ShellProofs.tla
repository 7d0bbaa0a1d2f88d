------------------------------ MODULE ShellProofs ------------------------------
(***************************************************************************)
(* Process control of the shell for any number of processes, pipes, lines  *)
(* and buffers: no zombie is forgotten, no pipe end strays, the loop reaps *)
(* only what it waits for, and the shell implements Jobs.                  *)
(***************************************************************************)
EXTENDS Shell, SequenceTheorems, TLAPS

Commanding == {"builtin", "fork", "pipe", "fork_left", "fork_right", "close", "wait"}
Piping == {"pipe", "fork_left", "fork_right", "close"}
WithPipe == {"fork_left", "fork_right", "close"}
WithPids == {"fork_right", "close", "wait"}

CommandType == {c \in [kind : Kinds, named : Seq(BOOLEAN), background : BOOLEAN] :
                  /\ Len(c.named) >= 1
                  /\ c.kind = "pipe" => Len(c.named) = 2}

\* Where the loop is tells what it holds: a command, two programs for a pipe, the
\* pipe itself, and the pids of the processes it has started.
LoopInv ==
  /\ at \in Places
  /\ todo \in Seq(CommandType)
  /\ at \in Commanding => todo # << >>
  /\ at \in Piping => Current.kind = "pipe"
  /\ at = "wait" => ~Current.background
  /\ waiting \in Seq(Procs)
  /\ waiting # << >> => at \in WithPids
  /\ at = "fork_right" => Len(waiting) = 1
  /\ Len(waiting) <= 2
  /\ pipefd \in Pipes \cup {NoPipe}
  /\ pipefd # NoPipe <=> at \in WithPipe

\* Only the programs of a pipe have one.
ProcInv ==
  /\ proc \in [Procs -> Child \cup Zombie \cup {None}]
  /\ \A p \in Alive : proc[p].role = "single" <=> proc[p].pipe = NoPipe

RestInv ==
  /\ held \subseteq Ends
  /\ lost \subseteq Pipes
  /\ content \in [Pipes -> 0..PIPE_BUF]
  /\ chld \in BOOLEAN /\ handling \in BOOLEAN /\ prompted \in BOOLEAN

\* The shell, and a child that has not called exec, hold ends of lost pipes and of
\* the one being set up.
EndsInv ==
  /\ \A e \in held : e[1] \in lost \cup {pipefd}
  /\ \A p \in In({"forked"}) : \A e \in proc[p].ends : e[1] \in lost \cup {proc[p].pipe}
  /\ \A p \in In({"running"}) : \A e \in proc[p].ends :
       e[1] \in lost \/ e \in OwnEnds(proc[p].role, proc[p].pipe)

\* The pids the loop keeps are those of its command, even when the handler has
\* reaped one of them and fork has given it out again.
Foreground == {p \in Alive : proc[p].foreground}

PidsInv ==
  /\ at \notin WithPids => Foreground = {}
  /\ \A p \in Foreground : \E k \in DOMAIN waiting : waiting[k] = p
  /\ at \in WithPids =>
       \A k \in DOMAIN waiting :
         \/ waiting[k] \in Free
         \/ proc[waiting[k]].foreground = ~Current.background

IInv == LoopInv /\ ProcInv /\ RestInv /\ ZombiesNoticed /\ EndsInv /\ PidsInv
-----------------------------------------------------------------------------
(* What parse_command makes of a line is a sequence of commands.              *)
LEMMA CommandTyped == ASSUME NEW tokens PROVE Command(tokens) \in CommandType
<1> DEFINE cmds == Programs(tokens)
           named == [k \in DOMAIN cmds |-> cmds[k].argv # << >>]
<1>1. Kind(tokens) \in Kinds
  BY DEF Kind, Kinds
<1>2. Kind(tokens) = "pipe" => IsPipe(tokens)
  BY DEF Kind
<1>3. PICK background \in BOOLEAN :
        background = \E k \in DOMAIN cmds : cmds[k].background
  OBVIOUS
<1>4. /\ named \in Seq(BOOLEAN) /\ Len(named) \in {1, 2}
      /\ IsPipe(tokens) => Len(named) = 2
  <2> DEFINE n == IF IsPipe(tokens) THEN 2 ELSE 1
  <2>1. n \in {1, 2} /\ (IsPipe(tokens) => n = 2)
    OBVIOUS
  <2>2. DOMAIN cmds = 1..n
    <3>1. CASE IsPipe(tokens)
      <4>1. cmds = <<ParseCommand(LeftOf(tokens)), ParseCommand(RightOf(tokens))>>
        BY <3>1 DEF Programs
      <4> HIDE DEF cmds
      <4> QED BY <3>1, <4>1
    <3>2. CASE ~IsPipe(tokens)
      <4>1. cmds = <<ParseCommand(tokens)>>
        BY <3>2 DEF Programs
      <4> HIDE DEF cmds
      <4> QED BY <3>2, <4>1
    <3> QED BY <3>1, <3>2
  <2>3. named \in [1..n -> BOOLEAN]
    BY <2>2
  <2> HIDE DEF n, named
  <2>4. named \in Seq(BOOLEAN)
    BY <2>1, <2>3, SeqDef
  <2>5. DOMAIN named = 1..n /\ DOMAIN named = 1..Len(named) /\ Len(named) \in Nat
    BY <2>3, <2>4, LenProperties
  <2>6. Len(named) = n
    BY <2>1, <2>5
  <2> QED BY <2>1, <2>4, <2>6
<1>5. Command(tokens) = [kind |-> Kind(tokens), named |-> named,
                         background |-> background]
  BY <1>3 DEF Command
<1>6. PICK kind \in Kinds, n \in Seq(BOOLEAN) : kind = Kind(tokens) /\ n = named
  BY <1>1, <1>4
<1> HIDE DEF named, cmds
<1>7. Command(tokens) = [kind |-> kind, named |-> n, background |-> background]
  BY <1>5, <1>6
<1>8. Len(n) >= 1 /\ (kind = "pipe" => Len(n) = 2)
  <2>1. Kind(tokens) = "pipe" => Len(named) = 2
    BY <1>2, <1>4, Zenon
  <2> QED BY <2>1, <1>4, <1>6
<1> QED BY <1>7, <1>8 DEF CommandType

LEMMA CommandsTyped == ASSUME NEW line \in Lines PROVE Commands(line) \in Seq(CommandType)
<1>1. line \in Seq(Seq(STRING))
  BY LinesAssumption
<1>2. Len(line) \in Nat /\ DOMAIN line = 1..Len(line)
  BY <1>1, LenProperties
<1>3. Commands(line) \in [1..Len(line) -> CommandType]
  BY <1>2, CommandTyped DEF Commands
<1> QED BY <1>2, <1>3, SeqDef

LEMMA CurrentTyped ==
  ASSUME LoopInv, todo # << >>
  PROVE  /\ Current \in CommandType
         /\ Tail(todo) \in Seq(CommandType)
         /\ Current.background \in BOOLEAN
         /\ Current.named[1] \in BOOLEAN
         /\ Current.kind = "pipe" => Current.named[2] \in BOOLEAN
<1>1. Current \in CommandType /\ Tail(todo) \in Seq(CommandType)
  BY HeadTailProperties DEF LoopInv, Current
<1>2. Current.named \in Seq(BOOLEAN) /\ Len(Current.named) \in Nat
  BY <1>1, LenProperties DEF CommandType
<1> QED BY <1>1, <1>2, ElementOfSeq DEF CommandType
-----------------------------------------------------------------------------
(* The loop.                                                               *)

\* The steps of handler, children and user in which the loop takes no part.
OffLoop ==
  \/ HandlerStep \/ Interrupt \/ Exited
  \/ \E p \in Procs : ChildStep(p) \/ Dies(p)

LEMMA OffLoopLeaves == OffLoop => UNCHANGED loop
BY DEF OffLoop, HandlerStep, HandlerStarts, HandlerReaps, HandlerReturns, Interrupt,
       Exited, vars, ChildStep, Exec, ExecFails, ProgramStep, Write, Read, ProgramEnds,
       Dies

LEMMA LoopUnchanged == ASSUME LoopInv, UNCHANGED loop PROVE LoopInv'
BY DEF LoopInv, Current, loop

(* Between two commands nothing is left of the last one.                      *)
LEMMA CommandOver ==
  ASSUME LoopInv, todo # << >>, NextCommand, waiting' = << >>, pipefd' = NoPipe
  PROVE  LoopInv'
<1>1. at' = "command" /\ todo' \in Seq(CommandType)
  BY CurrentTyped DEF NextCommand, Go
<1> QED
  BY <1>1, EmptySeq DEF LoopInv, Places, Commanding, Piping, WithPids, WithPipe

LEMMA NotWaiting ==
  ASSUME LoopInv
  PROVE  /\ at \notin WithPids => waiting = << >>
         /\ at \notin WithPipe => pipefd = NoPipe
BY DEF LoopInv

LEMMA LoopKept == LoopInv /\ [Next]_vars => LoopInv'
<1> SUFFICES ASSUME LoopInv, [Next]_vars PROVE LoopInv'
  OBVIOUS
<1> USE DEF Places, Commanding, Piping, WithPids, WithPipe
<1>1. CASE OffLoop \/ UNCHANGED vars
  BY <1>1, OffLoopLeaves, LoopUnchanged DEF vars
<1>2. CASE ShowPrompt
  BY <1>2 DEF ShowPrompt, At, Go, LoopInv, Current
<1>3. ASSUME NEW line \in Lines, ReadLine(line) PROVE LoopInv'
  BY <1>3, CommandsTyped DEF ReadLine, At, Go, LoopInv, Current
<1>4. CASE EndOfInput \/ Exit \/ BuiltinExits
  BY <1>4 DEF EndOfInput, Exit, BuiltinExits, Leave, Pending, At, Go, LoopInv, Current
<1>5. CASE Skip \/ BuiltinReturns \/ ForkFails \/ PipeFails
  <2>1. NextCommand /\ todo # << >> /\ at \notin WithPids \cup WithPipe
        /\ UNCHANGED <<waiting, pipefd>>
    BY <1>5 DEF Skip, BuiltinReturns, ForkFails, PipeFails, Pending, At, LoopInv
  <2> QED BY <2>1, NotWaiting, CommandOver
<1>6. CASE Dispatch
  <2>1. /\ at = "command" /\ todo # << >> /\ UNCHANGED <<todo, waiting, pipefd>>
        /\ Current.kind \in {"pipe", "builtin", "external"}
        /\ at' = IF Current.kind = "external" THEN "fork" ELSE Current.kind
    BY <1>6 DEF Dispatch, Pending, At, Go
  <2> QED BY <2>1 DEF LoopInv, Current
<1>7. ASSUME NEW p \in Procs, ForkSingle(p) PROVE LoopInv'
  <2>1. at = "fork" /\ todo # << >> /\ UNCHANGED pipefd
    BY <1>7 DEF ForkSingle, At, LoopInv
  <2>2. CASE Current.background
    BY <2>1, <2>2, <1>7, NotWaiting, CommandOver DEF ForkSingle
  <2>3. CASE ~Current.background
    <3>1. at' = "wait" /\ waiting' = <<p>> /\ UNCHANGED todo
      BY <2>3, <1>7 DEF ForkSingle, Go
    <3>2. waiting' \in Seq(Procs) /\ Len(waiting') = 1
      BY <3>1
    <3> QED BY <2>1, <2>3, <3>1, <3>2 DEF LoopInv, Current
  <2> QED BY <2>2, <2>3
<1>8. ASSUME NEW f \in Pipes, OpenPipe(f) PROVE LoopInv'
  <2>1. /\ at = "pipe" /\ at' = "fork_left" /\ pipefd' = f /\ f # NoPipe
        /\ UNCHANGED <<todo, waiting>>
    BY <1>8, PipesAssumption DEF OpenPipe, At, Go
  <2> QED BY <2>1 DEF LoopInv, Current
<1>9. ASSUME NEW p \in Procs, ForkLeft(p) PROVE LoopInv'
  <2>1. /\ at = "fork_left" /\ at' = "fork_right" /\ waiting' = <<p>>
        /\ UNCHANGED <<todo, pipefd>>
    BY <1>9 DEF ForkLeft, At, Go
  <2>2. waiting' \in Seq(Procs) /\ Len(waiting') = 1
    BY <2>1
  <2> QED BY <2>1, <2>2 DEF LoopInv, Current
<1>10. ASSUME NEW p \in Procs, ForkRight(p) PROVE LoopInv'
  <2>1. /\ at = "fork_right" /\ at' = "close" /\ waiting' = Append(waiting, p)
        /\ UNCHANGED <<todo, pipefd>>
    BY <1>10 DEF ForkRight, At, Go
  <2>2. waiting \in Seq(Procs) /\ Len(waiting) = 1
    BY <2>1 DEF LoopInv
  <2>3. waiting' \in Seq(Procs) /\ Len(waiting') = 2
    BY <2>1, <2>2, AppendProperties, SMTT(30)
  <2> QED BY <2>1, <2>3 DEF LoopInv, Current
<1>11. CASE PipeForkFails
  BY <1>11, CommandOver DEF PipeForkFails, At, LoopInv
<1>12. CASE ClosePipe
  <2>1. at = "close" /\ todo # << >> /\ pipefd' = NoPipe
    BY <1>12 DEF ClosePipe, At, LoopInv
  <2>2. CASE Current.background
    BY <2>1, <2>2, <1>12, CommandOver DEF ClosePipe
  <2>3. CASE ~Current.background
    <3>1. at' = "wait" /\ UNCHANGED <<todo, waiting>>
      BY <2>3, <1>12 DEF ClosePipe, Go
    <3> QED BY <2>1, <2>3, <3>1 DEF LoopInv, Current
  <2> QED BY <2>2, <2>3
<1>13. CASE WaitReaps \/ WaitFails
  <2>1. /\ at = "wait" /\ waiting # << >> /\ waiting' = Tail(waiting)
        /\ UNCHANGED <<at, todo, pipefd>>
    BY <1>13 DEF WaitReaps, WaitFails, At
  <2>2. waiting' \in Seq(Procs) /\ Len(waiting') = Len(waiting) - 1 /\ Len(waiting) \in Nat
    BY <2>1, HeadTailProperties, LenProperties DEF LoopInv
  <2> QED BY <2>1, <2>2 DEF LoopInv, Current
<1>14. CASE WaitDone
  BY <1>14, NotWaiting, CommandOver DEF WaitDone, At, LoopInv
<1> QED
  BY <1>1, <1>2, <1>3, <1>4, <1>5, <1>6, <1>7, <1>8, <1>9, <1>10, <1>11, <1>12, <1>13,
     <1>14
  DEF Next, LoopStep, UserStep, OffLoop
-----------------------------------------------------------------------------
(* The children: what each kind of step does to them.                      *)

LEMMA ProcTyped ==
  ASSUME ProcInv, NEW p \in Procs
  PROVE  /\ p \in Alive => proc[p] \in Child
         /\ p \in Zombies => proc[p] \in Zombie
         /\ p \in Free <=> proc[p] = None
         /\ p \in Alive \/ p \in Zombies \/ p \in Free
         /\ p \in Alive <=> p \in In({"forked"}) \/ p \in In({"running"})
BY DEF ProcInv, Alive, Zombies, Free, In, Child, Zombie, None

LEMMA ForkEffect ==
  ASSUME LoopInv, ProcInv, RestInv, todo # << >>,
         NEW p \in Procs, NEW role \in {"single", "left", "right"}, NEW part \in {1, 2},
         Fork(p, role, part),
         role = "single" <=> pipefd = NoPipe,
         part = 2 => Current.kind = "pipe"
  PROVE  /\ proc'[p] = Newborn(role, part) /\ p \in Free
         /\ \A q \in Procs \ {p} : proc'[q] = proc[q]
         /\ ProcInv'
<1> PICK c : c = Newborn(role, part)
  OBVIOUS
<1>1. /\ c \in Child /\ c.state = "forked" /\ c.role = role /\ c.pipe = pipefd
  <2>1. Current.named[part] \in BOOLEAN /\ Current.background \in BOOLEAN
    BY CurrentTyped
  <2>2. 0 \in 0..MaxOutput /\ held \in SUBSET Ends /\ pipefd \in Pipes \cup {NoPipe}
    BY BufferAssumption DEF LoopInv, RestInv
  <2> QED BY <2>1, <2>2 DEF Newborn, Child
<1>2. proc' = [proc EXCEPT ![p] = c] /\ p \in Free
  BY DEF Fork
<1>3. proc'[p] = c /\ \A q \in Procs \ {p} : proc'[q] = proc[q]
  BY <1>2 DEF ProcInv
<1>4. proc' \in [Procs -> Child \cup Zombie \cup {None}]
  BY <1>1, <1>2 DEF ProcInv
<1>5. \A q \in Alive' : proc'[q].role = "single" <=> proc'[q].pipe = NoPipe
  BY <1>1, <1>3 DEF ProcInv, Alive, In
<1> QED BY <1>2, <1>3, <1>4, <1>5 DEF ProcInv

LEMMA ReapEffect ==
  ASSUME ProcInv, NEW p \in Zombies, Reap(p)
  PROVE  /\ p \in Procs /\ proc'[p] = None
         /\ \A q \in Procs \ {p} : proc'[q] = proc[q]
         /\ Alive' = Alive /\ Zombies' = Zombies \ {p} /\ Free' = Free \cup {p}
         /\ ProcInv'
<1>1. p \in Procs /\ proc[p].state = "zombie"
  BY DEF Zombies, In
<1>2. proc'[p] = None /\ \A q \in Procs \ {p} : proc'[q] = proc[q]
  BY <1>1 DEF Reap, ProcInv
<1>3. Alive' = Alive /\ Zombies' = Zombies \ {p} /\ Free' = Free \cup {p}
  BY <1>1, <1>2 DEF Alive, Zombies, Free, In, None
<1>4. ProcInv'
  BY <1>1, <1>2, <1>3 DEF ProcInv, Reap, Alive, In
<1> QED BY <1>1, <1>2, <1>3, <1>4

LEMMA BuryEffect ==
  ASSUME ProcInv, NEW S \in SUBSET Alive, Bury(S)
  PROVE  /\ \A q \in S : proc'[q].state = "zombie"
                         /\ proc'[q].foreground = proc[q].foreground
         /\ \A q \in Procs \ S : proc'[q] = proc[q]
         /\ Alive' = Alive \ S /\ Zombies' = Zombies \cup S /\ Free' = Free
         /\ ProcInv'
<1>1. \A q \in S : q \in Procs /\ proc[q] \in Child
  BY ProcTyped DEF Alive, In
<1>2. \A q \in S : proc'[q] = [state |-> "zombie", foreground |-> proc[q].foreground]
  BY <1>1 DEF Bury
<1>3. \A q \in Procs \ S : proc'[q] = proc[q]
  BY DEF Bury
<1>4. \A q \in S : /\ proc'[q] \in Zombie
                   /\ proc'[q].state = "zombie"
                   /\ proc'[q].foreground = proc[q].foreground
  <2> SUFFICES ASSUME NEW q \in S
               PROVE  /\ proc'[q] \in Zombie
                      /\ proc'[q].state = "zombie"
                      /\ proc'[q].foreground = proc[q].foreground
    OBVIOUS
  <2>1. PICK b \in BOOLEAN : b = proc[q].foreground
    BY <1>1 DEF Child
  <2>2. proc'[q] = [state |-> "zombie", foreground |-> b]
    BY <1>2, <2>1
  <2> QED BY <2>1, <2>2 DEF Zombie
<1>5. Alive' = Alive \ S /\ Zombies' = Zombies \cup S /\ Free' = Free
  BY <1>1, <1>3, <1>4 DEF Alive, Zombies, Free, In
<1>6. ProcInv'
  <2>1. proc' \in [Procs -> Child \cup Zombie \cup {None}]
    <3>1. \A q \in Procs : proc'[q] \in Child \cup Zombie \cup {None}
      BY <1>3, <1>4 DEF ProcInv
    <3>2. proc' = [q \in Procs |-> proc'[q]]
      BY DEF Bury
    <3> QED BY <3>1, <3>2
  <2>2. \A q \in Alive' : proc'[q].role = "single" <=> proc'[q].pipe = NoPipe
    BY <1>3, <1>5 DEF ProcInv, Alive, In
  <2> QED BY <2>1, <2>2 DEF ProcInv
<1> QED BY <1>3, <1>4, <1>5, <1>6

\* What Exec and Write change of a child: neither what the loop nor what the
\* invariants of the pipes look at, but for the ends it holds.
RunsOn(p) ==
  /\ p \in Alive /\ p \in In({"running"})'
  /\ proc'[p].role = proc[p].role
  /\ proc'[p].pipe = proc[p].pipe
  /\ proc'[p].foreground = proc[p].foreground
  /\ \A q \in Procs \ {p} : proc'[q] = proc[q]
  /\ Alive' = Alive /\ Zombies' = Zombies /\ Free' = Free
  /\ ProcInv'

LEMMA RunEffect ==
  ASSUME ProcInv, NEW p \in Alive, NEW c \in Child,
         c.state = "running", c.role = proc[p].role, c.pipe = proc[p].pipe,
         c.foreground = proc[p].foreground,
         proc' = [proc EXCEPT ![p] = c]
  PROVE  RunsOn(p) /\ proc'[p] = c
<1>1. p \in Procs /\ proc[p].state \in {"forked", "running"}
  BY DEF Alive, In
<1>2. proc'[p] = c /\ \A q \in Procs \ {p} : proc'[q] = proc[q]
  BY <1>1 DEF ProcInv
<1>3. Alive' = Alive /\ Zombies' = Zombies /\ Free' = Free /\ p \in In({"running"})'
  BY <1>1, <1>2 DEF Alive, Zombies, Free, In
<1>4. ProcInv'
  <2>1. proc' \in [Procs -> Child \cup Zombie \cup {None}]
    BY DEF ProcInv
  <2>2. \A q \in Alive' : proc'[q].role = "single" <=> proc'[q].pipe = NoPipe
    BY <1>1, <1>2, <1>3 DEF ProcInv, Alive, In
  <2> QED BY <2>1, <2>2 DEF ProcInv
<1> QED BY <1>2, <1>3, <1>4 DEF RunsOn

(* A program holds its own ends, and of others only what it had when forked.  *)
LEMMA ExecEffect ==
  ASSUME ProcInv, NEW p \in Procs, Exec(p)
  PROVE  /\ p \in In({"forked"})
         /\ RunsOn(p)
         /\ proc'[p].ends = (proc[p].ends \ BothEnds(proc[p].pipe))
                              \cup OwnEnds(proc[p].role, proc[p].pipe)
<1>1. p \in In({"forked"}) /\ p \in Alive /\ proc[p] \in Child
  BY ProcTyped DEF Exec, Alive, In
<1>2. PICK n \in IF proc[p].role = "left" THEN 0..MaxOutput ELSE {0} :
        proc' = [proc EXCEPT ![p].state = "running", ![p].output = n,
                             ![p].ends = (@ \ BothEnds(proc[p].pipe))
                                           \cup OwnEnds(proc[p].role, proc[p].pipe)]
  BY DEF Exec
<1> DEFINE ends == (proc[p].ends \ BothEnds(proc[p].pipe))
                     \cup OwnEnds(proc[p].role, proc[p].pipe)
           c == [proc[p] EXCEPT !.state = "running", !.output = n, !.ends = ends]
<1>3. ends \subseteq Ends
  <2>1. proc[p].ends \subseteq Ends /\ proc[p].role \in {"single", "left", "right"}
        /\ proc[p].pipe \in Pipes \cup {NoPipe}
    BY <1>1 DEF Child
  <2>2. proc[p].role # "single" => proc[p].pipe \in Pipes
    BY <1>1, <2>1 DEF ProcInv
  <2>3. OwnEnds(proc[p].role, proc[p].pipe) \subseteq Ends
    BY <2>1, <2>2 DEF OwnEnds, Ends
  <2> QED BY <2>1, <2>3
<1>4. /\ c \in Child /\ c.state = "running" /\ c.role = proc[p].role
      /\ c.pipe = proc[p].pipe /\ c.foreground = proc[p].foreground /\ c.ends = ends
  <2> HIDE DEF ends
  <2>1. n \in 0..MaxOutput
    BY BufferAssumption
  <2> QED BY <2>1, <1>1, <1>3 DEF Child
<1>5. proc' = [proc EXCEPT ![p] = c]
  BY <1>1, <1>2 DEF ProcInv, Child
<1> HIDE DEF c
<1>6. RunsOn(p) /\ proc'[p] = c
  BY <1>1, <1>4, <1>5, RunEffect
<1> QED BY <1>1, <1>4, <1>6

LEMMA WriteEffect ==
  ASSUME ProcInv, NEW p \in In({"running"}), Write(p)
  PROVE  RunsOn(p) /\ proc'[p].ends = proc[p].ends
<1>1. p \in Procs /\ p \in Alive /\ proc[p] \in Child /\ proc[p].state = "running"
  BY ProcTyped DEF Alive, In
<1> DEFINE c == [proc[p] EXCEPT !.output = proc[p].output - 1]
<1>2. proc' = [proc EXCEPT ![p] = c] /\ proc[p].output > 0
  BY <1>1 DEF Write, ProcInv
<1>3. proc[p].output - 1 \in 0..MaxOutput
  BY <1>1, <1>2, BufferAssumption DEF Child
<1>4. /\ c \in Child /\ c.state = "running" /\ c.role = proc[p].role
      /\ c.pipe = proc[p].pipe /\ c.foreground = proc[p].foreground
      /\ c.ends = proc[p].ends
  BY <1>1, <1>3 DEF Child
<1> HIDE DEF c
<1> QED BY <1>1, <1>2, <1>4, RunEffect

LEMMA GiveUpEffect ==
  ASSUME ProcInv, PipeForkFails
  PROVE  /\ ProcInv'
         /\ Alive' = Alive /\ Zombies' = Zombies /\ Free' = Free
         /\ \A p \in Alive : /\ ~proc'[p].foreground
                             /\ proc'[p].state = proc[p].state
                             /\ proc'[p].role = proc[p].role
                             /\ proc'[p].pipe = proc[p].pipe
                             /\ proc'[p].ends = proc[p].ends
<1>1. \A p \in Procs \ (Alive \cup Zombies) : proc'[p] = proc[p]
  BY DEF PipeForkFails
<1> PICK no \in BOOLEAN : no = FALSE
  OBVIOUS
<1>2. \A p \in Alive \cup Zombies : proc'[p] = [proc[p] EXCEPT !.foreground = no]
  BY DEF PipeForkFails, Alive, Zombies, In
<1>3. ASSUME NEW p \in Alive
      PROVE  /\ p \in Procs /\ proc'[p] \in Child /\ ~proc'[p].foreground
             /\ proc'[p].state = proc[p].state
             /\ proc'[p].role = proc[p].role
             /\ proc'[p].pipe = proc[p].pipe
             /\ proc'[p].ends = proc[p].ends
  <2>1. p \in Procs /\ proc[p] \in Child
    BY ProcTyped DEF Alive, In
  <2>2. proc'[p] = [proc[p] EXCEPT !.foreground = no]
    BY <1>2
  <2>3. proc'[p] \in Child
    BY <2>1, <2>2 DEF Child
  <2>4. proc'[p].foreground = no
    BY <2>1, <2>2 DEF Child
  <2>5. /\ proc'[p].state = proc[p].state
        /\ proc'[p].role = proc[p].role
        /\ proc'[p].pipe = proc[p].pipe
        /\ proc'[p].ends = proc[p].ends
    BY <2>1, <2>2 DEF Child
  <2> QED BY <2>1, <2>3, <2>4, <2>5
<1>4. ASSUME NEW p \in Zombies
      PROVE  p \in Procs /\ proc'[p] \in Zombie /\ proc'[p].state = proc[p].state
  <2>1. p \in Procs /\ proc[p] \in Zombie
    BY ProcTyped DEF Zombies, In
  <2>2. proc'[p] = [proc[p] EXCEPT !.foreground = no]
    BY <1>2
  <2> QED BY <2>1, <2>2 DEF Zombie
<1>5. \A p \in Procs : proc'[p].state = proc[p].state
  BY <1>1, <1>3, <1>4
<1>6. Alive' = Alive /\ Zombies' = Zombies /\ Free' = Free
  BY <1>5 DEF Alive, Zombies, Free, In
<1>7. ProcInv'
  <2>1. \A p \in Procs : proc'[p] \in Child \cup Zombie \cup {None}
    BY <1>1, <1>3, <1>4 DEF ProcInv
  <2>2. proc' = [p \in Procs |-> proc'[p]]
    BY DEF PipeForkFails
  <2>3. proc' \in [Procs -> Child \cup Zombie \cup {None}]
    BY <2>1, <2>2
  <2>4. \A q \in Alive' : proc'[q].role = "single" <=> proc'[q].pipe = NoPipe
    BY <1>3, <1>6 DEF ProcInv
  <2> QED BY <2>3, <2>4 DEF ProcInv
<1> QED BY <1>3, <1>6, <1>7
-----------------------------------------------------------------------------
(* Which steps change the children, and which change pipes and signals.    *)

Forks == \E p \in Procs : ForkSingle(p) \/ ForkLeft(p) \/ ForkRight(p)
Reaps == WaitReaps \/ HandlerReaps
Buries ==
  \/ Interrupt
  \/ \E p \in Procs : ExecFails(p) \/ Dies(p) \/ (p \in In({"running"}) /\ ProgramEnds(p))
Writes == \E p \in In({"running"}) : Write(p)
Reads == \E p \in In({"running"}) : Read(p)
Execs == \E p \in Procs : Exec(p)

\* The other steps of the loop, and those of the handler that reap nothing.
Loops ==
  \/ ShowPrompt \/ (\E line \in Lines : ReadLine(line)) \/ EndOfInput
  \/ Skip \/ Dispatch \/ Exit \/ BuiltinReturns \/ BuiltinExits
  \/ ForkFails \/ (\E f \in Pipes : OpenPipe(f)) \/ PipeFails
  \/ ClosePipe \/ WaitFails \/ WaitDone
Handles == HandlerStarts \/ HandlerReturns

LEMMA StepKinds ==
  ASSUME [Next]_vars
  PROVE  \/ UNCHANGED vars
         \/ /\ at # "exited"
            /\ \/ Loops \/ Handles \/ Forks \/ PipeForkFails \/ Reaps
               \/ Buries \/ Execs \/ Writes \/ Reads
BY DEF Next, LoopStep, HandlerStep, UserStep, Exited, ChildStep, ProgramStep, In,
       Loops, Handles, Forks, Reaps, Buries, Execs, Writes, Reads

LEMMA LoopsEffect == Loops => UNCHANGED <<proc, chld, handling>>
BY DEF Loops, ShowPrompt, ReadLine, EndOfInput, Leave, Skip, Dispatch, Exit,
       BuiltinReturns, BuiltinExits, ForkFails, OpenPipe, PipeFails, ClosePipe,
       WaitFails, WaitDone, signals

LEMMA ForksEffect ==
  ASSUME LoopInv, ProcInv, RestInv, Forks
  PROVE  \E p \in Procs, role \in {"single", "left", "right"}, part \in {1, 2} :
           /\ todo # << >>
           /\ proc'[p] = Newborn(role, part) /\ p \in Free
           /\ role = "single" <=> pipefd = NoPipe
           /\ \A q \in Procs \ {p} : proc'[q] = proc[q]
           /\ UNCHANGED <<pipefd, held, lost, content, signals, prompted>>
           /\ ProcInv'
<1>1. PICK p \in Procs : ForkSingle(p) \/ ForkLeft(p) \/ ForkRight(p)
  BY DEF Forks
<1>2. /\ todo # << >>
      /\ \E role \in {"single", "left", "right"}, part \in {1, 2} :
           /\ Fork(p, role, part)
           /\ role = "single" <=> pipefd = NoPipe
           /\ part = 2 => Current.kind = "pipe"
      /\ UNCHANGED <<pipefd, held, lost, content, signals, prompted>>
  <2>1. CASE ForkSingle(p)
    BY <2>1 DEF ForkSingle, At, LoopInv, Commanding, WithPipe
  <2>2. CASE ForkLeft(p)
    BY <2>2 DEF ForkLeft, At, LoopInv, Commanding, WithPipe
  <2>3. CASE ForkRight(p)
    BY <2>3 DEF ForkRight, At, LoopInv, Commanding, WithPipe, Piping
  <2> QED BY <1>1, <2>1, <2>2, <2>3
<1> QED BY <1>2, ForkEffect

LEMMA ReapsEffect ==
  ASSUME ProcInv, Reaps
  PROVE  \E p \in Zombies :
           /\ Reap(p)
           /\ UNCHANGED <<at, todo, pipefd, held, lost, content, signals, prompted>>
           /\ WaitReaps => at = "wait" /\ waiting # << >>
                           /\ p = Head(waiting) /\ waiting' = Tail(waiting)
           /\ ~WaitReaps => handling /\ UNCHANGED waiting
BY DEF Reaps, WaitReaps, HandlerReaps, loop, At

LEMMA BuriesEffect ==
  ASSUME ProcInv, Buries
  PROVE  \E S \in SUBSET Alive :
           /\ Bury(S)
           /\ UNCHANGED <<loop, content, handling>>
           /\ prompted' \in {prompted, FALSE}
<1>1. CASE Interrupt
  BY <1>1 DEF Interrupt, Bury
<1>2. ASSUME NEW p \in Procs,
             ExecFails(p) \/ Dies(p) \/ (p \in In({"running"}) /\ ProgramEnds(p))
      PROVE  /\ p \in Alive /\ Bury({p})
             /\ UNCHANGED <<loop, content, handling, prompted>>
  BY <1>2 DEF ExecFails, Dies, ProgramEnds, Bury, Alive, In
<1> QED BY <1>1, <1>2 DEF Buries

LEMMA ProcKept == LoopInv /\ ProcInv /\ RestInv /\ [Next]_vars => ProcInv'
<1> SUFFICES ASSUME LoopInv, ProcInv, RestInv, [Next]_vars PROVE ProcInv'
  OBVIOUS
<1>1. CASE UNCHANGED proc
  BY <1>1 DEF ProcInv, Alive, In
<1>2. CASE Forks
  BY <1>2, ForksEffect
<1>3. CASE PipeForkFails
  BY <1>3, GiveUpEffect
<1>4. CASE Reaps
  BY <1>4, ReapsEffect, ReapEffect
<1>5. CASE Buries
  BY <1>5, BuriesEffect, BuryEffect
<1>6. CASE Execs
  BY <1>6, ExecEffect DEF Execs, RunsOn
<1>7. CASE Writes
  BY <1>7, WriteEffect DEF Writes, RunsOn
<1>8. UNCHANGED vars \/ Loops \/ Handles \/ Reads => UNCHANGED proc
  BY LoopsEffect DEF vars, Handles, HandlerStarts, HandlerReturns, Reads, Read
<1> QED BY <1>1, <1>2, <1>3, <1>4, <1>5, <1>6, <1>7, <1>8, StepKinds

LEMMA RestKept == LoopInv /\ ProcInv /\ RestInv /\ [Next]_vars => RestInv'
<1> SUFFICES ASSUME LoopInv, ProcInv, RestInv, [Next]_vars PROVE RestInv'
  OBVIOUS
<1>1. CASE UNCHANGED vars
  BY <1>1 DEF RestInv, vars, loop, signals
<1>2. CASE Loops
  <2>1. UNCHANGED signals
    BY <1>2, LoopsEffect DEF signals
  <2>2. prompted' \in BOOLEAN
    BY <1>2 DEF Loops, ShowPrompt, ReadLine, EndOfInput, Leave, Skip, Dispatch, Exit,
                BuiltinReturns, BuiltinExits, ForkFails, OpenPipe, PipeFails, ClosePipe,
                WaitFails, WaitDone, RestInv
  <2>3. CASE UNCHANGED <<held, lost, content>>
    BY <2>1, <2>2, <2>3 DEF RestInv, signals
  <2>4. ASSUME NEW f \in Pipes, OpenPipe(f) PROVE RestInv'
    <3>1. held' \subseteq Ends
      BY <2>4 DEF OpenPipe, RestInv, BothEnds, Ends
    <3>2. content' \in [Pipes -> 0..PIPE_BUF]
      BY <2>4, BufferAssumption DEF OpenPipe, RestInv
    <3> QED BY <3>1, <3>2, <2>1, <2>2, <2>4 DEF RestInv, OpenPipe, signals
  <2>5. CASE held' \subseteq held /\ UNCHANGED <<lost, content>>
    BY <2>1, <2>2, <2>5 DEF RestInv, signals
  <2> QED
    BY <2>3, <2>4, <2>5, <1>2
    DEF Loops, ShowPrompt, ReadLine, EndOfInput, Leave, Skip, Dispatch, Exit,
        BuiltinReturns, BuiltinExits, ForkFails, PipeFails, ClosePipe, WaitFails, WaitDone
<1>3. CASE Handles
  BY <1>3 DEF Handles, HandlerStarts, HandlerReturns, RestInv, loop
<1>4. CASE Forks
  BY <1>4, ForksEffect DEF RestInv, signals
<1>5. CASE PipeForkFails
  BY <1>5 DEF PipeForkFails, RestInv, LoopInv, At, WithPipe, signals
<1>6. CASE Reaps
  BY <1>6, ReapsEffect DEF RestInv, signals
<1>7. CASE Buries
  <2>1. PICK S \in SUBSET Alive : /\ Bury(S)
                                  /\ UNCHANGED <<loop, content, handling>>
                                  /\ prompted' \in {prompted, FALSE}
    BY <1>7, BuriesEffect
  <2>2. chld' \in BOOLEAN
    BY <2>1 DEF Bury
  <2> QED BY <2>1, <2>2 DEF RestInv, loop
<1>8. CASE Execs
  BY <1>8 DEF Execs, Exec, RestInv, loop, signals
<1>9. ASSUME NEW p \in In({"running"}), Write(p) \/ Read(p) PROVE RestInv'
  <2>1. /\ UNCHANGED <<loop, signals, prompted>>
        /\ \E f : \/ content[f] < PIPE_BUF /\ content' = [content EXCEPT ![f] = @ + 1]
                  \/ content[f] > 0 /\ content' = [content EXCEPT ![f] = @ - 1]
    BY <1>9 DEF Write, Read
  <2>2. content' \in [Pipes -> 0..PIPE_BUF]
    BY <2>1, BufferAssumption DEF RestInv
  <2> QED BY <2>1, <2>2 DEF RestInv, loop, signals
<1> QED
  BY <1>1, <1>2, <1>3, <1>4, <1>5, <1>6, <1>7, <1>8, <1>9, StepKinds DEF Writes, Reads
-----------------------------------------------------------------------------
(* Zombies, pipe ends and pids.                                            *)

LEMMA ZombiesKept ==
  LoopInv /\ ProcInv /\ RestInv /\ ZombiesNoticed /\ [Next]_vars => ZombiesNoticed'
<1> SUFFICES ASSUME LoopInv, ProcInv, RestInv, ZombiesNoticed, [Next]_vars,
                    at' # "exited", Zombies' # {}
             PROVE  chld' \/ handling'
  BY DEF ZombiesNoticed
<1>1. CASE UNCHANGED vars
  BY <1>1 DEF ZombiesNoticed, vars, loop, signals, Zombies, In
<1>2. CASE at # "exited" /\ Zombies' \subseteq Zombies /\ UNCHANGED <<chld, handling>>
  BY <1>2 DEF ZombiesNoticed
<1>3. ASSUME at # "exited", Loops \/ Forks \/ PipeForkFails \/ Reaps \/ Execs \/ Writes \/ Reads
      PROVE  Zombies' \subseteq Zombies /\ UNCHANGED <<chld, handling>>
  <2>1. CASE Loops
    BY <2>1, LoopsEffect DEF Zombies, In
  <2>2. CASE Forks
    BY <2>2, ForksEffect DEF Zombies, In, Newborn, signals
  <2>3. CASE PipeForkFails
    BY <2>3, GiveUpEffect DEF PipeForkFails, signals
  <2>4. CASE Reaps
    BY <2>4, ReapsEffect, ReapEffect DEF signals
  <2>5. CASE Execs
    BY <2>5, ExecEffect DEF Execs, RunsOn, Exec, signals
  <2>6. CASE Writes
    BY <2>6, WriteEffect DEF Writes, RunsOn, Write, signals
  <2>7. CASE Reads
    BY <2>7 DEF Reads, Read, Zombies, In, signals
  <2> QED BY <1>3, <2>1, <2>2, <2>3, <2>4, <2>5, <2>6, <2>7
<1>4. CASE HandlerStarts
  BY <1>4 DEF HandlerStarts
<1>5. CASE HandlerReturns
  BY <1>5 DEF HandlerReturns, Zombies, In
<1>6. CASE at # "exited" /\ Buries
  <2>1. PICK S \in SUBSET Alive : Bury(S) /\ UNCHANGED <<loop, content, handling>>
    BY <1>6, BuriesEffect
  <2>2. Zombies' = Zombies \cup S
    BY <2>1, BuryEffect
  <2>3. CASE S = {}
    <3>1. chld \/ handling
      BY <2>2, <2>3, <1>6 DEF ZombiesNoticed
    <3>2. chld => chld'
      BY <2>1, Zenon DEF Bury
    <3> QED BY <2>1, <3>1, <3>2
  <2>4. CASE S # {}
    BY <2>1, <2>4 DEF Bury
  <2> QED BY <2>3, <2>4
<1> QED BY <1>1, <1>2, <1>3, <1>4, <1>5, <1>6, StepKinds DEF Handles

(* A step that takes no end and gives none keeps EndsInv if it loses no pipe. *)
LEMMA EndsStay ==
  ASSUME EndsInv,
         held' \subseteq held, pipefd' = pipefd \/ held' = {}, lost \subseteq lost',
         In({"forked"})' \subseteq In({"forked"}),
         In({"running"})' \subseteq In({"running"}),
         \A p \in Alive' : proc'[p] = proc[p]
  PROVE  EndsInv'
<1>1. \A p \in In({"forked"})' \cup In({"running"})' : proc'[p] = proc[p]
  BY DEF Alive, In
<1> QED BY <1>1 DEF EndsInv

LEMMA EndsKept ==
  LoopInv /\ ProcInv /\ RestInv /\ EndsInv /\ [Next]_vars => EndsInv'
<1> SUFFICES ASSUME LoopInv, ProcInv, RestInv, EndsInv, [Next]_vars PROVE EndsInv'
  OBVIOUS
<1>1. CASE UNCHANGED <<held, pipefd, lost, proc>>
  BY <1>1 DEF EndsInv, In
<1>2. CASE Loops
  <2>1. UNCHANGED proc
    BY <1>2, LoopsEffect
  <2>2. ASSUME NEW f \in Pipes, OpenPipe(f) PROVE EndsInv'
    <3>1. pipefd = NoPipe /\ pipefd' = f /\ held' = held \cup BothEnds(f) /\ lost' = lost
      BY <2>2 DEF OpenPipe, At, LoopInv, WithPipe
    <3>2. \A e \in held : e[1] \in lost
      BY <3>1, PipesAssumption DEF EndsInv, RestInv, Ends
    <3>3. \A e \in held' : e[1] \in lost' \cup {pipefd'}
      BY <3>1, <3>2 DEF BothEnds
    <3> QED BY <2>1, <3>1, <3>3 DEF EndsInv, In
  <2>3. CASE ClosePipe
    <3>1. /\ pipefd \in Pipes /\ held' = held \ BothEnds(pipefd) /\ lost' = lost
      BY <2>3 DEF ClosePipe, At, LoopInv, WithPipe
    <3>2. \A e \in held' : e[1] \in lost'
      <4> SUFFICES ASSUME NEW e \in held' PROVE e[1] \in lost'
        OBVIOUS
      <4>1. e \in Ends /\ e \notin BothEnds(pipefd)
        BY <3>1 DEF RestInv
      <4>2. e[1] # pipefd
        BY <4>1 DEF Ends, BothEnds
      <4> QED BY <3>1, <4>2 DEF EndsInv
    <3> QED BY <2>1, <3>1, <3>2 DEF EndsInv, In
  <2>4. CASE held' = {} /\ UNCHANGED lost
    BY <2>1, <2>4 DEF EndsInv, In
  <2>5. CASE UNCHANGED <<held, pipefd, lost>>
    BY <2>1, <2>5, <1>1
  <2> QED
    BY <2>2, <2>3, <2>4, <2>5, <1>2
    DEF Loops, ShowPrompt, ReadLine, EndOfInput, Leave, Skip, Dispatch, Exit,
        BuiltinReturns, BuiltinExits, ForkFails, PipeFails, WaitFails, WaitDone
<1>3. CASE Forks
  <2>1. PICK p \in Procs, role \in {"single", "left", "right"}, part \in {1, 2} :
           /\ proc'[p] = Newborn(role, part)
           /\ \A q \in Procs \ {p} : proc'[q] = proc[q]
           /\ UNCHANGED <<pipefd, held, lost>>
    BY <1>3, ForksEffect
  <2>2. /\ proc'[p].state = "forked" /\ proc'[p].ends = held /\ proc'[p].pipe = pipefd
    BY <2>1 DEF Newborn
  <2>3. /\ In({"forked"})' \subseteq In({"forked"}) \cup {p}
        /\ In({"running"})' \subseteq In({"running"}) /\ p \notin In({"running"})'
    BY <2>1, <2>2 DEF In
  <2>4. \A q \in In({"forked"})' : \A e \in proc'[q].ends :
          e[1] \in lost' \cup {proc'[q].pipe}
    BY <2>1, <2>2, <2>3 DEF EndsInv, In
  <2>5. \A q \in In({"running"})' : proc'[q] = proc[q]
    BY <2>1, <2>3 DEF In
  <2> QED BY <2>1, <2>3, <2>4, <2>5 DEF EndsInv
<1>4. CASE PipeForkFails
  <2>1. UNCHANGED held /\ lost' = lost \cup {pipefd} /\ pipefd' = NoPipe
    BY <1>4 DEF PipeForkFails
  <2>2. \A p \in In({"forked"})' \cup In({"running"})' :
          /\ p \in Alive
          /\ proc'[p].state = proc[p].state
          /\ proc'[p].role = proc[p].role
          /\ proc'[p].pipe = proc[p].pipe
          /\ proc'[p].ends = proc[p].ends
    BY <1>4, GiveUpEffect DEF Alive, In
  <2>3. In({"forked"})' \subseteq In({"forked"}) /\ In({"running"})' \subseteq In({"running"})
    BY <2>2 DEF In
  <2> QED BY <2>1, <2>2, <2>3 DEF EndsInv
<1>5. CASE Reaps
  <2>1. PICK p \in Zombies : Reap(p) /\ UNCHANGED <<pipefd, held, lost>>
    BY <1>5, ReapsEffect
  <2>2. /\ Alive' = Alive /\ \A q \in Procs \ {p} : proc'[q] = proc[q]
        /\ proc'[p].state = "none"
    BY <2>1, ReapEffect DEF None
  <2>3. \A q \in Alive' : proc'[q] = proc[q]
    BY <2>1, <2>2 DEF Alive, In
  <2>4. /\ In({"forked"})' \subseteq In({"forked"})
        /\ In({"running"})' \subseteq In({"running"})
    BY <2>2 DEF In
  <2> QED BY <2>1, <2>3, <2>4, EndsStay
<1>6. CASE Buries
  <2>1. PICK S \in SUBSET Alive : Bury(S) /\ UNCHANGED loop
    BY <1>6, BuriesEffect
  <2>2. /\ Alive' = Alive \ S /\ \A q \in Procs \ S : proc'[q] = proc[q]
        /\ \A q \in S : proc'[q].state = "zombie"
    BY <2>1, BuryEffect
  <2>3. \A q \in Alive' : proc'[q] = proc[q]
    BY <2>2 DEF Alive, In
  <2>4. /\ In({"forked"})' \subseteq In({"forked"})
        /\ In({"running"})' \subseteq In({"running"})
    BY <2>2 DEF In
  <2> QED BY <2>1, <2>3, <2>4, EndsStay DEF loop
<1>7. ASSUME NEW p \in Procs, Exec(p) PROVE EndsInv'
  <2>1. /\ p \in In({"forked"}) /\ RunsOn(p) /\ UNCHANGED <<held, pipefd, lost>>
        /\ proc'[p].ends = (proc[p].ends \ BothEnds(proc[p].pipe))
                             \cup OwnEnds(proc[p].role, proc[p].pipe)
    BY <1>7, ExecEffect DEF Exec, loop
  <2>2. proc[p].ends \subseteq Ends
    BY <2>1, ProcTyped DEF RunsOn, Child
  <2>3. \A e \in proc'[p].ends :
          e[1] \in lost' \/ e \in OwnEnds(proc'[p].role, proc'[p].pipe)
    <3> SUFFICES ASSUME NEW e \in proc[p].ends, e \notin BothEnds(proc[p].pipe)
                 PROVE  e[1] \in lost
      BY <2>1 DEF RunsOn
    <3>1. e[1] # proc[p].pipe
      BY <2>2 DEF Ends, BothEnds
    <3> QED BY <3>1, <2>1 DEF EndsInv
  <2>4. /\ In({"forked"})' \subseteq In({"forked"}) \ {p}
        /\ In({"running"})' \subseteq In({"running"}) \cup {p}
        /\ \A q \in Procs \ {p} : proc'[q] = proc[q]
    BY <2>1 DEF RunsOn, In
  <2>5. \A q \in In({"forked"})' : \A e \in proc'[q].ends :
          e[1] \in lost' \cup {proc'[q].pipe}
    BY <2>1, <2>4 DEF EndsInv, In
  <2>6. \A q \in In({"running"})' : \A e \in proc'[q].ends :
          e[1] \in lost' \/ e \in OwnEnds(proc'[q].role, proc'[q].pipe)
    BY <2>1, <2>3, <2>4 DEF EndsInv, In
  <2> QED BY <2>1, <2>5, <2>6 DEF EndsInv
<1>8. ASSUME NEW p \in In({"running"}), Write(p) PROVE EndsInv'
  <2>1. /\ RunsOn(p) /\ proc'[p].ends = proc[p].ends /\ UNCHANGED <<held, pipefd, lost>>
    BY <1>8, WriteEffect DEF Write, loop
  <2>2. /\ In({"forked"})' \subseteq In({"forked"}) \ {p}
        /\ In({"running"})' \subseteq In({"running"})
        /\ \A q \in Procs \ {p} : proc'[q] = proc[q]
    BY <2>1 DEF RunsOn, In
  <2>3. \A q \in In({"forked"})' : proc'[q] = proc[q]
    BY <2>2 DEF In
  <2>4. \A q \in In({"running"})' : /\ proc'[q].role = proc[q].role
                                    /\ proc'[q].pipe = proc[q].pipe
                                    /\ proc'[q].ends = proc[q].ends
    BY <2>1, <2>2 DEF In, RunsOn
  <2> QED BY <2>1, <2>2, <2>3, <2>4 DEF EndsInv
<1>9. UNCHANGED vars \/ Handles \/ Reads => UNCHANGED <<held, pipefd, lost, proc>>
  BY DEF vars, loop, Handles, HandlerStarts, HandlerReturns, Reads, Read
<1> QED
  BY <1>1, <1>2, <1>3, <1>4, <1>5, <1>6, <1>7, <1>8, <1>9, StepKinds DEF Execs, Writes

(* Of a fork and of the end of a wait, what PidsInv looks at.                 *)
LEMMA AppendedToOne ==
  ASSUME NEW w \in Seq(Procs), NEW p \in Procs, Len(w) = 1
  PROVE  /\ DOMAIN w = {1} /\ DOMAIN Append(w, p) = {1, 2}
         /\ Append(w, p)[1] = w[1] /\ Append(w, p)[2] = p
<1>1. PICK v : v = Append(w, p)
  OBVIOUS
<1>2. /\ Append(w, p) \in Seq(Procs)
      /\ Len(Append(w, p)) = Len(w) + 1
      /\ \A i \in 1..Len(w) : Append(w, p)[i] = w[i]
      /\ Append(w, p)[Len(w) + 1] = p
  <2>1. Append(w, p) \in Seq(Procs)
    BY AppendProperties
  <2>2. Len(Append(w, p)) = Len(w) + 1
    BY AppendProperties
  <2>3. \A i \in 1..Len(w) : Append(w, p)[i] = w[i]
    BY AppendProperties
  <2>4. Append(w, p)[Len(w) + 1] = p
    BY AppendProperties
  <2> QED BY <2>1, <2>2, <2>3, <2>4
<1>3. Len(v) = 2 /\ v[1] = w[1] /\ v[2] = p
  <2>1. /\ Len(v) = Len(w) + 1 /\ \A i \in 1..Len(w) : v[i] = w[i]
        /\ v[Len(w) + 1] = p
    BY <1>1, <1>2, Zenon
  <2> QED BY <2>1
<1>4. DOMAIN w = 1..1 /\ DOMAIN v = 1..2
  BY <1>1, <1>2, <1>3, LenProperties
<1>5. 1..1 = {1} /\ 1..2 = {1, 2}
  OBVIOUS
<1> QED BY <1>1, <1>3, <1>4, <1>5

LEMMA PidsForked ==
  ASSUME LoopInv, ProcInv, RestInv, PidsInv, Forks
  PROVE  PidsInv'
<1>1. PICK p \in Procs : ForkSingle(p) \/ ForkLeft(p) \/ ForkRight(p)
  BY DEF Forks
<1>2. /\ todo # << >> /\ p \in Free /\ proc'[p].state = "forked"
      /\ \A q \in Procs \ {p} : proc'[q] = proc[q]
      /\ proc'[p].foreground = ~Current.background
  <2>1. PICK q \in Procs, role \in {"single", "left", "right"}, part \in {1, 2} :
           /\ todo # << >>
           /\ proc'[q] = Newborn(role, part) /\ q \in Free
           /\ \A r \in Procs \ {q} : proc'[r] = proc[r]
    BY <1>1, ForksEffect DEF Forks
  <2>2. proc'[q].state = "forked" /\ proc'[q].foreground = ~Current.background
    BY <2>1 DEF Newborn
  <2>3. p \in Free /\ proc'[p].state = "forked"
    BY <1>1, <2>1 DEF ForkSingle, ForkLeft, ForkRight, Fork, ProcInv, Newborn
  <2>4. p = q
    BY <2>1, <2>3 DEF Free, In
  <2> QED BY <2>1, <2>2, <2>3, <2>4
<1>3. /\ Alive' = Alive \cup {p} /\ Free' = Free \ {p}
      /\ Foreground' = Foreground \cup {q \in {p} : ~Current.background}
  BY <1>2 DEF Alive, Free, In, Foreground
<1>4. \A k \in DOMAIN waiting : waiting[k] \in Procs
  BY ElementOfSeq, LenProperties DEF LoopInv
<1>5. CASE ForkSingle(p)
  <2>1. at = "fork" /\ Foreground = {}
    BY <1>5 DEF ForkSingle, At, PidsInv, WithPids
  <2>2. CASE Current.background
    <3>1. at' = "command" /\ Foreground' = {}
      BY <1>3, <1>5, <2>1, <2>2 DEF ForkSingle, NextCommand, Go
    <3> QED BY <3>1 DEF PidsInv, WithPids
  <2>3. CASE ~Current.background
    <3>1. at' = "wait" /\ Foreground' = {p} /\ waiting' = <<p>> /\ todo' = todo
      BY <1>3, <1>5, <2>1, <2>3 DEF ForkSingle, Go
    <3>2. DOMAIN waiting' = {1} /\ waiting'[1] = p
      BY <3>1
    <3> QED BY <1>2, <3>1, <3>2 DEF PidsInv, WithPids, Current
  <2> QED BY <2>2, <2>3
<1>6. CASE ForkLeft(p)
  <2>1. at = "fork_left" /\ Foreground = {}
    BY <1>6 DEF ForkLeft, At, PidsInv, WithPids
  <2>2. /\ at' = "fork_right" /\ Foreground' \subseteq {p} /\ waiting' = <<p>>
        /\ todo' = todo
    BY <1>3, <1>6, <2>1 DEF ForkLeft, Go
  <2>3. DOMAIN waiting' = {1} /\ waiting'[1] = p
    BY <2>2
  <2> QED BY <1>2, <2>2, <2>3 DEF PidsInv, WithPids, Current
<1>7. CASE ForkRight(p)
  <2>1. /\ at = "fork_right" /\ at' = "close" /\ waiting' = Append(waiting, p)
        /\ todo' = todo /\ Len(waiting) = 1 /\ waiting \in Seq(Procs)
    BY <1>7 DEF ForkRight, At, Go, LoopInv
  <2>2. /\ DOMAIN waiting = {1} /\ DOMAIN waiting' = {1, 2}
        /\ waiting'[1] = waiting[1] /\ waiting'[2] = p
    BY <2>1, AppendedToOne
  <2>3. \A q \in Foreground' : \E k \in DOMAIN waiting' : waiting'[k] = q
    BY <1>3, <2>2 DEF PidsInv
  <2>4. waiting[1] \in Free \/ proc[waiting[1]].foreground = ~Current.background
    BY <2>1, <2>2 DEF PidsInv, WithPids
  <2>5. \A k \in {1, 2} : \/ waiting'[k] \in Free'
                          \/ proc'[waiting'[k]].foreground = ~Current'.background
    BY <1>2, <1>3, <1>4, <2>1, <2>2, <2>4 DEF Current
  <2> QED BY <2>1, <2>2, <2>3, <2>5 DEF PidsInv, WithPids
<1> QED BY <1>1, <1>5, <1>6, <1>7

\* The pid at the head is no longer that of a process in the foreground.
LEMMA PidsDropped ==
  ASSUME LoopInv, PidsInv, at \in WithPids, waiting # << >>,
         Head(waiting) \notin Foreground',
         Foreground' \subseteq Foreground,
         Free \subseteq Free',
         \A q \in Procs \ Free' : proc'[q] = proc[q],
         waiting' = Tail(waiting), UNCHANGED <<at, todo>>
  PROVE  PidsInv'
<1>1. /\ waiting \in Seq(Procs) /\ Len(waiting) \in Nat /\ Len(waiting) >= 1
      /\ DOMAIN waiting = 1..Len(waiting)
  BY LenProperties, EmptySeq DEF LoopInv
<1>2. /\ Head(waiting) = waiting[1]
      /\ DOMAIN waiting' = 1..(Len(waiting) - 1)
      /\ \A k \in 1..(Len(waiting) - 1) : waiting'[k] = waiting[k + 1]
  BY <1>1
<1>3. \A k \in DOMAIN waiting' : k + 1 \in DOMAIN waiting /\ waiting'[k] = waiting[k + 1]
  BY <1>1, <1>2
<1>4. \A q \in Foreground' : \E k \in DOMAIN waiting' : waiting'[k] = q
  <2> SUFFICES ASSUME NEW q \in Foreground' PROVE \E k \in DOMAIN waiting' : waiting'[k] = q
    OBVIOUS
  <2>1. PICK k \in DOMAIN waiting : waiting[k] = q
    BY DEF PidsInv
  <2>2. k # 1
    BY <2>1, <1>2
  <2>3. k - 1 \in DOMAIN waiting' /\ waiting'[k - 1] = q
    BY <1>1, <1>2, <2>1, <2>2
  <2> QED BY <2>3
<1>5. \A k \in DOMAIN waiting : waiting[k] \in Procs
  BY <1>1, ElementOfSeq
<1>6. \A k \in DOMAIN waiting' : \/ waiting'[k] \in Free'
                                 \/ proc'[waiting'[k]].foreground = ~Current'.background
  BY <1>3, <1>5 DEF PidsInv, Current
<1> QED BY <1>4, <1>6 DEF PidsInv

\* The loop goes on with its pids, and of the children only their states change.
LEMMA PidsStay ==
  ASSUME LoopInv, PidsInv, UNCHANGED loop,
         Foreground' \subseteq Foreground, Free \subseteq Free',
         \A q \in Procs \ Free' : proc'[q].foreground = proc[q].foreground
  PROVE  PidsInv'
<1>1. \A k \in DOMAIN waiting : waiting[k] \in Procs
  BY ElementOfSeq, LenProperties DEF LoopInv
<1> QED BY <1>1 DEF PidsInv, loop, Current

LEMMA PidsKept ==
  LoopInv /\ ProcInv /\ RestInv /\ PidsInv /\ [Next]_vars => PidsInv'
<1> SUFFICES ASSUME LoopInv, ProcInv, RestInv, PidsInv, [Next]_vars PROVE PidsInv'
  OBVIOUS
<1>1. CASE UNCHANGED <<loop, proc>>
  BY <1>1, PidsStay DEF Foreground, Free, Alive, In
<1>2. CASE Loops
  <2>1. UNCHANGED proc
    BY <1>2, LoopsEffect
  <2>2. Foreground' = Foreground /\ Free' = Free
    BY <2>1 DEF Foreground, Free, Alive, In
  <2>3. CASE at \notin WithPids /\ at' \notin WithPids
    BY <2>2, <2>3 DEF PidsInv
  <2>4. CASE ClosePipe
    <3>1. at = "close" /\ todo # << >> /\ \A q \in Foreground : proc[q].foreground /\ q \notin Free
      BY <2>4 DEF ClosePipe, At, LoopInv, Commanding, Foreground, Alive, Free, In
    <3>2. CASE Current.background
      <4>1. Foreground = {}
        <5> SUFFICES ASSUME NEW q \in Foreground PROVE FALSE
          OBVIOUS
        <5>1. PICK k \in DOMAIN waiting : waiting[k] = q
          BY DEF PidsInv
        <5>2. proc[q].foreground = ~Current.background
          BY <3>1, <5>1 DEF PidsInv, WithPids
        <5> QED BY <3>1, <3>2, <5>2
      <4>2. at' = "command"
        BY <2>4, <3>2 DEF ClosePipe, NextCommand, Go
      <4> QED BY <2>2, <4>1, <4>2 DEF PidsInv, WithPids
    <3>3. CASE ~Current.background
      <4>1. at' = "wait" /\ UNCHANGED <<todo, waiting>>
        BY <2>4, <3>3 DEF ClosePipe, Go
      <4> QED BY <2>1, <2>2, <3>1, <4>1 DEF PidsInv, WithPids, Current
    <3> QED BY <3>2, <3>3
  <2>5. CASE WaitFails
    <3>1. /\ at = "wait" /\ waiting # << >> /\ Head(waiting) \in Free
          /\ waiting' = Tail(waiting) /\ UNCHANGED <<at, todo>>
      BY <2>5 DEF WaitFails, At
    <3>2. Head(waiting) \notin Foreground'
      BY <2>2, <3>1 DEF Foreground, Alive, Free, In
    <3> QED BY <2>1, <2>2, <3>1, <3>2, PidsDropped DEF WithPids
  <2>6. CASE WaitDone
    <3>1. at' = "command" /\ waiting = << >>
      BY <2>6 DEF WaitDone, NextCommand, Go
    <3>2. Foreground = {}
      BY <3>1 DEF PidsInv
    <3> QED BY <2>2, <3>1, <3>2 DEF PidsInv, WithPids
  <2> QED
    BY <2>3, <2>4, <2>5, <2>6, <1>2
    DEF Loops, ShowPrompt, ReadLine, EndOfInput, Leave, Skip, Dispatch, Exit, Pending,
        BuiltinReturns, BuiltinExits, ForkFails, OpenPipe, PipeFails, NextCommand, At,
        Go, WithPids
<1>3. CASE Forks
  BY <1>3, PidsForked
<1>4. CASE PipeForkFails
  <2>1. at' = "command"
    BY <1>4 DEF PipeForkFails, NextCommand, Go
  <2>2. Foreground' = {}
    BY <1>4, GiveUpEffect DEF Foreground
  <2> QED BY <2>1, <2>2 DEF PidsInv, WithPids
<1>5. CASE Reaps
  <2>1. PICK p \in Zombies :
          /\ Reap(p) /\ UNCHANGED <<at, todo, pipefd, held, lost>>
          /\ WaitReaps => at = "wait" /\ waiting # << >>
                          /\ p = Head(waiting) /\ waiting' = Tail(waiting)
          /\ ~WaitReaps => UNCHANGED waiting
    BY <1>5, ReapsEffect
  <2>2. /\ Alive' = Alive /\ Free' = Free \cup {p}
        /\ \A q \in Procs \ {p} : proc'[q] = proc[q]
    BY <2>1, ReapEffect
  <2>3. p \notin Alive /\ Foreground' = Foreground
    BY <2>2 DEF Alive, Zombies, Foreground, In
  <2>4. CASE WaitReaps
    <3>1. Head(waiting) \notin Foreground'
      BY <2>1, <2>3, <2>4 DEF Foreground
    <3> QED BY <2>1, <2>2, <2>3, <2>4, <3>1, PidsDropped DEF WithPids
  <2>5. CASE ~WaitReaps
    BY <2>1, <2>2, <2>3, <2>5, PidsStay DEF loop
  <2> QED BY <2>4, <2>5
<1>6. CASE Buries
  <2>1. PICK S \in SUBSET Alive : Bury(S) /\ UNCHANGED loop
    BY <1>6, BuriesEffect
  <2>2. /\ Alive' = Alive \ S /\ Free' = Free
        /\ \A q \in Procs : proc'[q].foreground = proc[q].foreground
    BY <2>1, BuryEffect
  <2>3. Foreground' \subseteq Foreground
    BY <2>2 DEF Foreground, Alive, In
  <2> QED BY <2>1, <2>2, <2>3, PidsStay
<1>7. ASSUME NEW p \in Procs, Exec(p) \/ (p \in In({"running"}) /\ Write(p)) PROVE PidsInv'
  <2>1. RunsOn(p) /\ UNCHANGED loop
    BY <1>7, ExecEffect, WriteEffect DEF Exec, Write
  <2>2. /\ Alive' = Alive /\ Free' = Free
        /\ \A q \in Procs : proc'[q].foreground = proc[q].foreground
    BY <2>1 DEF RunsOn
  <2>3. Foreground' = Foreground
    BY <2>2 DEF Foreground, Alive, In
  <2> QED BY <2>1, <2>2, <2>3, PidsStay
<1>8. UNCHANGED vars \/ Handles \/ Reads => UNCHANGED <<loop, proc>>
  BY DEF vars, Handles, HandlerStarts, HandlerReturns, Reads, Read
<1> QED
  BY <1>1, <1>2, <1>3, <1>4, <1>5, <1>6, <1>7, <1>8, StepKinds DEF Execs, Writes, In
-----------------------------------------------------------------------------
LEMMA Initially == Init => IInv
<1> SUFFICES ASSUME Init PROVE IInv
  OBVIOUS
<1>1. LoopInv
  BY EmptySeq DEF Init, LoopInv, Places, Commanding, Piping, WithPids, WithPipe
<1>2. \A p \in Procs : proc[p] = None
  BY DEF Init
<1>3. Alive = {} /\ Zombies = {} /\ Foreground = {} /\ In({"forked"}) = {} /\ In({"running"}) = {}
  BY <1>2 DEF Alive, Zombies, In, Foreground, None
<1>4. ProcInv
  BY <1>3 DEF Init, ProcInv
<1>5. RestInv
  <2>1. content \in [Pipes -> 0..PIPE_BUF]
    BY BufferAssumption DEF Init
  <2>2. chld \in BOOLEAN /\ handling \in BOOLEAN /\ prompted \in BOOLEAN
    BY DEF Init
  <2>3. held \subseteq Ends /\ lost \subseteq Pipes
    BY DEF Init
  <2> QED BY <2>1, <2>2, <2>3 DEF RestInv
<1>6. ZombiesNoticed /\ EndsInv /\ PidsInv
  BY <1>3 DEF Init, ZombiesNoticed, EndsInv, PidsInv, WithPids
<1> QED BY <1>1, <1>4, <1>5, <1>6 DEF IInv

LEMMA StepKeeps == IInv /\ [Next]_vars => IInv'
BY LoopKept, ProcKept, RestKept, ZombiesKept, EndsKept, PidsKept DEF IInv

LEMMA Invariance == Spec => []IInv
BY Initially, StepKeeps, PTL DEF Spec
-----------------------------------------------------------------------------
\* Whatever the processes, pipes and lines, shell_run keeps at most the two pids
\* of its command, and a pipe's descriptors only while it sets one up.
THEOREM TypeCorrect == Spec => []TypeOK
<1>1. IInv => TypeOK
  <2> SUFFICES ASSUME IInv PROVE TypeOK
    OBVIOUS
  <2>1. todo \in Seq([kind : Kinds, named : Seq(BOOLEAN), background : BOOLEAN])
    <3> DEFINE C == [kind : Kinds, named : Seq(BOOLEAN), background : BOOLEAN]
    <3>1. CommandType \subseteq C
      BY DEF CommandType
    <3> HIDE DEF C
    <3>2. todo \in [1..Len(todo) -> CommandType] /\ Len(todo) \in Nat
      BY LenProperties DEF IInv, LoopInv
    <3>3. todo \in [1..Len(todo) -> C]
      BY <3>1, <3>2
    <3>4. todo \in Seq(C)
      BY <3>2, <3>3, SeqDef
    <3> QED BY <3>4 DEF C
  <2>2. /\ at \in Places
        /\ waiting \in Seq(Procs) /\ Len(waiting) <= 2
        /\ waiting # << >> => at \in {"fork_right", "close", "wait", "exited"}
        /\ pipefd \in Pipes \cup {NoPipe}
        /\ pipefd # NoPipe <=> at \in {"fork_left", "fork_right", "close"}
    BY DEF IInv, LoopInv, WithPids, WithPipe
  <2>3. proc \in [Procs -> Child \cup Zombie \cup {None}]
    BY DEF IInv, ProcInv
  <2> QED BY <2>1, <2>2, <2>3 DEF TypeOK, IInv, RestInv
<1> QED BY <1>1, Invariance, PTL

\* sigchld_handler's loop and the pending signal together miss no child: at every
\* moment of the shell's life a zombie has a handler running or to come.
THEOREM ZombiesNeverForgotten == Spec => []ZombiesNoticed
<1>1. IInv => ZombiesNoticed
  BY DEF IInv
<1> QED BY <1>1, Invariance, PTL

\* The close calls of execute_pipeline and of its children leave no end of a pipe
\* open that is not in use, but for pipes given up when fork failed.
THEOREM PipesClosed == Spec => []NoStrayEnds
<1>1. IInv => NoStrayEnds
  <2> SUFFICES ASSUME IInv PROVE NoStrayEnds
    OBVIOUS
  <2>1. ASSUME at \in {"prompt", "command", "builtin", "fork", "wait"}, NEW e \in held
        PROVE  e[1] \in lost
    <3>1. pipefd = NoPipe
      BY <2>1 DEF IInv, LoopInv, WithPipe
    <3>2. e[1] \in Pipes
      BY <2>1 DEF IInv, RestInv, Ends
    <3>3. e[1] \in lost \cup {pipefd}
      BY <2>1 DEF IInv, EndsInv
    <3> QED BY <3>1, <3>2, <3>3, PipesAssumption
  <2>2. \A p \in In({"running"}) : \A e \in proc[p].ends :
          e[1] \in lost \/ e \in OwnEnds(proc[p].role, proc[p].pipe)
    BY DEF IInv, EndsInv
  <2> QED BY <2>1, <2>2 DEF NoStrayEnds
<1> QED BY <1>1, Invariance, PTL

(* A waitpid in the loop takes a child of the command it is busy with: the pid *)
(* it asks for may have been reaped by the handler, but then it names no other *)
(* child, since nothing is forked while the loop waits.                        *)
LEMMA ReapsItsOwn ==
  ASSUME IInv, [Next]_vars, NEW p \in Procs, p \in Zombies, p \in Free', ~handling
  PROVE  proc[p].foreground
<1> USE DEF IInv
<1>1. p \notin Free
  BY DEF Zombies, Free, In
<1>2. Reaps
  <2>1. CASE UNCHANGED proc
    BY <1>1, <2>1 DEF Free, In
  <2>2. CASE Forks
    BY <1>1, <2>2, ForksEffect DEF Free, In, Newborn
  <2>3. CASE PipeForkFails
    BY <1>1, <2>3, GiveUpEffect
  <2>4. CASE Buries
    BY <1>1, <2>4, BuriesEffect, BuryEffect
  <2>5. CASE Execs
    BY <1>1, <2>5, ExecEffect DEF Execs, RunsOn
  <2>6. CASE Writes
    BY <1>1, <2>6, WriteEffect DEF Writes, RunsOn
  <2>7. UNCHANGED vars \/ Loops \/ Handles \/ Reads => UNCHANGED proc
    BY LoopsEffect DEF vars, Handles, HandlerStarts, HandlerReturns, Reads, Read
  <2> QED BY <2>1, <2>2, <2>3, <2>4, <2>5, <2>6, <2>7, StepKinds
<1>3. PICK q \in Zombies : /\ Reap(q) /\ at = "wait" /\ waiting # << >>
                           /\ q = Head(waiting)
  BY <1>2, ReapsEffect
<1>4. p = q
  BY <1>1, <1>3, ReapEffect
<1>5. 1 \in DOMAIN waiting /\ waiting[1] = p
  BY <1>3, <1>4, LenProperties, EmptySeq DEF LoopInv
<1>6. ~Current.background
  BY <1>3 DEF LoopInv
<1>7. p \in Free \/ proc[p].foreground = ~Current.background
  BY <1>3, <1>5 DEF PidsInv, WithPids
<1> QED BY <1>1, <1>6, <1>7

\* The waitpid(pid) of shell_run takes only the processes of its own command: the
\* end of a background job never completes one.
THEOREM WaitsOnlyForItsOwn == Spec => WaitsForItsOwn
<1>1. IInv /\ [Next]_vars =>
        [\A p \in Procs : p \in Zombies /\ p \in Free' /\ ~handling => proc[p].foreground]_vars
  BY ReapsItsOwn
<1> QED BY <1>1, Invariance, PTL DEF Spec, WaitsForItsOwn
-----------------------------------------------------------------------------
(* Shell implements Jobs, step by step.                                    *)

Phase == CASE at = "prompt" -> "prompt"
           [] at \in {"command", "builtin"} -> "command"
           [] at = "exited" -> "gone"
           [] OTHER -> "job"
Missing == CASE at \in {"fork", "fork_right"} -> 1
             [] at \in {"pipe", "fork_left"} -> 2
             [] OTHER -> 0

\* A step in which the loop moves between places of the same phase, or not at all.
LEMMA Stutters ==
  ASSUME UNCHANGED <<Phase, Missing, Alive, Foreground>>
  PROVE  UNCHANGED J!jvars
BY DEF J!jvars, Phase, Missing, Foreground

LEMMA LoopsImplement ==
  ASSUME IInv, Loops, at # "exited"
  PROVE  [J!JobsNext]_J!jvars
<1>1. UNCHANGED <<Alive, Foreground>>
  BY LoopsEffect DEF Alive, Foreground, In
<1> USE DEF Phase, Missing
<1>2. CASE ShowPrompt
  <2>1. at = "command" /\ at' = "prompt"
    BY <1>2 DEF ShowPrompt, At, Go
  <2>2. J!ShowPrompt
    BY <1>1, <2>1 DEF J!ShowPrompt, Foreground
  <2> QED BY <2>2 DEF J!JobsNext
<1>3. ASSUME NEW line \in Lines, ReadLine(line) PROVE J!JobsNext
  <2>1. at = "prompt" /\ at' = "command"
    BY <1>3 DEF ReadLine, At, Go
  <2>2. J!ReadCommands
    BY <1>1, <2>1 DEF J!ReadCommands, Foreground
  <2> QED BY <2>2 DEF J!JobsNext
<1>4. CASE EndOfInput \/ Exit \/ BuiltinExits
  <2>1. at \in {"prompt", "command", "builtin"} /\ at' = "exited"
    BY <1>4 DEF EndOfInput, Exit, BuiltinExits, Leave, Pending, At, Go
  <2>2. J!Leave
    BY <1>1, <2>1 DEF J!Leave, Foreground
  <2> QED BY <2>2 DEF J!JobsNext
<1>5. CASE Skip \/ BuiltinReturns
  <2>1. at \in {"command", "builtin"} /\ at' = "command"
    BY <1>5 DEF Skip, BuiltinReturns, Pending, NextCommand, At, Go
  <2> QED BY <1>1, <2>1, Stutters
<1>6. CASE Dispatch
  <2>1. at = "command" /\ at' \in {"pipe", "builtin", "fork"}
    BY <1>6 DEF Dispatch, Pending, At, Go
  <2>2. CASE at' = "builtin"
    BY <1>1, <2>1, <2>2, Stutters
  <2>3. CASE at' = "fork"
    <3>1. J!Begin(1)
      BY <1>1, <2>1, <2>3 DEF J!Begin, Foreground
    <3> QED BY <3>1 DEF J!JobsNext
  <2>4. CASE at' = "pipe"
    <3>1. J!Begin(2)
      BY <1>1, <2>1, <2>4 DEF J!Begin, Foreground
    <3> QED BY <3>1 DEF J!JobsNext
  <2> QED BY <2>1, <2>2, <2>3, <2>4
<1>7. CASE ForkFails \/ PipeFails
  <2>1. at \in {"fork", "pipe"} /\ at' = "command"
    BY <1>7 DEF ForkFails, PipeFails, NextCommand, At, Go
  <2>2. Foreground' = {}
    BY <1>1, <2>1 DEF IInv, PidsInv, WithPids
  <2>3. J!GiveUp
    BY <1>1, <2>1, <2>2 DEF J!GiveUp, Foreground
  <2> QED BY <2>3 DEF J!JobsNext
<1>8. ASSUME NEW f \in Pipes, OpenPipe(f) PROVE UNCHANGED J!jvars
  <2>1. at = "pipe" /\ at' = "fork_left"
    BY <1>8 DEF OpenPipe, At, Go
  <2> QED BY <1>1, <2>1, Stutters
<1>9. CASE ClosePipe
  <2>1. at = "close" /\ at' = (IF Current.background THEN "command" ELSE "wait")
    BY <1>9 DEF ClosePipe, NextCommand, At, Go
  <2>2. CASE Current.background
    <3>1. Foreground = {}
      <4> SUFFICES ASSUME NEW p \in Foreground PROVE FALSE
        OBVIOUS
      <4>1. p \notin Free /\ proc[p].foreground
        BY DEF Foreground, Alive, Free, In
      <4>2. PICK k \in DOMAIN waiting : waiting[k] = p
        BY DEF IInv, PidsInv
      <4>3. proc[p].foreground = ~Current.background
        BY <2>1, <4>1, <4>2 DEF IInv, PidsInv, WithPids
      <4> QED BY <2>2, <4>1, <4>3
    <3>2. at' = "command"
      BY <2>1, <2>2
    <3>3. J!Finish
      BY <1>1, <2>1, <3>1, <3>2 DEF J!Finish, Foreground
    <3> QED BY <3>3 DEF J!JobsNext
  <2>3. CASE ~Current.background
    <3>1. at' = "wait"
      BY <2>1, <2>3
    <3> QED BY <1>1, <2>1, <3>1, Stutters
  <2> QED BY <2>2, <2>3
<1>10. CASE WaitFails
  <2>1. at = "wait" /\ at' = "wait"
    BY <1>10 DEF WaitFails, At
  <2> QED BY <1>1, <2>1, Stutters
<1>11. CASE WaitDone
  <2>1. at = "wait" /\ at' = "command" /\ waiting = << >>
    BY <1>11 DEF WaitDone, NextCommand, At, Go
  <2>2. Foreground = {}
    BY <2>1 DEF IInv, PidsInv
  <2>3. J!Finish
    BY <1>1, <2>1, <2>2 DEF J!Finish, Foreground
  <2> QED BY <2>3 DEF J!JobsNext
<1> QED
  BY <1>2, <1>3, <1>4, <1>5, <1>6, <1>7, <1>8, <1>9, <1>10, <1>11 DEF Loops

LEMMA ForksImplement ==
  ASSUME IInv, Forks
  PROVE  J!JobsNext
<1> USE DEF IInv, Phase, Missing
<1>1. PICK p \in Procs : ForkSingle(p) \/ ForkLeft(p) \/ ForkRight(p)
  BY DEF Forks
<1>2. PICK background \in BOOLEAN : background = Current.background
  BY ForksEffect, CurrentTyped
<1>3. p \notin Alive
  BY <1>1 DEF ForkSingle, ForkLeft, ForkRight, Fork, Free, Alive, In
<1>4. /\ Alive' = Alive \cup {p}
      /\ Foreground' = IF background THEN Foreground ELSE Foreground \cup {p}
  <2>1. PICK q \in Procs, role \in {"single", "left", "right"}, part \in {1, 2} :
           /\ proc'[q] = Newborn(role, part) /\ q \in Free
           /\ \A r \in Procs \ {q} : proc'[r] = proc[r]
    BY ForksEffect
  <2>2. proc'[q].state = "forked" /\ proc'[q].foreground = ~Current.background
    BY <2>1 DEF Newborn
  <2>3. p \in Free /\ proc'[p].state = "forked"
    BY <1>1, <2>1 DEF ForkSingle, ForkLeft, ForkRight, Fork, ProcInv, Newborn
  <2>4. p = q
    BY <2>1, <2>3 DEF Free, In
  <2>5. Alive' = Alive \cup {p}
    BY <2>1, <2>2, <2>4 DEF Alive, Free, In
  <2> QED BY <1>2, <2>1, <2>2, <2>4, <2>5 DEF Foreground, Alive, Free, In
<1>5. \/ at = "fork" /\ at' = IF Current.background THEN "command" ELSE "wait"
      \/ at = "fork_left" /\ at' = "fork_right"
      \/ at = "fork_right" /\ at' = "close"
  BY <1>1 DEF ForkSingle, ForkLeft, ForkRight, NextCommand, At, Go
<1>6. at = "fork" => Foreground = {}
  BY DEF PidsInv, WithPids
<1>7. CASE at = "fork" /\ background
  <2>1. at' = "command" /\ Foreground' = {} /\ Foreground = {}
    BY <1>2, <1>4, <1>5, <1>6, <1>7
  <2>2. Phase = "job" /\ Missing = 1 /\ Phase' = "command" /\ Missing' = 0
    BY <1>7, <2>1
  <2>3. J!Start(p, background)
    BY <1>3, <1>4, <1>7, <2>1, <2>2 DEF J!Start, Foreground
  <2> QED BY <2>3 DEF J!JobsNext
<1>8. CASE ~(at = "fork" /\ background)
  <2>1. Phase = "job" /\ Phase' = "job" /\ Missing \in {1, 2} /\ Missing' = Missing - 1
    BY <1>2, <1>5, <1>8
  <2>2. J!Start(p, background)
    BY <1>3, <1>4, <2>1 DEF J!Start, Foreground
  <2> QED BY <2>2 DEF J!JobsNext
<1> QED BY <1>7, <1>8

\* Every command of shell_run runs by itself: the next one, or the prompt, comes
\* only when the processes it waits for have ended, however handler and children
\* come in between.
THEOREM ShellImplementsJobs == Spec => ImplementsJobs
<1>1. Init => J!JobsInit
  <2> SUFFICES ASSUME Init PROVE J!JobsInit
    OBVIOUS
  <2>1. \A p \in Procs : proc[p] = None
    BY DEF Init
  <2>2. Alive = {}
    BY <2>1 DEF Alive, In, None
  <2> QED BY <2>2 DEF Init, J!JobsInit
<1>2. IInv /\ [Next]_vars => [J!JobsNext]_J!jvars
  <2> SUFFICES ASSUME IInv, [Next]_vars PROVE [J!JobsNext]_J!jvars
    OBVIOUS
  <2> USE DEF IInv
  <2>1. CASE UNCHANGED <<at, proc>>
    BY <2>1, Stutters DEF Phase, Missing, Alive, Foreground, In
  <2>2. CASE Loops /\ at # "exited"
    BY <2>2, LoopsImplement
  <2>3. CASE Forks
    BY <2>3, ForksImplement
  <2>4. CASE PipeForkFails
    <3>1. at \in {"fork_left", "fork_right"} /\ at' = "command"
      BY <2>4 DEF PipeForkFails, NextCommand, At, Go
    <3>2. Alive' = Alive /\ Foreground' = {}
      BY <2>4, GiveUpEffect DEF Foreground
    <3>3. J!GiveUp
      BY <3>1, <3>2 DEF J!GiveUp, Foreground
    <3> QED BY <3>3 DEF J!JobsNext
  <2>5. CASE Reaps
    <3>1. PICK p \in Zombies : Reap(p) /\ UNCHANGED at
      BY <2>5, ReapsEffect
    <3>2. Alive' = Alive /\ \A q \in Procs \ {p} : proc'[q] = proc[q]
      BY <3>1, ReapEffect
    <3>3. Foreground' = Foreground
      BY <3>2 DEF Foreground, Alive, Zombies, In
    <3> QED BY <3>1, <3>2, <3>3, Stutters DEF Phase, Missing
  <2>6. CASE Buries
    <3>1. PICK S \in SUBSET Alive : Bury(S) /\ UNCHANGED at
      BY <2>6, BuriesEffect DEF loop
    <3>2. Alive' = Alive \ S /\ \A q \in Procs \ S : proc'[q] = proc[q]
      BY <3>1, BuryEffect
    <3>3. Foreground' = Foreground \ S
      BY <3>2 DEF Foreground, Alive, In
    <3>4. J!End(S)
      BY <3>1, <3>2, <3>3 DEF J!End, Foreground
    <3> QED BY <3>4 DEF J!JobsNext
  <2>7. ASSUME NEW p \in Procs, Exec(p) \/ (p \in In({"running"}) /\ Write(p))
        PROVE  UNCHANGED J!jvars
    <3>1. RunsOn(p) /\ UNCHANGED at
      BY <2>7, ExecEffect, WriteEffect DEF Exec, Write, loop
    <3>2. Alive' = Alive /\ Foreground' = Foreground
      BY <3>1 DEF RunsOn, Foreground, Alive, In
    <3> QED BY <3>1, <3>2, Stutters DEF Phase, Missing
  <2>8. UNCHANGED vars \/ Handles \/ Reads => UNCHANGED <<at, proc>>
    BY DEF vars, loop, Handles, HandlerStarts, HandlerReturns, Reads, Read
  <2> QED
    BY <2>1, <2>2, <2>3, <2>4, <2>5, <2>6, <2>7, <2>8, StepKinds DEF Execs, Writes, In
<1> QED BY <1>1, <1>2, Invariance, PTL DEF Spec, ImplementsJobs, J!JobsSpec
=============================================================================
