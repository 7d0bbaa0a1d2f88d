------------------------------- MODULE Debugger -------------------------------
(***************************************************************************)
(* A session of debugger_vm.c on a compiled program: breakpoints by source *)
(* line, step, next and continue over the interpreter of VM.tla.  step is  *)
(* one action; next and continue are loops, one action per turn.  A        *)
(* command that is refused, or only prints, changes nothing.               *)
(***************************************************************************)
EXTENDS CompiledCode, SequencesExt

CONSTANTS
  MAX_BREAKPOINTS,
  Files,           \* what codegen_compile returned for the submitted files
  Starts,          \* of each program: where its instructions begin, and its end
  Lines            \* the line numbers a user may type

ASSUME BreakpointsAssumption == MAX_BREAKPOINTS \in Nat
ASSUME LinesAssumption == Lines \subseteq Int

\* A node is entered in the source map before its code, and only with a line.
ASSUME FilesAssumption ==
  \A f \in Files :
    /\ f.code \in Programs
    /\ WholeCode(f.code, Starts[f.code])
    /\ f.source_map \in Seq([bytecode_offset : Nat, source_line : Nat \ {0}])
    /\ f.source_map # << >> => f.source_map[1].bytecode_offset = 0

VARIABLES
  source_map,      \* of the program being debugged
  breakpoints,     \* the bp_count entries in use
  last_line,
  command,         \* "create", "start", "prompt", "next", "continue" or "quit"
  start_line,      \* local of debugger_step_line; 0 outside it
  executed,        \* history: the line of the last instruction executed
  resumed          \* history: it was the first of a continue after a fault

session ==
  <<source_map, breakpoints, last_line, command, start_line, executed, resumed>>
dvars == <<vars, session>>
-----------------------------------------------------------------------------
LineAt(at) ==                              \* codegen_line_for_pc
  LET k == SelectLastInSeq(source_map, LAMBDA e : e.bytecode_offset <= at)
  IN  IF k = 0 THEN 0 ELSE source_map[k].source_line

Line == LineAt(pc)

PcForLine(line) ==                         \* codegen_pc_for_line
  LET k == SelectInSeq(source_map, LAMBDA e : e.source_line = line)
  IN  IF k = 0 THEN -1 ELSE source_map[k].bytecode_offset

Breakpoints == ToSet(breakpoints)
-----------------------------------------------------------------------------
DebuggerInit ==                            \* vm_create, debugger_create
  /\ Init
  /\ source_map = << >>
  /\ breakpoints = << >>
  /\ last_line = 0
  /\ command = "create"
  /\ start_line = 0
  /\ executed = 0
  /\ resumed = FALSE

Open ==                                    \* pm_debug loads the program
  /\ command = "create"
  /\ LoadProgram
  /\ \E f \in Files : f.code = code' /\ source_map' = f.source_map
  /\ command' = "start"
  /\ UNCHANGED <<breakpoints, last_line, start_line, executed, resumed>>

Interactive ==                             \* debugger_interactive up to dbg>
  /\ command = "start"
  /\ Resume
  /\ last_line' = LineAt(0)
  /\ command' = "prompt"
  /\ UNCHANGED <<source_map, breakpoints, start_line, executed, resumed>>

\* Faulty variant: a line that has a breakpoint gets a second one.
AddTwice(line) ==
  /\ command = "prompt"
  /\ Len(breakpoints) < MAX_BREAKPOINTS
  /\ PcForLine(line) >= 0
  /\ breakpoints' = Append(breakpoints, line)
  /\ UNCHANGED <<vars, source_map, last_line, command, start_line, executed, resumed>>

\* Faulty variant: the bound of the table is off by one.
AddOneTooMany(line) ==
  /\ command = "prompt"
  /\ Len(breakpoints) <= MAX_BREAKPOINTS
  /\ line \notin Breakpoints
  /\ PcForLine(line) >= 0
  /\ breakpoints' = Append(breakpoints, line)
  /\ UNCHANGED <<vars, source_map, last_line, command, start_line, executed, resumed>>

AddBreakpoint(line) ==
  /\ command = "prompt"
  /\ Len(breakpoints) < MAX_BREAKPOINTS
  /\ line \notin Breakpoints
  /\ PcForLine(line) >= 0
  /\ breakpoints' = Append(breakpoints, line)
  /\ UNCHANGED <<vars, source_map, last_line, command, start_line, executed, resumed>>

RemoveBreakpoint(line) ==                  \* the last entry fills the hole
  /\ command = "prompt"
  /\ line \in Breakpoints
  /\ LET at == SelectInSeq(breakpoints, LAMBDA b : b = line)
         last == Len(breakpoints)
     IN  breakpoints' = [k \in 1..last - 1 |->
                           breakpoints[IF k = at THEN last ELSE k]]
  /\ UNCHANGED <<vars, source_map, last_line, command, start_line, executed, resumed>>

\* Faulty variant: a program that has halted can be set running again.
GoesAfterHalt == running \/ pc <= Len(code)

\* step, next and continue set a stopped VM running again unless pc is at the
\* end of the code; otherwise they only report that the program has halted.
Goes == running \/ pc < Len(code)

Continued(now) == command' = IF running' THEN now ELSE "prompt"

\* Faulty variant: the line shown is the one the instruction was on.
StepKeepsLine ==
  /\ command = "prompt"
  /\ Goes
  /\ Step
  /\ executed' = Line
  /\ last_line' = IF Line > 0 THEN Line ELSE last_line
  /\ UNCHANGED <<source_map, breakpoints, command, start_line, resumed>>

StepInstruction ==                         \* debugger_step_instruction
  /\ command = "prompt"
  /\ Goes
  /\ Step
  /\ executed' = Line
  /\ last_line' = IF LineAt(pc') > 0 THEN LineAt(pc') ELSE last_line
  /\ UNCHANGED <<source_map, breakpoints, command, start_line, resumed>>

NextBegin ==                               \* debugger_step_line
  /\ command = "prompt"
  /\ Goes
  /\ Resume
  /\ start_line' = Line
  /\ command' = "next"
  /\ UNCHANGED <<source_map, breakpoints, last_line, executed, resumed>>

NextTurn ==
  /\ command = "next"
  /\ Step
  /\ executed' = Line
  /\ LET line == LineAt(pc')
     IN  IF line # start_line /\ line > 0
           THEN last_line' = line /\ command' = "prompt"
           ELSE UNCHANGED last_line /\ Continued("next")
  /\ start_line' = IF command' = "next" THEN start_line ELSE 0
  /\ UNCHANGED <<source_map, breakpoints, resumed>>

ContinueFirst ==                           \* past the current position, unchecked
  /\ command = "prompt"
  /\ Goes
  /\ Step
  /\ executed' = Line
  /\ resumed' = ~running
  /\ Continued("continue")
  /\ UNCHANGED <<source_map, breakpoints, last_line, start_line>>

\* Faulty variant: the search stops one entry early.
AllButLastBreakpoint ==
  /\ Line \in {breakpoints[k] : k \in 1..Len(breakpoints) - 1}
  /\ Line # last_line

AtBreakpoint == Line > 0 /\ Line \in Breakpoints /\ Line # last_line

ContinueHit ==
  /\ command = "continue"
  /\ AtBreakpoint
  /\ last_line' = Line
  /\ command' = "prompt"
  /\ resumed' = FALSE
  /\ UNCHANGED <<vars, source_map, breakpoints, start_line, executed>>

\* Faulty variant: last_line is left at the line continue was given on.
ContinueKeepsLine ==
  /\ command = "continue"
  /\ ~AtBreakpoint
  /\ Step
  /\ executed' = Line
  /\ resumed' = FALSE
  /\ Continued("continue")
  /\ UNCHANGED <<source_map, breakpoints, last_line, start_line>>

ContinueTurn ==
  /\ command = "continue"
  /\ ~AtBreakpoint
  /\ Step
  /\ executed' = Line
  /\ resumed' = FALSE
  /\ last_line' = IF Line > 0 THEN Line ELSE last_line
  /\ Continued("continue")
  /\ UNCHANGED <<source_map, breakpoints, start_line>>

DebuggeeTraps ==                           \* SIGFPE in any of the commands
  /\ \/ command = "prompt" /\ Goes
     \/ command = "next"
     \/ command = "continue" /\ ~AtBreakpoint
  /\ Trap
  /\ UNCHANGED session

Quit ==                                    \* quit, or end of input
  /\ command = "prompt"
  /\ host = "idle"
  /\ command' = "quit"
  /\ UNCHANGED <<vars, source_map, breakpoints, last_line, start_line, executed, resumed>>

Over == (command = "quit" \/ host = "killed") /\ UNCHANGED dvars

Turn == NextTurn \/ ContinueHit \/ ContinueTurn \/ DebuggeeTraps

DebuggerNext ==
  \/ Open \/ Interactive
  \/ host = "idle" /\ \E line \in Lines : AddBreakpoint(line) \/ RemoveBreakpoint(line)
  \/ StepInstruction \/ NextBegin \/ ContinueFirst
  \/ Turn
  \/ Quit \/ Over

\* next and continue are loops on the only thread; the user need not type.
DebuggerSpec ==
  /\ DebuggerInit /\ [][DebuggerNext]_dvars
  /\ WF_dvars(command \in {"next", "continue"} /\ Turn)
-----------------------------------------------------------------------------
DebuggerTypeOK ==
  /\ TypeOK
  /\ source_map \in Seq([bytecode_offset : Nat, source_line : Nat \ {0}])
  /\ breakpoints \in Seq(Lines)
  /\ Len(breakpoints) <= MAX_BREAKPOINTS
  /\ last_line \in Nat
  /\ command \in {"create", "start", "prompt", "next", "continue", "quit"}
  /\ start_line \in Nat
  /\ executed \in Nat
  /\ resumed \in BOOLEAN

\* Whenever the user is asked for a command and the program can go on, last_line
\* is the line of the next instruction: step, next, continue, a hit breakpoint
\* and a resumption after a fault all leave it so, and continue relies on it to
\* tell a breakpoint it is leaving from one it is entering.
LastLineCurrent ==
  command = "prompt" /\ host = "idle" /\ running => last_line = Line

\* continue executes an instruction of a line with a breakpoint only if it was
\* on that line already, or at its very first instruction: no line is entered
\* past its breakpoint, backwards by a loop or after stops of any kind, with one
\* exception, the second instruction of a continue that is given after a fault.
NoBreakpointMissed ==
  [][command = "continue" /\ ~resumed /\ pc' # pc /\ Line \in Breakpoints
       => executed = Line]_dvars

\* delete forgets the line it is given, whatever was set and deleted before, and
\* no other: the entry moved into the hole is not lost and no line is held twice.
DeleteForgets ==
  [][\A line \in Lines :
       RemoveBreakpoint(line) => Breakpoints' = Breakpoints \ {line}]_dvars

\* Once OP_HALT has been executed no command executes another instruction:
\* compiled code ends in its only OP_HALT, so pc is then at the end.
HaltIsFinal ==
  [][command = "prompt" /\ ~running /\ error = "VM_OK"
       => UNCHANGED <<pc, data, running>>]_dvars

\* next never returns only if the program stays on one line for ever, and a
\* continue that never returns does not keep entering a line with a breakpoint.
OnlyOneLineHangs ==
  /\ <>[](command = "next") => <>[](Line = start_line)
  /\ \A b \in Lines :
       <>[](command = "continue" /\ b \in Breakpoints)
         => <>[](Line = b) \/ <>[](Line # b)

\* What the process table sees of a session is what it reckons with: a VM that
\* is created running, goes on only if it runs or pc is in the code, never both
\* runs and has faulted, and is PAUSED or FINISHED when the user quits.
Opened == command \notin {"create", "start"}
Seen == [running |-> running, fault |-> error # "VM_OK", inside |-> pc < Len(code)]
EntryState == CASE command = "start" -> "SUBMITTED"
                [] command = "quit" /\ ~running -> "FINISHED"
                [] OTHER -> "PAUSED"

Table ==
  IF command = "create" THEN << >>
  ELSE <<[pid |-> 1, state |-> EntryState, vm |-> IF Opened THEN 1 ELSE 0]>>
Pid == IF command = "create" THEN 1 ELSE 2
VMTable == IF Opened /\ host # "killed" THEN <<Seen>> ELSE << >>
InSession == Opened /\ command # "quit" /\ host # "killed"
OpenCall == CASE host = "killed" -> "exited"
              [] InSession -> "pm_debug"
              [] OTHER -> "prompt"

PM == INSTANCE ProgramManager WITH
        MAX_PROGRAMS <- 1, VMs <- {1}, NULL <- 0,
        programs <- Table, next_pid <- Pid, vms <- VMTable,
        call <- OpenCall, entry <- IF InSession THEN 1 ELSE 0
ImplementsManager == PM!Spec

\* README.md:130, continue runs "until next breakpoint or program end", and
\* debugger_vm.c:110: only the breakpoint that continue stands on is passed.  So no
\* line with a breakpoint is entered from another line.
ContinueStopsAtLine ==
  [][command = "continue" /\ pc' # pc /\ Line \in Breakpoints => executed = Line]_dvars

\* debugger_vm.c:31-35: a breakpoint on a line without code is refused.
BreakpointsHaveCode ==
  \A b \in Breakpoints : \E at \in 0..Len(code) - 1 : LineAt(at) = b
=============================================================================
