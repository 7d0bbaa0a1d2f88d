--------------------------------- MODULE Shell ---------------------------------
(***************************************************************************)
(* Process control in shell.c: the loop of shell_run with fork, exec, wait *)
(* and pipe, the two signal handlers, and the children.                    *)
(*                                                                         *)
(* The shell has one thread, but its SIGCHLD handler runs between any two  *)
(* of its steps and calls waitpid for any child, while the loop waits for  *)
(* the children of the foreground command.  glibc's signal() blocks the    *)
(* signal inside its handler and restarts the call it interrupted, so      *)
(* waitpid and fgets go on after a handler has returned.                   *)
(*                                                                         *)
(* External programs are modelled by what the pipes between them can tell: *)
(* the left one writes some output, the right one reads to the end.        *)
(***************************************************************************)
EXTENDS CommandLine, FiniteSets

CONSTANTS
  Procs,         \* process ids; fork fails when all are in use
  Pipes,         \* pipes the descriptor table has room for
  NoPipe,
  Lines,         \* what a user may type: sequences of commands
  PIPE_BUF,      \* items a pipe holds
  MaxOutput      \* items the left program of a pipe writes, at most

ASSUME PipesAssumption == NoPipe \notin Pipes
ASSUME LinesAssumption == Lines \subseteq Seq(Seq(STRING))
ASSUME BufferAssumption == PIPE_BUF \in Nat \ {0} /\ MaxOutput \in Nat

VARIABLES
  at,            \* where shell_run is
  todo,          \* commands of the line still to do, the current one first
  waiting,       \* pids still to be passed to waitpid, p1 and p2 in the code
  pipefd,        \* the pipe of the current command
  held,          \* pipe ends open in the shell
  lost,          \* pipes of commands given up half way (history)
  proc,          \* the children
  content,       \* items in each pipe
  chld,          \* a SIGCHLD is pending
  handling,      \* sigchld_handler is running
  prompted       \* the prompt is the last thing on the terminal

loop == <<at, todo, waiting, pipefd, held, lost>>
signals == <<chld, handling>>
vars == <<loop, proc, content, signals, prompted>>

Kinds == {"refused", "pipe", "builtin", "exit", "external"}
Places == {"prompt", "command", "builtin", "fork", "pipe", "fork_left", "fork_right",
           "close", "wait", "exited"}
Ends == Pipes \X {"r", "w"}
BothEnds(f) == {<<f, "r">>, <<f, "w">>}

Child == [state : {"forked", "running"},
          role : {"single", "left", "right"},
          pipe : Pipes \cup {NoPipe},
          named : BOOLEAN,                \* argv[0] is not NULL
          output : 0..MaxOutput,
          ends : SUBSET Ends,
          foreground : BOOLEAN]           \* the loop waits for it (history)
Zombie == [state : {"zombie"}, foreground : BOOLEAN]
None == [state |-> "none"]

In(states) == {p \in Procs : proc[p].state \in states}
Free == In({"none"})
Zombies == In({"zombie"})
Alive == In({"forked", "running"})

Holders(e) == {p \in Alive : e \in proc[p].ends}
Open(e) == e \in held \/ Holders(e) # {}

OwnEnds(role, f) ==          \* what a child keeps of its pipe, as stdin or stdout
  CASE role = "left" -> {<<f, "w">>}
    [] role = "right" -> {<<f, "r">>}
    [] role = "single" -> {}
-----------------------------------------------------------------------------
Init ==
  /\ at = "command"
  /\ todo = << >>
  /\ waiting = << >>
  /\ pipefd = NoPipe
  /\ held = {}
  /\ lost = {}
  /\ proc = [p \in Procs |-> None]
  /\ content = [f \in Pipes |-> 0]
  /\ chld = FALSE
  /\ handling = FALSE
  /\ prompted = FALSE

Current == Head(todo)
At(place) == at = place /\ ~handling
Go(place) == at' = place
NextCommand == Go("command") /\ todo' = Tail(todo)      \* strtok_r, and the frees
Pending == At("command") /\ todo # << >>

ShowPrompt ==
  /\ At("command")
  /\ todo = << >>
  /\ Go("prompt")
  /\ prompted' = TRUE
  /\ UNCHANGED <<todo, waiting, pipefd, held, lost, proc, content, signals>>

ReadLine(line) ==
  /\ At("prompt")
  /\ Go("command")
  /\ todo' = Commands(line)
  /\ prompted' = FALSE
  /\ UNCHANGED <<waiting, pipefd, held, lost, proc, content, signals>>

Leave ==                     \* the shell is gone, and its descriptors with it
  /\ Go("exited")
  /\ held' = {}
  /\ prompted' = FALSE
  /\ UNCHANGED <<todo, waiting, pipefd, lost, proc, content, signals>>

EndOfInput == At("prompt") /\ Leave
Exit == Pending /\ Current.kind = "exit" /\ Leave

Skip ==
  /\ Pending
  /\ Current.kind = "refused"
  /\ NextCommand
  /\ UNCHANGED <<waiting, pipefd, held, lost, proc, content, signals, prompted>>

Dispatch ==
  /\ Pending
  /\ Current.kind \in {"pipe", "builtin", "external"}
  /\ Go(IF Current.kind = "external" THEN "fork" ELSE Current.kind)
  /\ UNCHANGED <<todo, waiting, pipefd, held, lost, proc, content, signals, prompted>>

BuiltinReturns ==            \* the call into program_manager.c: it may be long
  /\ At("builtin")
  /\ NextCommand
  /\ UNCHANGED <<waiting, pipefd, held, lost, proc, content, signals, prompted>>

BuiltinExits ==              \* exit(1) of the compiler, or a trap of the interpreter
  /\ At("builtin")
  /\ Leave
-----------------------------------------------------------------------------
(* fork and pipe                                                           *)

Newborn(role, part) ==       \* a copy of the shell, descriptors and all
  [state |-> "forked", role |-> role, pipe |-> pipefd, named |-> Current.named[part],
   output |-> 0, ends |-> held, foreground |-> ~Current.background]

Fork(p, role, part) ==
  /\ p \in Free
  /\ proc' = [proc EXCEPT ![p] = Newborn(role, part)]

ForkSingle(p) ==
  /\ At("fork")
  /\ Fork(p, "single", 1)
  /\ IF Current.background
       THEN NextCommand /\ UNCHANGED waiting
       ELSE Go("wait") /\ waiting' = <<p>> /\ UNCHANGED todo
  /\ UNCHANGED <<pipefd, held, lost, content, signals, prompted>>

ForkFails ==
  /\ At("fork")
  /\ NextCommand
  /\ UNCHANGED <<waiting, pipefd, held, lost, proc, content, signals, prompted>>

OpenPipe(f) ==
  /\ At("pipe")
  /\ \A e \in BothEnds(f) : ~Open(e)
  /\ pipefd' = f
  /\ held' = held \cup BothEnds(f)
  /\ content' = [content EXCEPT ![f] = 0]
  /\ Go("fork_left")
  /\ UNCHANGED <<todo, waiting, lost, proc, signals, prompted>>

PipeFails ==
  /\ At("pipe")
  /\ NextCommand
  /\ UNCHANGED <<waiting, pipefd, held, lost, proc, content, signals, prompted>>

ForkLeft(p) ==
  /\ At("fork_left")
  /\ Fork(p, "left", 1)
  /\ waiting' = <<p>>
  /\ Go("fork_right")
  /\ UNCHANGED <<todo, pipefd, held, lost, content, signals, prompted>>

ForkRight(p) ==
  /\ At("fork_right")
  /\ Fork(p, "right", 2)
  /\ waiting' = Append(waiting, p)
  /\ Go("close")
  /\ UNCHANGED <<todo, pipefd, held, lost, content, signals, prompted>>

PipeForkFails ==             \* return -1: the pipe stays open, p1 is not waited for
  /\ At("fork_left") \/ At("fork_right")
  /\ NextCommand
  /\ lost' = lost \cup {pipefd}
  /\ waiting' = << >>
  /\ pipefd' = NoPipe
  /\ proc' = [p \in Procs |-> IF p \in Alive \cup Zombies
                                THEN [proc[p] EXCEPT !.foreground = FALSE] ELSE proc[p]]
  /\ UNCHANGED <<held, content, signals, prompted>>

\* Faulty variant: the two pids of a background command are kept.
CloseKeepsPids ==
  /\ At("close")
  /\ held' = held \ BothEnds(pipefd)
  /\ pipefd' = NoPipe
  /\ UNCHANGED waiting
  /\ IF Current.background THEN NextCommand ELSE Go("wait") /\ UNCHANGED todo
  /\ UNCHANGED <<lost, proc, content, signals, prompted>>

\* Faulty variant: only the second process is waited for.
CloseForgetsLeft ==
  /\ At("close")
  /\ held' = held \ BothEnds(pipefd)
  /\ pipefd' = NoPipe
  /\ IF Current.background
       THEN NextCommand /\ waiting' = << >>
       ELSE Go("wait") /\ waiting' = Tail(waiting) /\ UNCHANGED todo
  /\ UNCHANGED <<lost, proc, content, signals, prompted>>

\* Faulty variant: the shell keeps the end it does not read from.
CloseReadEnd ==
  /\ At("close")
  /\ held' = held \ {<<pipefd, "r">>}
  /\ pipefd' = NoPipe
  /\ IF Current.background
       THEN NextCommand /\ waiting' = << >>
       ELSE Go("wait") /\ UNCHANGED <<todo, waiting>>
  /\ UNCHANGED <<lost, proc, content, signals, prompted>>

ClosePipe ==
  /\ At("close")
  /\ held' = held \ BothEnds(pipefd)
  /\ pipefd' = NoPipe
  /\ IF Current.background
       THEN NextCommand /\ waiting' = << >>
       ELSE Go("wait") /\ UNCHANGED <<todo, waiting>>
  /\ UNCHANGED <<lost, proc, content, signals, prompted>>
-----------------------------------------------------------------------------
(* waitpid, in the loop and in the handler                                 *)

Reap(p) == proc' = [proc EXCEPT ![p] = None]

\* Faulty variant: wait(NULL), which takes any child.
WaitReapsAny ==
  /\ At("wait")
  /\ waiting # << >>
  /\ \E p \in Zombies : Reap(p)
  /\ waiting' = Tail(waiting)
  /\ UNCHANGED <<at, todo, pipefd, held, lost, content, signals, prompted>>

WaitReaps ==
  /\ At("wait")
  /\ waiting # << >>
  /\ Head(waiting) \in Zombies
  /\ Reap(Head(waiting))
  /\ waiting' = Tail(waiting)
  /\ UNCHANGED <<at, todo, pipefd, held, lost, content, signals, prompted>>

WaitFails ==                 \* ECHILD: the handler was first; status is not written
  /\ At("wait")
  /\ waiting # << >>
  /\ Head(waiting) \in Free
  /\ waiting' = Tail(waiting)
  /\ UNCHANGED <<at, todo, pipefd, held, lost, proc, content, signals, prompted>>

WaitDone ==
  /\ At("wait")
  /\ waiting = << >>
  /\ NextCommand
  /\ UNCHANGED <<waiting, pipefd, held, lost, proc, content, signals, prompted>>

\* Faulty variant: children are reaped between commands only, not in a builtin.
HandlerStartsBetween ==
  /\ chld
  /\ ~handling
  /\ at # "builtin"
  /\ chld' = FALSE
  /\ handling' = TRUE
  /\ UNCHANGED <<loop, proc, content, prompted>>

HandlerStarts ==
  /\ chld
  /\ ~handling
  /\ chld' = FALSE
  /\ handling' = TRUE
  /\ UNCHANGED <<loop, proc, content, prompted>>

HandlerReaps ==
  /\ handling
  /\ \E p \in Zombies : Reap(p)
  /\ UNCHANGED <<loop, content, signals, prompted>>

\* Faulty variant: if for while; the handler returns with children left.
HandlerReapsOnce ==
  /\ handling
  /\ handling' = FALSE
  /\ UNCHANGED <<loop, proc, content, chld, prompted>>

HandlerReturns ==            \* waitpid found no child that has ended
  /\ handling
  /\ Zombies = {}
  /\ handling' = FALSE
  /\ UNCHANGED <<loop, proc, content, chld, prompted>>
-----------------------------------------------------------------------------
(* The children                                                            *)

Bury(S) ==                   \* they end; their descriptors close; SIGCHLD
  /\ proc' = [p \in Procs |->
                IF p \in S THEN [state |-> "zombie", foreground |-> proc[p].foreground]
                           ELSE proc[p]]
  /\ chld' = (chld \/ S # {})
  /\ UNCHANGED handling

\* Faulty variant: the child does not close the descriptors of its pipe.
ExecKeepsEnds(p) ==
  /\ p \in In({"forked"})
  /\ proc[p].named
  /\ \E n \in IF proc[p].role = "left" THEN 0..MaxOutput ELSE {0} :
       proc' = [proc EXCEPT ![p].state = "running", ![p].output = n]
  /\ UNCHANGED <<loop, content, signals, prompted>>

Exec(p) ==                   \* dup2 and close, the redirections, execvp
  /\ p \in In({"forked"})
  /\ proc[p].named
  /\ \E n \in IF proc[p].role = "left" THEN 0..MaxOutput ELSE {0} :
       proc' = [proc EXCEPT ![p].state = "running", ![p].output = n,
                            ![p].ends = (@ \ BothEnds(proc[p].pipe))
                                          \cup OwnEnds(proc[p].role, proc[p].pipe)]
  /\ UNCHANGED <<loop, content, signals, prompted>>

ExecFails(p) ==              \* a file cannot be opened, or execvp returns
  /\ p \in In({"forked"})
  /\ Bury({p})
  /\ UNCHANGED <<loop, content, prompted>>

Write(p) ==
  LET f == proc[p].pipe
  IN  /\ proc[p].output > 0
      /\ Open(<<f, "r">>)
      /\ content[f] < PIPE_BUF
      /\ content' = [content EXCEPT ![f] = @ + 1]
      /\ proc' = [proc EXCEPT ![p].output = @ - 1]
      /\ UNCHANGED <<loop, signals, prompted>>

Read(p) ==
  LET f == proc[p].pipe
  IN  /\ proc[p].role = "right"
      /\ content[f] > 0
      /\ content' = [content EXCEPT ![f] = @ - 1]
      /\ UNCHANGED <<loop, proc, signals, prompted>>

HasEnded(p) ==               \* has written it all, or meets SIGPIPE or end of file
  LET f == proc[p].pipe
  IN  CASE proc[p].role = "single" -> TRUE
        [] proc[p].role = "left" -> proc[p].output = 0 \/ ~Open(<<f, "r">>)
        [] proc[p].role = "right" -> content[f] = 0 /\ ~Open(<<f, "w">>)

ProgramEnds(p) ==
  /\ HasEnded(p)
  /\ Bury({p})
  /\ UNCHANGED <<loop, content, prompted>>

ProgramStep(p) == p \in In({"running"}) /\ (Write(p) \/ Read(p) \/ ProgramEnds(p))

ChildStep(p) == Exec(p) \/ ExecFails(p) \/ ProgramStep(p)

Dies(p) ==                   \* for reasons of its own, or by a signal
  /\ p \in In({"running"})
  /\ Bury({p})
  /\ UNCHANGED <<loop, content, prompted>>

\* Ctrl-C, to the whole group: the shell's handler writes a newline; a child has
\* that handler too until its signal(SIGINT, SIG_DFL), and a program may catch it.
Interrupt ==
  /\ \E S \in SUBSET Alive : Bury(S)
  /\ prompted' = FALSE
  /\ UNCHANGED <<loop, content>>
-----------------------------------------------------------------------------
LoopStep ==                  \* all that shell_run does of its own accord
  \/ ShowPrompt \/ Skip \/ Dispatch \/ Exit
  \/ (\E p \in Procs : ForkSingle(p) \/ ForkLeft(p) \/ ForkRight(p))
  \/ ForkFails \/ (\E f \in Pipes : OpenPipe(f)) \/ PipeFails \/ PipeForkFails
  \/ ClosePipe
  \/ WaitReaps \/ WaitFails \/ WaitDone

HandlerStep == HandlerStarts \/ HandlerReaps \/ HandlerReturns

UserStep ==
  \/ (\E line \in Lines : ReadLine(line)) \/ EndOfInput \/ Interrupt

Exited == at = "exited" /\ UNCHANGED vars

Next ==
  \/ /\ at # "exited"
     /\ \/ LoopStep \/ HandlerStep \/ UserStep
        \/ BuiltinReturns \/ BuiltinExits
        \/ \E p \in Procs : ChildStep(p) \/ Dies(p)
  \/ Exited

Spec == Init /\ [][Next]_vars

\* The scheduler runs the shell and its children; signals are delivered.  A
\* program goes on as long as its pipe lets it, and one on its own ends.  The
\* user need not do anything and a builtin need not return.
FairSpec ==
  /\ Spec
  /\ WF_vars(LoopStep)
  /\ WF_vars(HandlerStep)
  /\ \A p \in Procs : WF_vars(ChildStep(p))
-----------------------------------------------------------------------------
TypeOK ==
  /\ at \in Places
  /\ todo \in Seq([kind : Kinds, named : Seq(BOOLEAN), background : BOOLEAN])
  /\ waiting \in Seq(Procs) /\ Len(waiting) <= 2
  /\ waiting # << >> => at \in {"fork_right", "close", "wait", "exited"}
  /\ pipefd \in Pipes \cup {NoPipe}
  /\ pipefd # NoPipe <=> at \in {"fork_left", "fork_right", "close"}
  /\ held \subseteq Ends
  /\ lost \subseteq Pipes
  /\ proc \in [Procs -> Child \cup Zombie \cup {None}]
  /\ content \in [Pipes -> 0..PIPE_BUF]
  /\ chld \in BOOLEAN /\ handling \in BOOLEAN /\ prompted \in BOOLEAN

\* A child that has ended and is not reaped has a handler to reap it, running
\* or about to run, whatever the signals that were merged into one and whenever
\* the child ended: no zombie can be forgotten.
ZombiesNoticed == at # "exited" /\ Zombies # {} => chld \/ handling

\* Outside the commands that make a pipe the shell holds no end of one, and a
\* program no end but its own; what a failed fork left open is the exception.
NoStrayEnds ==
  /\ at \in {"prompt", "command", "builtin", "fork", "wait"} =>
       \A e \in held : e[1] \in lost
  /\ \A p \in In({"running"}) : \A e \in proc[p].ends :
       e[1] \in lost \/ e \in OwnEnds(proc[p].role, proc[p].pipe)

\* The loop reaps only children of the command it is waiting for: what a
\* background job left is the handler's, and its end completes no command.
WaitsForItsOwn ==
  [][\A p \in Procs : p \in Zombies /\ p \in Free' /\ ~handling => proc[p].foreground]_vars

\* One command at a time, over when its processes have ended (Jobs).  A pipe
\* whose second process cannot be started is given up with the first running.
J == INSTANCE Jobs WITH
       MaxParts <- 2,
       phase <- CASE at = "prompt" -> "prompt"
                  [] at \in {"command", "builtin"} -> "command"
                  [] at = "exited" -> "gone"
                  [] OTHER -> "job",
       missing <- CASE at \in {"fork", "fork_right"} -> 1
                    [] at \in {"pipe", "fork_left"} -> 2
                    [] OTHER -> 0,
       running <- Alive,
       foreground <- {p \in Alive : proc[p].foreground}
ImplementsJobs == J!JobsSpec

\* Children that end are reaped, also during a builtin that never returns, and
\* the loop of the handler comes to its end.
ZombiesReaped == Zombies # {} ~> Zombies = {} \/ at = "exited"

\* A foreground command comes back: the programs around a pipe end, because all
\* other ends of it get closed, and neither of the two waits is for a child that
\* the handler has taken.
CommandsReturn == at = "wait" ~> at # "wait"

\* shell.c:24-25: sigint_handler prints no prompt, the loop handles reprompting.
Reprompts == at = "prompt" /\ ~prompted ~> prompted \/ at # "prompt"
=============================================================================
