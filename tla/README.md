# A TLA+ model of the shell, its virtual machine and its debugger

The repository is a Unix shell that compiles programs of a small language (`.lang`)
to bytecode, runs each on a virtual machine of its own, and debugs them by source
line. This directory holds TLA+ modules translated from its sources, TLC
configurations that check them, and proofs that TLAPS checks. Line numbers below
refer to the repository's files.

## The system

| Component | Source | State it keeps | Operations |
|---|---|---|---|
| Interpreter | `vm.c`, `instructions.h` | code, pc, operand stack, return stack, 256 variables, `running`, `error` | `vm_load_program`, `vm_run`, `vm_step`, one case per opcode |
| Collector | `gc.c` | object list and count, threshold, marks, the value stack (the roots) | `new_*`, `push`, `pop`, `gc_collect`, `gc_cleanup` |
| Program manager | `program_manager.c` | up to 64 entries: pid, state, bytecode, VM | submit, run, debug, kill, and commands that report |
| Debugger | `debugger_vm.c` | breakpoints, `last_line` | break, delete, step, next, continue, quit |
| Compiler | `codegen.c` | the program being emitted: code, slots, source map | `codegen_compile`, and line lookups |
| Tree, evaluator | `ast.c` | a symbol table | constructors, `eval` |
| Lexer, parser | `lexer.l`, `parser.y` | `yylineno`, `root` | a node per grammar action |
| Shell | `shell.c`, `main.c` | the line being worked off, child processes, pipe ends, two signal handlers | builtins, fork/exec, pipes, waiting, reaping |

How they interact: the shell has one thread. `submit` parses a file and compiles
the tree; `run` and `debug` create a VM, give it a copy of the code and do not
return to the prompt before `vm_run`, or the user's debugger session, is over.
The debugger calls `vm_step` and also writes `running` and `error` itself. The VM
holds the heap of the collector, but no opcode allocates an object: the
collector's client is C code outside this repository that links `gc.h`. `eval` is
not called by the shell; it is the repository's other account of the language.

What is hard: the interpreter takes any bytes, so its bounds have to hold for jumps
into operands; each instruction has error paths between its pops; the
`running`/`error` pair is read by three different loops (`vm_run` on both fields,
the debugger's on one) and reset by the debugger after a fault; the sweep edits the
list it walks; the mark is recursive over cyclic graphs and objects are reused
between collections; `last_line` alone tells `continue` whether it is leaving or
entering a breakpoint; sequences of run, debug and kill must not lose or share a
VM; the SIGCHLD handler reaps children between any two steps of a loop that waits for
some of them, and a pipe is only at its end when three processes have closed it.
Nothing is persisted and, child processes apart, nothing runs concurrently, so there
are no crash-recovery or messaging hazards. `PROJECT.json` lists each hazard at its
line with the properties aimed at it.

## Modules

| Module | Models | Extends / instantiates |
|---|---|---|
| `Words` | `int32_t` at a chosen width: wrapping, truncating division | |
| `Instructions` | opcodes of `instructions.h` | `Words` |
| `VM` | the interpreter and its host's calls | `Instructions` |
| `VMProofs` | theorems about `VM` | `VM`, TLAPS |
| `Nodes` | the nodes the parser builds | |
| `Ast` | `eval` | `Nodes`, `Words` |
| `Parser` | `lexer.l`, `parser.y`: text → tree with lines | `Nodes`, `Words` |
| `Writing` | how a tree is written down: the reference for `Parser` | `Parser` |
| `Emission` | the emitters of `codegen.c`: bytes, patches, slots, source map | `Nodes`, `Words` |
| `Codegen` | `codegen_compile` as a function on trees | `Emission` |
| `Promise` | what `codegen_compile` promises of its code | `Instructions` |
| `Compiler` | `codegen_compile` call by call of `codegen_node` | `Emission`, `Promise` |
| `CompilerProofs` | theorems about `Compiler` | `Compiler`, TLAPS |
| `CompiledCode` | `pm_run` of promised code | `VM`, `Promise` |
| `CompiledCodeProofs` | theorems about `CompiledCode` | `CompiledCode`, `VMProofs` |
| `Submission` | tree → `codegen_compile` → `vm_run` | `Compiler`, `CompiledCode` |
| `SubmissionProofs` | theorems about `Submission` | `Submission`, `CompilerProofs`, `CompiledCodeProofs` |
| `Compiled` | text → tree → bytecode → `vm_run`, against `Codegen` and `eval` | `Submission`, `Writing`, `Codegen`, `Ast` |
| `Debugger` | a session of `debugger_interactive` | `CompiledCode`; `ProgramManager` by refinement |
| `DebuggerProofs` | theorems about `Debugger` | `Debugger`, `CompiledCodeProofs` |
| `Heap` | what a garbage-collected heap promises | |
| `GC` | `gc.c` step by step, with its client | `Heap` by refinement |
| `GCProofs` | theorems about `GC` | `GC`, TLAPS |
| `ProgramManager` | the process table | |
| `ProgramManagerProofs` | theorems about `ProgramManager` | `ProgramManager`, TLAPS |
| `CommandLine` | from tokens to commands | |
| `Jobs` | what a shell promises about its processes | |
| `Shell` | `shell_run`, signal handlers, children, pipes | `CommandLine`; `Jobs` by refinement |
| `ShellProofs` | theorems about `Shell` | `Shell`, TLAPS |
| `MC*` | the same modules with the instances TLC checks | |

### VM

`code`, `pc`, `memory`, `running` and `error` are the fields of `VM`; `stack` and
`return_stack` are the live parts of the arrays (`sp` and `rsp` are their lengths;
cells above them are never read). `host` says whether `vm_run` is open. Each case
of `execute_instruction` is an action (`Binary(op)` for the ten that pop two,
`Branch(op)` for two), each error path a disjunct in the order of the code: a pop
that fails leaves the earlier pops done (`Underflow`), division tests its divisor
between its pops (`DivideByZero`), a store tests its index before its pop. An
operand that is cut off consumes the opcode only (`OperandCutOff`). `Run`,
`RunStep`, `RunReturn` are `vm_run`; `Step` is `vm_step`; `Resume` is the
debugger's own assignment to the pair. `INT_MIN / -1` is undefined in C: the model
either wraps or traps (`Trap`, the process dies). Sums, differences and products
wrap, as `gcc -g` without optimisation compiles them.

### Parser, Writing, Ast

A text is lines of tokens. `Parser` has the right-hand side of each rule of
`parser.y` as in the grammar, `Phrase` matches one and `Value` is its semantic action;
operators are taken by precedence
level, as `%left` makes bison do, and a rule with `else` is tried before the one
without. What a rule yields carries the last token read (`seen`), whose line is the
`yylineno` the node gets. Whether that is the token behind the rule depends on bison:
it reads one only in a state that has something to shift. Behind the right operand of
`*` and `/` there is nothing left to shift, since `%left` resolves every conflict in favour
of the reduction; behind those of the other operators a closer one may follow (`LastRead`). `Writing` says how a tree is written with the precedences of
the README and as few brackets as possible; it is not derived from the grammar.

Trees are records with the fields their node type uses (`Nodes`). `Eval` is `eval` with the
symbol table as a function; `stop` is the early `exit(1)`, a trap, or the model's
bound `Turns` on loop turns.

### Emission, Codegen, Compiler, Promise

`Emission` has the emitters: a byte, a word, a patch, an entry of the source map, a slot.
The compiler stands on them twice. `GenNode` of `Codegen` is `codegen_node` as a recursive
function, one operator per case: it says in a few lines what the code of a tree is. `Compiler`
is the same function as it runs. `calls` is the C stack of `codegen_node`: of each open call
its node, the child it is in (`at`), and its locals: the slot, `loop_start`, and `jz_patch` or
`jmp_patch` (`hole`; the two are never in use together). A step is what a call does
up to its next call of `codegen_node` or to its end, with the bytes, the patch and the call as
one action. `exit(1)` ends a step that would pass a limit (`Exits`: code and variables
only grow, so it is enough to look at the end of the step). The run `compiled_runs` shows
that the two agree on every tree of the run (`ImplementsCodegen`). Both are transcriptions of one
C function, so this shows that the step machine, which is what can be proved about, does what
the short one says, and which trees meet the `exit(1)`; whether the code is right is what `Promise`
and `eval` are for.

Three variables record history. `depth` says, for each offset at which an instruction was
begun, how many cells are on the operand stack there; `base` of a call, how many when it
was begun; `leaves`, that an expression statement left its value. Every instruction's
effect on `depth` is written from the compiler's view (an expression adds one, `OP_STORE`
takes one), not computed from `Pops` and `Pushes`: that the two views agree is what is
proved.

`Promise` says what the interpreter and the debugger can rely on in compiled code, without
saying how the compiler makes it. `WholeCode`: only whole instructions, each jump patched to
the beginning of one, no `OP_CALL` or `OP_RET`, and one `OP_HALT`, at the end. `Balanced`: every
instruction finds the cells it pops and leaves what the next one is promised, on every way to
it, and slots are in memory. `Exact`: with equations, so nothing is left behind.

### CompiledCode, Submission, Compiled

`CompiledCode` is `pm_run` of promised code: loaded once, run by `vm_run`, never resumed.
`Submission` puts `Compiler` before it: what is loaded is what the compiler returned, and
`SlotsAssumption` compares the limits of the two (128 variables, 256 memory cells).
`Compiled` puts `Parser` before that and the two references beside it; a text that does not
parse cannot be submitted. Its `Submit` is `Begin` on a tree that the parser built, so its
steps are those of `Submission`. `TreesAssumption` of `Compiler` says what trees the parser
builds (operators and conditions stand on expressions, only the else of an if may be
missing, a literal fits a word); TLC evaluates it on all the trees of the run.

### Debugger

`Debugger` extends `VM` and each of its actions that executes is a conjunction with
a `VM` action. `StepInstruction` is one action; `next` is `NextBegin` and a
`NextTurn` per loop turn; `continue` is `ContinueFirst` (the unchecked step of lines
110-113), then `ContinueTurn` or `ContinueHit`. `Goes` is the test that opens all
three. Two history variables serve the properties: `executed` is the line of the last
instruction executed, `resumed` says that it was the first of a continue given after a
fault. In the runs programs are given as text, and `Parser` and `Codegen` make their code
and source maps:
a statement list, `while` or `print` has the line of its last token, and so has a product
or quotient, while an `if` without `else` and any other operator have the line of the token
after them.

`Debugger` itself takes the compiled files as a constant and says in `FilesAssumption`
what it relies on: code is `WholeCode`, and a line is entered in the source map only when it
is above 0, and before the node's code, so the first entry is for offset 0
(`codegen.c:63-68, 85-87`). TLC evaluates the assumption on what `Compile` makes of the runs'
texts; for every other tree it is what `EveryTreeAsPromised` of `SubmissionProofs` says of the code
and the source map that the compiler returns (`LinesAtInstructions` is the part about lines).

`ImplementsManager` composes a session with the process table: seen from
`ProgramManager` (`running`, a fault, `pc` inside the code) it does only what
`Debug`, `DebugExecute`, `DebugReturns` and `ShellDies` allow there.

### GC, Heap

The list from `first_object` is a sequence. Marking is one step per call of
`gc_mark_object`, per return from it and per root: `pending` is the C stack, an entry
per open call with the arguments it still has to pass on. Sweeping is one step per
list cell. The client (`ClientStep`) is an assumption, taken
from the interface: it uses only pointers it can reach from the value stack, and
the one object it got last (`local`) until its next allocation or collection.
`SetField` stands for its writes into pairs and closures. `malloc` may fail and
may return any free address, so addresses are reused. `Heap` is the promise: cells
that can be reached stay and keep their contents, and a collection frees the rest
in one step; `FreeAll` may come at any time, as `vm_destroy` may. `GC` implements it with
`cells` being, during the sweep, the cells that were marked.

A client that breaks its obligation is not covered: one that passes `new_pair` an object it
cannot reach from the value stack (`gc.c:62`), or goes on using a value that `push` dropped
(`gc.c:145`), has it freed under it, and `NoDangling` does not say otherwise.

### ProgramManager

An entry is pid, state and VM; a VM is seen as running or not, faulted or not, pc
inside the code or not. A run or a debugger session is open between two actions;
every other command is one. Commands that are refused change nothing and have no
action. `SubmitExits` is the compiler's `exit(1)`; `ShellDies` the trap of the
interpreter.

### CommandLine, Jobs, Shell

`CommandLine` makes of the tokens of a command what
`parse_command_from_tokens_sb` and `shell_run` make of them: which are refused, which
are pipes, builtins or external, and whether they are in the background. `at` in
`Shell` is where the loop is (at the prompt, between two commands, in a builtin,
before a fork, in `waitpid`), `todo` the commands of the line still to do, `waiting` the pids
still to be waited for, `held` the pipe ends open in the shell. A child goes from
`forked` (a copy of the shell with all its descriptors) through `Exec` or `ExecFails`
to a zombie, and is gone when the loop (`WaitReaps`) or the handler (`HandlerReaps`)
takes it. `chld` is the one pending SIGCHLD; the handler (`handling`) keeps the loop
from taking a step, since the shell has one thread, but not the children. `waitpid`
and `fgets` are restarted after a handler, as glibc's `signal` arranges. The kernel and
the programs are external: what they do with pipes (`Write`, `Read`, `HasEnded`) is
what a pipe's two programs can tell of each other. `fork` and `pipe` may fail at any
time. `Jobs` is the promise: one command at a time; a foreground command is over when
all its processes have ended, and no sooner; a command whose processes cannot all be
started is given up.

## Runs

| Run | What it shows | Bounds, and why they are enough |
|---|---|---|
| `vm_bytes` | On any bytes, through `vm_run` or `vm_step` or any mixture: values in range, errors stop the loops, return addresses follow calls, success is a HALT, faults damage only the stack, forward code returns | All strings of up to 4 bytes over 13 byte values, longer programs for the rest; stacks and memory of 2, so both overflow and underflow in every instruction; one-byte operands, so negative addresses, wrap-around and `INT_MIN / -1` occur |
| `compiled_runs` | The tree of a text says what the text says; the calls of `codegen_node` leave the code its structure defines; the code is whole and balanced, its lines stand at instructions, it ends as `eval` does with the same variables, meets no fault but division by zero and a full stack, and gives back the stack | 494 programs of two declarations and a statement: every operator on every pair of atoms, every statement, statements nested twice in loops and conditionals; `Turns` = 10, more turns than any of them takes; code of up to 127 bytes, 4 variables and 8 source map entries, each of which some program passes; a nested program with each token removed, or a semicolon, an unknown byte or an ending byte inserted at each place |
| `debugger_lines` | The breakpoint and line properties; a session as the process table sees it | Twelve programs (nested block, one-line loop, conditional, final `if`, division by zero, overflow once and over and over, two endless loops, a trap, an expression broken between lines, one with more lines than the source map of 14 entries takes), three breakpoints, any order of commands |
| `debugger_refill` | Violation: `continue`, given after two faults, enters a line past its breakpoint | as above, the source map of 30 entries and the stack of 4 cells |
| `debugger_empty` | Violation: a breakpoint accepted on a line without code | as above |
| `gc_shapes` | No reachable object is freed, no leak, no stale mark, recursion and growth bounded | 3 objects: a cycle with a tail, sharing, garbage beside both; one root; threshold 2 so that collections are triggered and forced; objects are symmetric |
| `gc_roots` | Marking is exact; the refinement of `Heap`; collections end | 2 objects, 2 roots that may be equal, integers or NULL; no symmetry, because of liveness |
| `pm_table` | VMs owned once, states tell the VM, lifecycle | 3 entries, so an untouched one stands beside two; 4 VM addresses, one more than entries because `debug` creates before it destroys |
| `shell_jobs` | No zombie is forgotten, no pipe end strays, the loop reaps only what it waits for; the refinement of `Jobs`; zombies are reaped and foreground commands come back | 3 processes, so a background job stands beside both programs of a pipe and a fourth fork fails; 1 pipe of one item and up to two items written, so writers block; five lines with every kind of command, among them a background job before a foreground one, a pipe in the background through its left part, one without a program on its right, a refused one, a builtin and `exit`; `MAX_ARGV` = 3 |
| `shell_prompt` | Violation: Ctrl-C at the prompt brings no prompt | 1 process |
| `pm_paused`, `pm_finished` | Violations: PAUSED outside the debugger; FINISHED after a fault | 1 entry |

A passing run's every property is broken by at least one faulty variant of the
code; the variants stand before the action they replace, marked "Faulty variant".

Deadlock is checked everywhere: states in which the program is over have a
stuttering action of their own (`Killed`, `Over`, `Destroyed`, `Exited`).

### Fairness

Only loops that run inside a call are fair, because the one thread executes them
until they end: `RunStep` and `RunReturn` (`vm_run`), the turns of `next` and
`continue`, `CollectorStep`. The user and the collector's client need not act, and
`malloc` need not be called. `ForwardCodeReturns`, `EndsWithEval`,
`OnlyOneLineHangs` and `CollectionEnds` rest on that alone. In `Shell` the loop, the
handler and each child are fair, one by one: the kernel schedules them and delivers a
pending signal. That a program goes on while its pipe lets it, and one on its own
comes to an end, is assumed of the programs (`ChildStep`); without it no shell could
promise `CommandsReturn`. The user need not type, a builtin need not return (a
submitted program may loop, and Ctrl-C does not stop it), and calls need not fail.

### Where documents and code differ

* `README.md:98`, PAUSED "In debugger": quitting a live program leaves it PAUSED at the
  shell prompt for good (`pm_paused`).
* `README.md:99`, FINISHED "completed successfully": a program that faulted under the
  debugger is FINISHED (`pm_finished`).
* `README.md:130`, `continue` runs "until next breakpoint", and `debugger_vm.c:110`, it
  steps first "to avoid re-triggering same breakpoint": after faults it may pass a
  breakpoint on a line it enters from another one (`debugger_refill`). Its first step does
  not set `last_line`; two continues in a row that end in faults on different lines leave it
  at the first of these lines, and a jump back there looks like staying on it.
  `NoBreakpointMissed` used to be stated without this exception and held on the programs
  of the run; the attempt to prove it failed at this case, and the program `Refill` is its
  counterexample.
* The same sentence, on a loop written on one line: a breakpoint there is hit once, and
  `continue` runs through all further turns, since `line != last_line` is false in them.
  `OnlyOneLineHangs` and `NoBreakpointMissed` are stated for entering a line from another.
* `debugger_vm.c:33` refuses a line without code; lines that only close a block are
  accepted (`debugger_empty`).
* `shell.c:24-25` and `README.md:390`: "the shell loop handles reprompting" after Ctrl-C.
  The loop does not come round, because `signal` makes the read of `fgets` restart
  (`shell_prompt`).
* `README.md:686-690` and `711-713` show a session that the code does not give. Line 6 of
  `tests/fibonacci.lang` begins at offset 56 (four declarations of 10 bytes, a condition of
  16), not 25; and `continue` stops before the `print` of line 6 is executed, so the session's 0
  and 1 do not come before the hits but after them. The offsets shown in lines 698 and 700 are stale in
  the same way.
  No run is spent on it.
* `README.md:150` gives `-5` as a literal, but neither lexer nor parser has a unary
  minus: `Term` of `Parser` has no such case. No run is spent on it.
* A byte above 127 ends a program without an error, since `yytext[0]` is negative
  (`lexer.l:57`, `EndByte`). `ReadsAsWritten` compares what comes before it.
* `eval` and the compiled code agree only on programs that declare each variable
  once and before its use: `eval` ignores a second declaration, which the compiled
  code executes, and exits on an undeclared variable, which the compiled code takes
  as 0. `AgreesWithEval` says so.

## Proofs

Every safety property that a passing run checks of the interpreter, the debugger, the collector,
the process table and the shell is a theorem for every value of the constants, and so are the
three refinements; of the compiler and its code, all but the comparisons with `Writing`,
`Codegen` and `eval`. Each proof module has an inductive invariant
(`IInv`; `CInv` for the compiler, `SInv` for the debugger and for submissions, `RunInv` for
compiled code); the theorems follow from it.

The chain that carries most: the compiler keeps its promise for every tree (`CompilerProofs`),
promised code is safe (`CompiledCodeProofs`, on `VMProofs`), so is whatever is submitted
(`SubmissionProofs`); and the debugger's theorems assume of a file no more than that promise.

| Theorem | of | states |
|---|---|---|
| `TypeCorrect`, `ErrorsStop`, `ReturnAddresses`, `SuccessIsHalt`, `FaultDamage` | `VMProofs` | `TypeOK`, `ErrorStops`, `ReturnsFollowCalls`, `OKMeansHalted`, `FaultsOnlyPop` |
| `CompiledCodeIsSafe` | `CompiledCodeProofs` | `CompiledFaults`, of all code that is as promised |
| `CompilerInvariant`, `CompilerKeepsPromise` | `CompilerProofs` | `CInv`; `WholeCode`, `Balanced`, `Exact` of what `codegen_compile` returns |
| `EveryTreeAsPromised`, `EveryTreeIsSafe`, `EveryStackGivenBack` | `SubmissionProofs` | `CodeAsPromised`, `CompiledFaults`, `StackGivenBack`, from any tree to the end of its run |
| `SessionIsRun`, `SessionSafe` | `DebuggerProofs` | a session is a behaviour of `VM`; so `TypeOK` and `ErrorStops` hold in it |
| `SessionTyped`, `PromptShowsLine`, `NoneMissed`, `DeletedIsGone`, `HaltedStays` | `DebuggerProofs` | `DebuggerTypeOK`, `LastLineCurrent`, `NoBreakpointMissed`, `DeleteForgets`, `HaltIsFinal` |
| `SessionImplementsManager` | `DebuggerProofs` | `ImplementsManager` |
| `TypeCorrect`, `ListIsHeap`, `NothingReachableFreed`, `NoMarkSurvives`, `MarkingIsExact`, `RecursionBounded`, `GrowthIsBounded` | `GCProofs` | `TypeOK`, `HeapIsList`, `NoDangling`, `MarksCleared`, `MarkedIsReach`, `DepthBounded`, `GrowthBounded` |
| `CollectorImplementsHeap` | `GCProofs` | `ImplementsHeap` |
| `TypeCorrect`, `NoVMLeaks`, `PidsNeverReused`, `StatesTrue`, `LifecycleKept` | `ProgramManagerProofs` | `TypeOK`, `VMsOwned`, `PidsUnique`, `StateTellsVM`, `Lifecycle` |
| `TypeCorrect`, `ZombiesNeverForgotten`, `PipesClosed`, `WaitsOnlyForItsOwn` | `ShellProofs` | `TypeOK`, `ZombiesNoticed`, `NoStrayEnds`, `WaitsForItsOwn` |
| `ShellImplementsJobs` | `ShellProofs` | `ImplementsJobs` |

### VMProofs

For every size of the stacks and of the memory, operands of one to four bytes and every set
of programs (`SizesAssumption`, `WordAssumption`, `ProgramsAssumption`). `IInv` is the
conjunction of the four state properties. `TypeOK` carries the others: `pc <= Len(code)` is
what makes the byte before a return address exist, and it is preserved because every fetch
is guarded and `JumpTo`, `Call` and `Ret` only set addresses in bounds (a return address by
`TypeOK` of the return stack). The argument goes through `ExecuteEffect`, which says once for
all instructions what one of them may do to the stacks and which of three verdicts (proceed,
halt, fault) it leaves; each case of the instruction set is a step of its proof.
`ExecuteReturns` follows the return stack separately. Word arithmetic is in `WrapInWord` and
`ResultInWord`.

### CompiledCodeProofs

`CompiledCodeIsSafe` is about any set of programs of which each is `Promised`, and any size
of stack and memory: `vm_run` meets no fault on them but a division by zero and a full
operand stack. The invariant `RunInv` adds to that of `VMProofs` that while `vm_run` goes on,
`pc` is at the beginning of an instruction and the stack has the cells promised there (`Deep`).
The proof has one step per instruction, in `ExecuteCells`: it finds its cells, leaves exactly
what its opcode says, goes on where the code says, and overflows only a stack that has no room.
`ExecuteDeep` and, for exact depths, `ExecuteLevel` of `SubmissionProofs` rest on it.

### CompilerProofs

For every tree that is built as `TreesAssumption` says, whatever its size and nesting, and any
limits that operands can hold (`LimitsAssumption`). No induction over trees is needed: the
recursion is a stack of open calls, and the tree is only looked at one node at a time. The
promise itself is not inductive, since code in the making is not whole. `CInv` says what it
is instead:

* `CodeSoFar`: the code is an initial piece of promised code. Every instruction ends where
  the next begins or at the end of the code, with the depth that is known there; every jump
  leads to an instruction, but for the holes.
* `CallsOK`: the holes belong to open calls. A call's hole is the operand of a jump that
  carries the depth the call began with, so that it may be patched to any place that has it;
  its loop starts at an instruction with that depth; and a child leaves its caller at least the
  cells it goes on with.
* `OnTop`: what is on the stack at the end of the code is what the innermost call is to find.
* `MapOK` and `Unmapped`: lines stand at instructions, and there is one before there is code.

`~leaves` turns each "at least" into an equation (`Arrives`), so one proof gives `Balanced` for all
trees and `Exact` for those without expression statements. There is a lemma per action
(`CompileIntKeeps`, ... `NodeReturnsKeeps`). They rest on what emitting does to a sequence of bytes:
an operand that is written is read back (`WordIn` of `Bytes`), a patch changes the word of one hole
and nothing else, because instructions do not overlap. `FinishReturns` adds the
`OP_HALT`: when no call is open there is no hole, and the piece is whole.

### SubmissionProofs

From a tree to the end of its run. `SInv` joins `CInv` and `IInv` of `VMProofs`, and adds that
what is loaded is what the compiler returned (`Loaded`), `Deep` while it runs, and `Level`: if
no expression statement left a value and every depth fits the stack, the stack has exactly the
depth of `pc`, hence `OP_HALT` finds it empty and no push finds it full. `Level` has to say as well
that `pc` is 0 before a run alone, for a run begins with an empty stack only then. The theorems
have no hypothesis on the code: the assumptions are those on limits and sizes,
`SlotsAssumption` and `TreesAssumption`.

### DebuggerProofs

For all compiled files (`FilesAssumption`, see Debugger above), breakpoint tables of any
size and any lines the user types, besides the assumptions of `VMProofs`. Every step of a
session is a step or a stutter of `VM` (`StepsMap`), so `IInv` of `VMProofs` holds in it. `SInv`
adds what the five properties need:

* `MapOK` and `EmptyMap`: the source map has a line at every offset (because its first entry
  is for offset 0) or at none, and then no breakpoint can be set. Without it `last_line` would
  stay behind where a line is 0.
* `ContinueLine`: in the loop of continue `last_line` is the line executed last, unless the
  first instruction came after a fault (`resumed`). That the proof does not go through without
  the exception is the finding of `debugger_refill`.
* `NoneTwice`: no line has two breakpoints, so the one `delete` finds is the only one.
* `Loaded` and `RestsAtEnd`: `pc` is at the beginning of an instruction or at the end of
  the code (`WholeCode`), hence a machine that stops without an error has executed the
  last `OP_HALT` and is at the end, where `Goes` is false.
* `Phases`: the loops of next and continue are only open while the machine runs.

`SessionImplementsManager` goes through the actions of a session: `Open` is `Submit` and
`Interactive` is `Debug` of `ProgramManager`, every action that executes or resumes is
`DebugExecute`, `Quit` is `DebugReturns` and a trap is `ShellDies`; breakpoints set, deleted
and hit are stutters. `DebugExecute` allows no VM that runs with a fault, which is
`ErrorStops` of `VMProofs`.

### GCProofs

For every set of addresses and every bound of the value stack (`PointersAssumption`,
`BoundsAssumption`), on graphs of any shape. Besides the properties themselves `IInv` has:

* `MarkInv`, the tri-colour invariant: what is marked or still to be passed on by an open call
  can be reached; the roots before the loop index, and the fields of every marked object, are
  marked or are arguments an open call has still to pass on. At the end of marking no call is open
  and no root is left, so the marked objects are closed under the fields and contain the
  roots: they are exactly what can be reached.
* `SweepInv`: the objects still marked and those the sweep has passed are disjoint and together
  are what can be reached, so an object the sweep finds unmarked cannot be.
* `CellsInv` and `PointersInv`: outside a sweep all fields and roots point into the heap, and the
  pointers the client or an allocation has outside it (`local`, `request`) are reachable or
  in the heap. This is what the client keeps to and what makes reused addresses harmless.
* `DepthInv` and `GrowthInv`: a call that is open has marked its object, for the bound on the
  recursion; an allocation that got past the threshold is under it.

`HeapIsList` is preserved by the sweep, which edits the list it walks, by the lemmas on
removing one element of a sequence without repetition. In `CollectorImplementsHeap` the
end of marking is the step in which the abstract collection takes effect; every step of the
sweep is a stutter, since the mapped heap is what is marked or passed already.

### ProgramManagerProofs

For every size of the table and every set of addresses (`TableAssumption`,
`VMsAssumption`). `IInv` adds `CallsOpen`: while `pm_run` or `pm_debug` is open its entry has
a live VM, and every other entry is as `StateTellsVM` says of the prompt. `StateTellsVM` alone
is not inductive, because it says nothing while a call is open. `VMsOwned` and `PidsUnique` go
through one lemma on setting an entry's state and VM.

### ShellProofs

For any number of processes, pipes and lines, and buffers of any size (`PipesAssumption`,
`LinesAssumption`, `BufferAssumption`). `IInv` has:

* `LoopInv`: where the loop is tells what it holds: a command, of a pipe both programs, the
  pipe, the pids of those it started.
* `ProcInv` and `RestInv`: types; only the programs of a pipe have one.
* `ZombiesNoticed` itself, which is inductive: the handler returns only when `waitpid`
  finds no zombie, and a child that ends while it runs leaves a signal pending.
* `EndsInv`: the shell, and a child that has not called exec, hold only ends of lost pipes
  and of the one being set up. `NoStrayEnds` speaks of running programs alone and is not inductive
  without it.
* `PidsInv`: a foreground process that is alive is one of the pids waited for, and a
  pid waited for is free or the command's own, although handler and `fork` may have reaped
  it and given it out again in between. `WaitsForItsOwn` follows, and in
  `ShellImplementsJobs` that a command is over only when all its processes have ended.

### Only model-checked

* Liveness: `ForwardCodeReturns`, `EndsWithEval`, `OnlyOneLineHangs`, `CollectionEnds`,
  `ZombiesReaped`, `CommandsReturn`. The prover does not treat fairness.
* `ReadsAsWritten`, `ImplementsCodegen` and `AgreesWithEval`: they compare with what the recursive
  `Phrase`, `Listing`, `GenNode` and `Eval` compute, and need induction over trees, for which no
  installed prover can use the library's theorems.
* That the parser builds only trees as `TreesAssumption` says, for the same reason; TLC evaluates
  it on all trees of the run.

The other way round, `PidsUnique` is left to its theorem: no run checks it.

## Not modelled

* How flex finds tokens among characters, how `tokenize_sb` does, and the automata that
  flex and bison generate.
* What is in the files of redirections, the directory of `cd`, and the buffers of stdio,
  which a child that cannot exec writes out and rewinds (`shell.c:232`).
* The terminal: background jobs read from it and get its Ctrl-C like any other.
* `vm_dump_state`, `vm_error_string`, and the printing commands of debugger and manager.
* The text written by `OP_PRINT`.
* How much C stack there is (its depth in `gc_mark_object` is), and `malloc` failing outside `gc.c`.
* `ast_free`, and the strings of names and file names.

## How it was built

In this order: `VM`, `VMProofs`; `GC` over `Heap`; `ProgramManager`; `Ast`,
`Codegen`, `Compiled`; `Debugger`, `DebuggerProofs`; `CommandLine`, `Shell` over `Jobs`;
`Parser` against `Writing`; `Debugger` over `ProgramManager`; `ProgramManagerProofs`;
`ShellProofs` with the refinement of `Jobs`; `GCProofs` with the refinement of `Heap`; the
properties of a session and the refinement of `ProgramManager` in `DebuggerProofs`;
`CompiledCode`, `CompiledCodeProofs`; `Compiler` against `Codegen`, `CompilerProofs`; `Submission`,
`SubmissionProofs`.

What could come next: what `Heap` and `Jobs` promise, stated as invariants of their own and
carried over by the refinements; and the evaluator call by call, as `Compiler` is, so that the
agreement of the two accounts of the language becomes a simulation that can be proved.
