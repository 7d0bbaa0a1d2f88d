---------------------------- MODULE ProgramManager ----------------------------
(***************************************************************************)
(* The process table of program_manager.c: what submit, run, debug, kill   *)
(* and exit at the shell prompt do to the entries and to the VMs they own. *)
(* The shell has one thread, so a run or a debugger session is a call that *)
(* is open until it returns; the other commands are one step.  A refused   *)
(* command and the commands that only report (ps, memstat, leaks) change   *)
(* nothing.  A VM is seen from outside: whether it runs, whether its last  *)
(* instruction faulted, and whether pc is still inside the code.           *)
(***************************************************************************)
EXTENDS Integers, Sequences, FiniteSets

CONSTANTS
  MAX_PROGRAMS,
  VMs,          \* the addresses vm_create can return
  NULL

ASSUME TableAssumption == MAX_PROGRAMS \in Nat \ {0}
ASSUME VMsAssumption == NULL \notin VMs

VARIABLES
  programs,     \* the entries in use, by slot; count is its length
  next_pid,
  vms,          \* the VMs that exist: address -> what is seen of them
  call,         \* "prompt", inside "pm_run" or "pm_debug", or "exited"
  entry         \* slot the open call works on; 0 if none is open

vars == <<programs, next_pid, vms, call, entry>>

States == {"SUBMITTED", "RUNNING", "PAUSED", "FINISHED", "ERROR"}
VMView == [running : BOOLEAN, fault : BOOLEAN, inside : BOOLEAN]
Stopped(v) == v \in VMView /\ ~v.running

Slots == DOMAIN programs
State(k) == programs[k].state
VMOf(k) == programs[k].vm
Set(k, state, vm) ==
  programs' = [programs EXCEPT ![k].state = state, ![k].vm = vm]

Live == DOMAIN vms
Started == [running |-> TRUE, fault |-> FALSE, inside |-> TRUE]
Create(a) == [b \in Live \cup {a} |-> IF b = a THEN Started ELSE vms[b]]
Destroy(a) == [b \in Live \ {a} |-> vms[b]]
-----------------------------------------------------------------------------
Init ==                                  \* pm_create
  /\ programs = << >>
  /\ next_pid = 1
  /\ vms = << >>
  /\ call = "prompt"
  /\ entry = 0

\* Faulty variant: the bound of the table is off by one.
SubmitOneTooMany ==
  /\ Len(programs) <= MAX_PROGRAMS
  /\ programs' = Append(programs, [pid |-> next_pid, state |-> "SUBMITTED", vm |-> NULL])
  /\ next_pid' = next_pid + 1
  /\ UNCHANGED <<vms, call, entry>>

Submit ==                \* pm_submit of a file that parses and compiles
  /\ Len(programs) < MAX_PROGRAMS
  /\ programs' = Append(programs, [pid |-> next_pid, state |-> "SUBMITTED", vm |-> NULL])
  /\ next_pid' = next_pid + 1
  /\ UNCHANGED <<vms, call, entry>>

SubmitExits ==           \* the compiler calls exit(1) on a program too large
  /\ Len(programs) < MAX_PROGRAMS
  /\ call' = "exited"
  /\ vms' = << >>
  /\ UNCHANGED <<programs, next_pid, entry>>

Found(pid) == {k \in Slots : programs[k].pid = pid
                 /\ \A j \in 1..k - 1 : programs[j].pid # pid}

\* Faulty variant: the state is not tested.
RunAnyState(pid) ==
  \E k \in Found(pid), a \in VMs \ Live :
    /\ vms' = Create(a)
    /\ Set(k, "RUNNING", a)
    /\ call' = "pm_run"
    /\ entry' = k
    /\ UNCHANGED next_pid

Run(pid) ==                              \* pm_run up to vm_run
  \E k \in Found(pid), a \in VMs \ Live :
    /\ State(k) = "SUBMITTED"
    /\ vms' = Create(a)
    /\ Set(k, "RUNNING", a)
    /\ call' = "pm_run"
    /\ entry' = k
    /\ UNCHANGED next_pid

RunReturns ==                            \* vm_run and the rest of pm_run
  /\ call = "pm_run"
  /\ \E view \in VMView :
       /\ Stopped(view)
       /\ vms' = [vms EXCEPT ![VMOf(entry)] = view]
       /\ Set(entry, IF view.fault THEN "ERROR" ELSE "FINISHED", VMOf(entry))
  /\ call' = "prompt"
  /\ entry' = 0
  /\ UNCHANGED next_pid

Debuggable == {"SUBMITTED", "FINISHED", "ERROR"}

\* Faulty variant: the VM of the earlier run is not destroyed.
DebugKeepsOldVM(pid) ==
  \E k \in Found(pid), a \in VMs \ Live :
    /\ State(k) \in Debuggable
    /\ vms' = Create(a)
    /\ Set(k, "PAUSED", a)
    /\ call' = "pm_debug"
    /\ entry' = k
    /\ UNCHANGED next_pid

Debug(pid) ==            \* pm_debug up to the first prompt of the debugger
  \E k \in Found(pid), a \in VMs \ Live :
    /\ State(k) \in Debuggable
    /\ vms' = [b \in (Live \ {VMOf(k)}) \cup {a} |-> Create(a)[b]]
    /\ Set(k, "PAUSED", a)
    /\ call' = "pm_debug"
    /\ entry' = k
    /\ UNCHANGED next_pid

DebugExecute ==          \* step, next or continue: a stopped VM may go on
  /\ call = "pm_debug"
  /\ vms[VMOf(entry)].running \/ vms[VMOf(entry)].inside
  /\ \E view \in VMView :
       /\ view.fault => ~view.running
       /\ vms' = [vms EXCEPT ![VMOf(entry)] = view]
  /\ UNCHANGED <<programs, next_pid, call, entry>>

ShellDies ==             \* OP_DIV traps: SIGFPE ends the process
  /\ call \in {"pm_run", "pm_debug"}
  /\ call' = "exited"
  /\ vms' = << >>
  /\ entry' = 0
  /\ UNCHANGED <<programs, next_pid>>

DebugReturns ==          \* quit or end of input, and the rest of pm_debug
  /\ call = "pm_debug"
  /\ Set(entry, IF vms[VMOf(entry)].running THEN "PAUSED" ELSE "FINISHED", VMOf(entry))
  /\ call' = "prompt"
  /\ entry' = 0
  /\ UNCHANGED <<next_pid, vms>>

\* Faulty variant: the state is left as it was.
KillKeepsState(pid) ==
  \E k \in Found(pid) :
    /\ vms' = Destroy(VMOf(k))
    /\ Set(k, State(k), NULL)
    /\ UNCHANGED <<next_pid, call, entry>>

Kill(pid) ==
  \E k \in Found(pid) :
    /\ vms' = Destroy(VMOf(k))
    /\ Set(k, "FINISHED", NULL)
    /\ UNCHANGED <<next_pid, call, entry>>

Exit ==                                  \* exit or end of input: pm_destroy
  /\ call' = "exited"
  /\ vms' = [a \in Live \ {VMOf(k) : k \in Slots} |-> vms[a]]
  /\ UNCHANGED <<programs, next_pid, entry>>

Exited == call = "exited" /\ UNCHANGED vars

Pids == 0 .. MAX_PROGRAMS + 1            \* what atoi makes of the argument

Command ==
  /\ call = "prompt"
  /\ \/ Submit \/ SubmitExits
     \/ \E pid \in Pids : Run(pid) \/ Debug(pid) \/ Kill(pid)
     \/ Exit

Next == Command \/ RunReturns \/ DebugExecute \/ DebugReturns \/ ShellDies \/ Exited

Spec == Init /\ [][Next]_vars
-----------------------------------------------------------------------------
TypeOK ==
  /\ programs \in Seq([pid : Nat \ {0}, state : States, vm : VMs \cup {NULL}])
  /\ Len(programs) <= MAX_PROGRAMS
  /\ next_pid \in Nat \ {0}
  /\ Live \subseteq VMs
  /\ \A a \in Live : vms[a] \in VMView
  /\ call \in {"prompt", "pm_run", "pm_debug", "exited"}
  /\ entry \in 0..Len(programs)

\* Through any sequence of runs, debugging sessions and kills, the VMs that
\* exist are those of the entries, each entry has its own, and once the shell
\* has exited there are none: nothing leaks, nothing is freed twice and no
\* entry points to a VM that is gone.
VMsOwned ==
  /\ call # "exited" => Live = {VMOf(k) : k \in Slots} \ {NULL}
  /\ call = "exited" => Live = {}
  /\ \A j, k \in Slots : VMOf(j) = VMOf(k) /\ VMOf(j) # NULL => j = k

\* A pid names at most one entry and is never used again, even when submits
\* have failed or entries have been killed in between.
PidsUnique ==
  /\ \A j, k \in Slots : programs[j].pid = programs[k].pid => j = k
  /\ \A k \in Slots : programs[k].pid < next_pid

\* What an entry's state says of its VM when the user is back at the prompt:
\* a program that has not started has no VM, none is RUNNING, a PAUSED one can
\* still execute, and an ERROR one has a stopped VM that faulted.
StateTellsVM ==
  call = "prompt" =>
    \A k \in Slots :
      /\ State(k) # "RUNNING"
      /\ State(k) = "SUBMITTED" => VMOf(k) = NULL
      /\ State(k) = "PAUSED" => VMOf(k) \in Live /\ vms[VMOf(k)].running
      /\ State(k) = "ERROR" =>
           VMOf(k) \in Live /\ vms[VMOf(k)].fault /\ ~vms[VMOf(k)].running

\* A command changes the entry it names and no other, a program that left
\* SUBMITTED never gets back to it, and one left PAUSED at the prompt changes
\* only by being killed.
Lifecycle ==
  [][\A j \in Slots :
       /\ State(j)' # State(j) => \A k \in Slots \ {j} : programs[k]' = programs[k]
       /\ State(j)' = "SUBMITTED" => State(j) = "SUBMITTED"
       /\ State(j) = "PAUSED" /\ call = "prompt" /\ State(j)' # "PAUSED"
            => State(j)' = "FINISHED" /\ VMOf(j)' = NULL]_vars

\* README.md:98: a program is PAUSED while it is in the debugger.
PausedInDebugger == \A k \in Slots : State(k) = "PAUSED" => call = "pm_debug" /\ entry = k

\* README.md:99: a FINISHED program completed successfully.
FinishedWithoutFault ==
  \A k \in Slots : State(k) = "FINISHED" /\ VMOf(k) \in Live => ~vms[VMOf(k)].fault
=============================================================================
