------------------------- MODULE ProgramManagerProofs -------------------------
(***************************************************************************)
(* The process table keeps its VMs, its pids and what its states say, for  *)
(* every size of the table, any number of addresses and every order of the *)
(* commands.                                                               *)
(***************************************************************************)
EXTENDS ProgramManager, SequenceTheorems, TLAPS

Entries == [pid : Nat \ {0}, state : States, vm : VMs \cup {NULL}]

\* What StateTellsVM says of one entry, about which no call is open.
Tells(k) ==
  /\ State(k) # "RUNNING"
  /\ State(k) = "SUBMITTED" => VMOf(k) = NULL
  /\ State(k) = "PAUSED" => VMOf(k) \in Live /\ vms[VMOf(k)].running
  /\ State(k) = "ERROR" =>
       VMOf(k) \in Live /\ vms[VMOf(k)].fault /\ ~vms[VMOf(k)].running

\* An open call has an entry with a VM; all other entries are as at the prompt.
CallsOpen ==
  /\ call = "prompt" => entry = 0
  /\ call \in {"pm_run", "pm_debug"} => entry \in Slots /\ VMOf(entry) \in Live
  /\ call # "exited" => \A k \in Slots \ {entry} : Tells(k)

IInv == TypeOK /\ VMsOwned /\ PidsUnique /\ CallsOpen
-----------------------------------------------------------------------------
LEMMA Typed ==
  ASSUME TypeOK
  PROVE  /\ programs \in Seq(Entries)
         /\ Len(programs) \in Nat
         /\ Slots = 1..Len(programs)
         /\ \A k \in Slots : /\ programs[k] \in Entries
                             /\ State(k) \in States
                             /\ VMOf(k) \in VMs \cup {NULL}
                             /\ programs[k].pid \in Nat \ {0}
<1>1. programs \in Seq(Entries)
  BY DEF TypeOK, Entries
<1>2. /\ Len(programs) \in Nat
      /\ Slots = 1..Len(programs)
      /\ \A k \in Slots : programs[k] \in Entries
  BY <1>1, LenProperties, ElementOfSeq DEF Slots
<1> QED BY <1>1, <1>2 DEF Entries, State, VMOf

(* Writing an entry's state and VM leaves its pid and the other entries alone. *)
LEMMA SetEntry ==
  ASSUME TypeOK, NEW k \in Slots, NEW state \in States, NEW vm \in VMs \cup {NULL},
         Set(k, state, vm)
  PROVE  /\ programs' \in Seq(Entries)
         /\ Len(programs') = Len(programs)
         /\ Slots' = Slots
         /\ programs'[k] = [programs[k] EXCEPT !.state = state, !.vm = vm]
         /\ State(k)' = state /\ VMOf(k)' = vm
         /\ \A j \in Slots : programs'[j].pid = programs[j].pid
         /\ \A j \in Slots \ {k} : programs'[j] = programs[j]
<1> DEFINE e == [programs[k] EXCEPT !.state = state, !.vm = vm]
<1>1. programs' = [programs EXCEPT ![k] = e]
  BY Typed DEF Set, Entries
<1>2. e \in Entries /\ e.state = state /\ e.vm = vm /\ e.pid = programs[k].pid
  BY Typed DEF Entries
<1>3. k \in 1..Len(programs) /\ programs \in Seq(Entries)
  BY Typed
<1> HIDE DEF e
<1>4. /\ programs' \in Seq(Entries)
      /\ Len(programs') = Len(programs)
      /\ \A j \in 1..Len(programs) : programs'[j] = IF j = k THEN e ELSE programs[j]
  BY <1>1, <1>2, <1>3, ExceptSeq
<1>5. Slots' = Slots
  BY <1>1 DEF Slots
<1>6. \A j \in Slots : programs'[j] = IF j = k THEN e ELSE programs[j]
  BY <1>4, Typed
<1> QED BY <1>2, <1>4, <1>5, <1>6 DEF e, State, VMOf

LEMMA Initially == Init => IInv
<1> SUFFICES ASSUME Init PROVE IInv
  OBVIOUS
<1>1. programs = << >> /\ Slots = {} /\ Live = {}
  BY DEF Init, Slots, Live
<1>2. TypeOK
  BY <1>1, TableAssumption DEF Init, TypeOK
<1> QED BY <1>1, <1>2 DEF Init, IInv, VMsOwned, PidsUnique, CallsOpen
-----------------------------------------------------------------------------
(* Every step keeps the invariant.                                         *)

LEMMA SubmitKeeps == ASSUME IInv, call = "prompt", Submit PROVE IInv'
<1> DEFINE e == [pid |-> next_pid, state |-> "SUBMITTED", vm |-> NULL]
<1> PICK n : n = Len(programs)
  OBVIOUS
<1>1. TypeOK /\ VMsOwned /\ PidsUnique /\ CallsOpen
  BY DEF IInv
<1>2. e \in Entries
  BY <1>1 DEF TypeOK, Entries, States
<1>3. programs' = Append(programs, e) /\ n < MAX_PROGRAMS
  BY DEF Submit
<1>4. programs \in Seq(Entries) /\ n \in Nat /\ Slots = 1..n
  BY <1>1, Typed
<1>5. /\ programs' \in Seq(Entries)
      /\ Len(programs') = n + 1
      /\ Slots' = Slots \cup {n + 1}
      /\ \A k \in Slots : programs'[k] = programs[k]
      /\ programs'[n + 1] = e
  <2> HIDE DEF e
  <2>1. /\ programs' \in Seq(Entries)
        /\ Len(programs') = n + 1
        /\ \A k \in 1..n : programs'[k] = programs[k]
        /\ programs'[n + 1] = e
    BY <1>2, <1>3, <1>4, AppendProperties
  <2>2. Slots' = 1..n + 1
    BY <2>1, LenProperties DEF Slots
  <2> QED BY <2>1, <2>2, <1>4
<1>6. UNCHANGED <<vms, call, entry>> /\ next_pid' = next_pid + 1
  BY DEF Submit
<1>7. /\ \A k \in Slots : State(k)' = State(k) /\ VMOf(k)' = VMOf(k)
      /\ VMOf(n + 1)' = NULL /\ State(n + 1)' = "SUBMITTED"
  BY <1>5 DEF State, VMOf
<1>8. TypeOK'
  BY <1>1, <1>3, <1>4, <1>5, <1>6, TableAssumption DEF TypeOK, Entries, Live
<1>9. VMsOwned'
  BY <1>1, <1>5, <1>6, <1>7 DEF VMsOwned, Live
<1>10. PidsUnique'
  <2>1. \A k \in Slots : programs[k].pid \in Nat /\ programs[k].pid < next_pid
    BY <1>1, Typed DEF PidsUnique
  <2>2. next_pid \in Nat /\ programs'[n + 1].pid = next_pid
    BY <1>1, <1>5 DEF TypeOK
  <2>3. \A k \in Slots' : programs'[k].pid < next_pid'
    BY <2>1, <2>2, <1>5, <1>6
  <2>4. \A j, k \in Slots' : programs'[j].pid = programs'[k].pid => j = k
    BY <2>1, <2>2, <1>1, <1>5 DEF PidsUnique
  <2> QED BY <2>3, <2>4 DEF PidsUnique
<1>11. CallsOpen'
  BY <1>1, <1>5, <1>6, <1>7 DEF CallsOpen, Tells, Live
<1> QED BY <1>8, <1>9, <1>10, <1>11 DEF IInv

LEMMA ExitKeeps ==
  ASSUME IInv, call # "exited", SubmitExits \/ Exit \/ ShellDies PROVE IInv'
<1>1. TypeOK /\ VMsOwned /\ PidsUnique /\ CallsOpen
  BY DEF IInv
<1>2. UNCHANGED <<programs, next_pid>> /\ call' = "exited" /\ entry' \in {0, entry}
  BY DEF SubmitExits, Exit, ShellDies
<1>3. Live' = {}
  <2>1. CASE Exit
    <3>1. Live' = Live \ {VMOf(k) : k \in Slots}
      BY <2>1 DEF Exit, Live
    <3> QED BY <3>1, <1>1 DEF VMsOwned
  <2>2. CASE SubmitExits \/ ShellDies
    BY <2>2 DEF SubmitExits, ShellDies, Live
  <2> QED BY <2>1, <2>2
<1>4. Slots' = Slots /\ \A k \in Slots : VMOf(k)' = VMOf(k)
  BY <1>2 DEF Slots, VMOf
<1>5. TypeOK'
  BY <1>1, <1>2, <1>3, Typed DEF TypeOK
<1>6. VMsOwned' /\ PidsUnique' /\ CallsOpen'
  BY <1>1, <1>2, <1>3, <1>4 DEF VMsOwned, PidsUnique, CallsOpen
<1> QED BY <1>5, <1>6 DEF IInv

(* The steps that write an entry: what is left to show of each is what it     *)
(* does to the VMs and the call.                                              *)
LEMMA EntryKeeps ==
  ASSUME IInv, UNCHANGED next_pid,
         NEW k \in Slots, NEW state \in States, NEW vm \in VMs \cup {NULL},
         Set(k, state, vm),
         Live' = (Live \ {VMOf(k)}) \cup ({vm} \ {NULL}),
         vm # NULL => vm = VMOf(k) \/ vm \notin Live,
         \A a \in Live' : vms'[a] \in VMView,
         \A a \in Live' \ {vm} : vms'[a] = vms[a],
         call # "exited",
         \/ call' = "prompt" /\ entry' = 0 /\ entry \in {0, k} /\ Tells(k)'
         \/ call' \in {"pm_run", "pm_debug"} /\ entry' = k /\ entry \in {0, k} /\ vm # NULL
  PROVE  IInv'
<1>1. TypeOK /\ VMsOwned /\ PidsUnique /\ CallsOpen
  BY DEF IInv
<1>2. /\ programs' \in Seq(Entries)
      /\ Len(programs') = Len(programs)
      /\ Slots' = Slots
      /\ State(k)' = state /\ VMOf(k)' = vm
      /\ \A j \in Slots : programs'[j].pid = programs[j].pid
      /\ \A j \in Slots \ {k} : programs'[j] = programs[j]
  BY <1>1, SetEntry
<1>3. \A j \in Slots \ {k} : State(j)' = State(j) /\ VMOf(j)' = VMOf(j)
  BY <1>2 DEF State, VMOf
<1>4. Live = {VMOf(j) : j \in Slots} \ {NULL}
  BY <1>1 DEF VMsOwned
<1>5. \A j \in Slots \ {k} : VMOf(j) # NULL => VMOf(j) # VMOf(k) /\ VMOf(j) # vm
  BY <1>1, <1>4 DEF VMsOwned
<1>6. TypeOK'
  <2>1. Slots = 1..Len(programs) /\ Len(programs) \in Nat
    BY <1>1, Typed
  <2>2. Live' \subseteq VMs
    BY <1>1 DEF TypeOK
  <2> QED BY <1>1, <1>2, <2>1, <2>2 DEF TypeOK, Entries
<1>7. VMsOwned'
  <2>1. Live' = {VMOf(j)' : j \in Slots} \ {NULL}
    <3>1. ASSUME NEW a \in Live' PROVE \E j \in Slots : a = VMOf(j)' /\ a # NULL
      <4>1. CASE a = vm
        BY <4>1, <3>1, <1>2, <1>4
      <4>2. CASE a # vm
        BY <4>2, <3>1, <1>3, <1>4
      <4> QED BY <4>1, <4>2
    <3>2. ASSUME NEW j \in Slots, VMOf(j)' # NULL PROVE VMOf(j)' \in Live'
      <4>1. CASE j = k
        BY <4>1, <3>2, <1>2
      <4>2. CASE j # k
        BY <4>2, <3>2, <1>3, <1>4, <1>5
      <4> QED BY <4>1, <4>2
    <3> QED BY <3>1, <3>2
  <2>2. \A j, l \in Slots : VMOf(j)' = VMOf(l)' /\ VMOf(j)' # NULL => j = l
    BY <1>1, <1>2, <1>3, <1>5 DEF VMsOwned
  <2>3. call' # "exited"
    OBVIOUS
  <2> QED BY <2>1, <2>2, <2>3, <1>2 DEF VMsOwned
<1>8. PidsUnique'
  BY <1>1, <1>2 DEF PidsUnique
<1>9. CallsOpen'
  <2>1. \A j \in Slots \ {k} : Tells(j)
    BY <1>1, Typed DEF CallsOpen
  <2>2. \A j \in Slots \ {k} : Tells(j)'
    <3> SUFFICES ASSUME NEW j \in Slots \ {k} PROVE Tells(j)'
      OBVIOUS
    <3>1. VMOf(j) \in Live => VMOf(j) \in Live' /\ vms'[VMOf(j)] = vms[VMOf(j)]
      BY <1>4, <1>5
    <3> QED BY <2>1, <3>1, <1>3 DEF Tells
  <2>3. vm # NULL => VMOf(k)' \in Live'
    BY <1>2
  <2> QED BY <2>2, <2>3, <1>2 DEF CallsOpen
<1> QED BY <1>6, <1>7, <1>8, <1>9 DEF IInv

LEMMA StartedIsView == Started \in VMView
BY DEF Started, VMView

LEMMA RunKeeps ==
  ASSUME IInv, call = "prompt", NEW pid \in Pids, Run(pid) PROVE IInv'
<1>1. TypeOK /\ VMsOwned /\ CallsOpen
  BY DEF IInv
<1>2. PICK k \in Slots, a \in VMs \ Live :
        /\ State(k) = "SUBMITTED"
        /\ vms' = Create(a)
        /\ Set(k, "RUNNING", a)
        /\ call' = "pm_run" /\ entry' = k /\ UNCHANGED next_pid
  BY DEF Run, Found
<1>3. VMOf(k) = NULL /\ NULL \notin Live
  <2>1. k \notin {0} /\ entry = 0
    BY <1>1, Typed DEF CallsOpen
  <2> QED BY <2>1, <1>1, <1>2, VMsAssumption DEF CallsOpen, Tells, TypeOK
<1>4. /\ Live' = Live \cup {a} /\ a # NULL
      /\ \A b \in Live' : vms'[b] = IF b = a THEN Started ELSE vms[b]
  BY <1>2, VMsAssumption DEF Create, Live
<1>5. \A b \in Live' : vms'[b] \in VMView
  BY <1>1, <1>4, StartedIsView DEF TypeOK
<1>6. "RUNNING" \in States /\ entry = 0
  BY <1>1 DEF States, CallsOpen
<1> QED BY <1>2, <1>3, <1>4, <1>5, <1>6, EntryKeeps

LEMMA DebugKeeps ==
  ASSUME IInv, call = "prompt", NEW pid \in Pids, Debug(pid) PROVE IInv'
<1>1. TypeOK /\ VMsOwned /\ CallsOpen
  BY DEF IInv
<1>2. PICK k \in Slots, a \in VMs \ Live :
        /\ vms' = [b \in (Live \ {VMOf(k)}) \cup {a} |-> Create(a)[b]]
        /\ Set(k, "PAUSED", a)
        /\ call' = "pm_debug" /\ entry' = k /\ UNCHANGED next_pid
  BY DEF Debug, Found
<1>3. /\ Live' = (Live \ {VMOf(k)}) \cup {a} /\ a # NULL
      /\ \A b \in Live' : vms'[b] = IF b = a THEN Started ELSE vms[b]
  BY <1>2, VMsAssumption DEF Create, Live
<1>4. \A b \in Live' : vms'[b] \in VMView
  BY <1>1, <1>3, StartedIsView DEF TypeOK
<1>5. "PAUSED" \in States /\ entry = 0
  BY <1>1 DEF States, CallsOpen
<1> QED BY <1>2, <1>3, <1>4, <1>5, EntryKeeps

LEMMA KillKeeps ==
  ASSUME IInv, call = "prompt", NEW pid \in Pids, Kill(pid) PROVE IInv'
<1>1. TypeOK /\ VMsOwned /\ CallsOpen
  BY DEF IInv
<1>2. PICK k \in Slots :
        /\ vms' = Destroy(VMOf(k))
        /\ Set(k, "FINISHED", NULL)
        /\ UNCHANGED <<next_pid, call, entry>>
  BY DEF Kill, Found
<1>3. Live' = Live \ {VMOf(k)} /\ \A b \in Live' : vms'[b] = vms[b]
  BY <1>2 DEF Destroy, Live
<1>4. \A b \in Live' : vms'[b] \in VMView
  BY <1>1, <1>3 DEF TypeOK
<1>5. "FINISHED" \in States /\ entry = 0
  BY <1>1 DEF States, CallsOpen
<1>6. Tells(k)'
  BY <1>1, <1>2, <1>5, SetEntry DEF Tells
<1> QED BY <1>2, <1>3, <1>4, <1>5, <1>6, EntryKeeps

LEMMA ReturnKeeps ==
  ASSUME IInv, RunReturns \/ DebugReturns PROVE IInv'
<1>1. TypeOK /\ VMsOwned /\ CallsOpen
  BY DEF IInv
<1>2. PICK k : k = entry
  OBVIOUS
<1>3. /\ k \in Slots /\ VMOf(k) \in Live /\ VMOf(k) \in VMs
      /\ call \notin {"prompt", "exited"} /\ call' = "prompt" /\ entry' = 0
      /\ UNCHANGED next_pid
  BY <1>1, <1>2 DEF RunReturns, DebugReturns, CallsOpen, TypeOK
<1>4. PICK a : a = VMOf(k)
  OBVIOUS
<1>5. CASE RunReturns
  <2>1. PICK view \in VMView :
          /\ Stopped(view)
          /\ vms' = [vms EXCEPT ![a] = view]
          /\ Set(k, IF view.fault THEN "ERROR" ELSE "FINISHED", a)
    BY <1>2, <1>4, <1>5 DEF RunReturns
  <2>2. PICK state \in States :
          state = IF view.fault THEN "ERROR" ELSE "FINISHED"
    BY DEF States
  <2>3. Live' = Live /\ \A b \in Live : vms'[b] = IF b = a THEN view ELSE vms[b]
    BY <2>1 DEF Live
  <2>4. \A b \in Live : vms'[b] \in VMView
    BY <2>3, <1>1 DEF TypeOK
  <2>5. State(k)' = state /\ VMOf(k)' = a
    BY <2>1, <2>2, <1>1, <1>3, <1>4, SetEntry
  <2>6. Tells(k)'
    BY <2>1, <2>2, <2>3, <2>5, <1>3, <1>4 DEF Tells, Stopped
  <2>7. Live' = (Live \ {VMOf(k)}) \cup ({a} \ {NULL})
    BY <2>3, <1>3, <1>4, VMsAssumption
  <2> QED BY <2>1, <2>2, <2>3, <2>4, <2>6, <2>7, <1>2, <1>3, <1>4, EntryKeeps
<1>6. CASE DebugReturns
  <2>1. PICK state \in States :
          state = IF vms[a].running THEN "PAUSED" ELSE "FINISHED"
    BY DEF States
  <2>2. Set(k, state, a) /\ vms' = vms /\ Live' = Live
    BY <2>1, <1>2, <1>4, <1>6 DEF DebugReturns, Live
  <2>3. State(k)' = state /\ VMOf(k)' = a
    BY <2>2, <1>1, <1>3, <1>4, SetEntry
  <2>4. Tells(k)'
    BY <2>1, <2>2, <2>3, <1>3, <1>4 DEF Tells
  <2>5. Live' = (Live \ {VMOf(k)}) \cup ({a} \ {NULL})
    BY <2>2, <1>3, <1>4, VMsAssumption
  <2>6. \A b \in Live : vms'[b] \in VMView
    BY <2>2, <1>1 DEF TypeOK
  <2> QED BY <2>2, <2>4, <2>5, <2>6, <1>2, <1>3, <1>4, EntryKeeps
<1> QED BY <1>5, <1>6

LEMMA ExecuteKeeps == ASSUME IInv, DebugExecute PROVE IInv'
<1>1. TypeOK /\ VMsOwned /\ PidsUnique /\ CallsOpen
  BY DEF IInv
<1>2. PICK view \in VMView : vms' = [vms EXCEPT ![VMOf(entry)] = view]
  BY DEF DebugExecute
<1>3. UNCHANGED <<programs, next_pid, call, entry>> /\ call = "pm_debug"
  BY DEF DebugExecute
<1>4. UNCHANGED <<Slots, Live>> /\ \A k \in Slots : UNCHANGED <<State(k), VMOf(k)>>
  BY <1>2, <1>3 DEF Slots, Live, State, VMOf
<1>5. \A a \in Live : vms'[a] = IF a = VMOf(entry) THEN view ELSE vms[a]
  BY <1>2 DEF Live
<1>6. TypeOK'
  BY <1>1, <1>3, <1>4, <1>5 DEF TypeOK
<1>7. VMsOwned' /\ PidsUnique'
  BY <1>1, <1>3, <1>4 DEF VMsOwned, PidsUnique
<1>8. CallsOpen'
  <2>1. \A k \in Slots \ {entry} : VMOf(k) \in Live => VMOf(k) # VMOf(entry)
    BY <1>1, <1>3, VMsAssumption DEF VMsOwned, CallsOpen, TypeOK
  <2>2. \A k \in Slots \ {entry} : Tells(k)'
    BY <2>1, <1>1, <1>3, <1>4, <1>5 DEF CallsOpen, Tells
  <2> QED BY <2>2, <1>1, <1>3, <1>4 DEF CallsOpen
<1> QED BY <1>6, <1>7, <1>8 DEF IInv

LEMMA StepKeeps == IInv /\ [Next]_vars => IInv'
<1> SUFFICES ASSUME IInv, [Next]_vars PROVE IInv'
  OBVIOUS
<1>1. CASE Command
  <2> USE <1>1 DEF Command
  <2>1. CASE Submit
    BY <2>1, SubmitKeeps
  <2>2. CASE SubmitExits \/ Exit
    BY <2>2, ExitKeeps
  <2>3. ASSUME NEW pid \in Pids, Run(pid) \/ Debug(pid) \/ Kill(pid) PROVE IInv'
    BY <2>3, RunKeeps, DebugKeeps, KillKeeps
  <2> QED BY <2>1, <2>2, <2>3
<1>2. CASE RunReturns \/ DebugReturns
  BY <1>2, ReturnKeeps
<1>3. CASE DebugExecute
  BY <1>3, ExecuteKeeps
<1>4. CASE ShellDies
  BY <1>4, ExitKeeps DEF ShellDies
<1>5. CASE Exited \/ UNCHANGED vars
  <2>1. UNCHANGED <<programs, next_pid, vms, call, entry>>
    BY <1>5 DEF Exited, vars
  <2>2. UNCHANGED <<TypeOK, VMsOwned>>
    BY <2>1 DEF TypeOK, VMsOwned, Slots, Live, VMOf
  <2>3. UNCHANGED <<PidsUnique, CallsOpen>>
    BY <2>1 DEF PidsUnique, CallsOpen, Tells, Slots, Live, State, VMOf
  <2> QED BY <2>2, <2>3 DEF IInv
<1> QED BY <1>1, <1>2, <1>3, <1>4, <1>5 DEF Next

LEMMA Invariance == Spec => []IInv
BY Initially, StepKeeps, PTL DEF Spec
-----------------------------------------------------------------------------
(* Slots, pids, addresses and calls stay what they are declared to be, and    *)
(* submit never writes behind the end of the table.                           *)
THEOREM TypeCorrect == Spec => []TypeOK
<1>1. IInv => TypeOK
  BY DEF IInv
<1> QED BY <1>1, Invariance, PTL

(* No VM leaks, is destroyed twice or is shared by two entries, through any   *)
(* order of runs, debugger sessions, kills and ends of the shell.             *)
THEOREM NoVMLeaks == Spec => []VMsOwned
<1>1. IInv => VMsOwned
  BY DEF IInv
<1> QED BY <1>1, Invariance, PTL

(* kill, run and debug can mean one program only: no pid is given twice.      *)
THEOREM PidsNeverReused == Spec => []PidsUnique
<1>1. IInv => PidsUnique
  BY DEF IInv
<1> QED BY <1>1, Invariance, PTL

(* What ps shows of a program at the prompt is true of its VM.                *)
THEOREM StatesTrue == Spec => []StateTellsVM
<1>1. IInv => StateTellsVM
  <2> SUFFICES ASSUME IInv, call = "prompt", NEW k \in Slots PROVE Tells(k)
    BY DEF StateTellsVM, Tells
  <2>1. entry = 0 /\ k # 0
    BY Typed DEF IInv, CallsOpen
  <2> QED BY <2>1 DEF IInv, CallsOpen
<1> QED BY <1>1, Invariance, PTL

(* A command writes one entry only, never makes a program SUBMITTED again and *)
(* leaves one that is PAUSED at the prompt to kill.                           *)
LEMMA WriteIsLifecycle ==
  ASSUME TypeOK, NEW k \in Slots, NEW state \in States, NEW vm \in VMs \cup {NULL},
         Set(k, state, vm), NEW j \in Slots,
         state # "SUBMITTED",
         State(k) = "PAUSED" /\ call = "prompt" => state = "FINISHED" /\ vm = NULL
  PROVE  /\ State(j)' # State(j) => \A l \in Slots \ {j} : programs[l]' = programs[l]
         /\ State(j)' = "SUBMITTED" => State(j) = "SUBMITTED"
         /\ State(j) = "PAUSED" /\ call = "prompt" /\ State(j)' # "PAUSED"
              => State(j)' = "FINISHED" /\ VMOf(j)' = NULL
<1>1. /\ State(k)' = state /\ VMOf(k)' = vm
      /\ \A l \in Slots \ {k} : programs'[l] = programs[l]
  BY SetEntry
<1>2. \A l \in Slots \ {k} : State(l)' = State(l)
  BY <1>1 DEF State
<1>3. CASE j = k
  BY <1>1, <1>3
<1>4. CASE j # k
  BY <1>2, <1>4
<1> QED BY <1>3, <1>4

(* Every command changes the entry it names and no other, nothing goes back   *)
(* to SUBMITTED, and a program left PAUSED can only be killed.                *)
THEOREM LifecycleKept == Spec => Lifecycle
<1> DEFINE L(j) ==
       /\ State(j)' # State(j) => \A k \in Slots \ {j} : programs[k]' = programs[k]
       /\ State(j)' = "SUBMITTED" => State(j) = "SUBMITTED"
       /\ State(j) = "PAUSED" /\ call = "prompt" /\ State(j)' # "PAUSED"
            => State(j)' = "FINISHED" /\ VMOf(j)' = NULL
<1>1. IInv /\ [Next]_vars => [\A j \in Slots : L(j)]_vars
  <2> SUFFICES ASSUME IInv, Next, NEW j \in Slots PROVE L(j)
    OBVIOUS
  <2>1. TypeOK /\ CallsOpen
    BY DEF IInv
  <2>2. {"RUNNING", "PAUSED", "FINISHED", "ERROR"} \subseteq States
    BY DEF States
  <2>3. CASE UNCHANGED programs
    BY <2>3 DEF State
  <2>4. CASE Submit
    <3>1. programs'[j] = programs[j]
      BY <2>1, <2>4, Typed, AppendProperties DEF Submit, TypeOK, States, Entries
    <3> QED BY <3>1 DEF State
  <2>5. ASSUME NEW pid \in Pids, call = "prompt", Run(pid) \/ Debug(pid) PROVE L(j)
    <3>1. PICK k \in Slots, a \in VMs, state \in {"RUNNING", "PAUSED"} :
            Set(k, state, a) /\ State(k) # "PAUSED"
      BY <2>5 DEF Run, Debug, Found, Debuggable
    <3> QED BY <3>1, <2>1, <2>2, WriteIsLifecycle
  <2>6. ASSUME NEW pid \in Pids, Kill(pid) PROVE L(j)
    <3>1. PICK k \in Slots : Set(k, "FINISHED", NULL)
      BY <2>6 DEF Kill, Found
    <3> QED BY <3>1, <2>1, <2>2, WriteIsLifecycle
  <2>7. CASE RunReturns \/ DebugReturns
    <3>1. entry \in Slots /\ VMOf(entry) \in VMs /\ call # "prompt"
      BY <2>1, <2>7 DEF RunReturns, DebugReturns, CallsOpen, TypeOK
    <3>2. PICK k \in Slots, a \in VMs : k = entry /\ a = VMOf(entry)
      BY <3>1
    <3>3. \E state \in {"ERROR", "FINISHED", "PAUSED"} : Set(k, state, a)
      BY <3>2, <2>7 DEF RunReturns, DebugReturns
    <3> QED BY <3>1, <3>3, <2>1, <2>2, WriteIsLifecycle
  <2> QED
    BY <2>3, <2>4, <2>5, <2>6, <2>7
    DEF Next, Command, SubmitExits, Exit, DebugExecute, ShellDies, Exited, vars
<1> QED BY <1>1, Invariance, PTL DEF Spec, Lifecycle
=============================================================================
