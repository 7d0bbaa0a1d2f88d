--------------------------------- MODULE Jobs ---------------------------------
(***************************************************************************)
(* What a shell promises about the processes it starts: one command at a   *)
(* time, a foreground command is over when all its processes have ended,   *)
(* and only then does the next one start or the prompt come back.  How the *)
(* ends of processes are noticed is left open.                             *)
(***************************************************************************)
EXTENDS Naturals, FiniteSets

CONSTANTS
  Procs,        \* the process ids
  MaxParts      \* the most processes a command has

VARIABLES
  phase,        \* "prompt", "command" (between two), "job" or "gone"
  missing,      \* processes of the job still to be started
  running,      \* the processes that have not ended
  foreground    \* those of them the command in progress is waiting for

jvars == <<phase, missing, running, foreground>>

JobsInit ==
  /\ phase = "command"
  /\ missing = 0
  /\ running = {}
  /\ foreground = {}

ShowPrompt ==
  /\ phase = "command"
  /\ phase' = "prompt"
  /\ UNCHANGED <<missing, running, foreground>>

ReadCommands ==
  /\ phase = "prompt"
  /\ phase' = "command"
  /\ UNCHANGED <<missing, running, foreground>>

Begin(parts) ==
  /\ phase = "command"
  /\ phase' = "job"
  /\ missing' = parts
  /\ UNCHANGED <<running, foreground>>

Start(p, background) ==
  /\ phase = "job"
  /\ missing > 0
  /\ p \notin running
  /\ missing' = missing - 1
  /\ running' = running \cup {p}
  /\ foreground' = IF background THEN foreground ELSE foreground \cup {p}
  /\ phase' = "job" \/ (phase' = "command" /\ missing = 1 /\ foreground' = {})

GiveUp ==               \* a process cannot be started: the others are let go
  /\ phase = "job"
  /\ missing > 0
  /\ phase' = "command"
  /\ missing' = 0
  /\ foreground' = {}
  /\ UNCHANGED running

Finish ==
  /\ phase = "job"
  /\ missing = 0
  /\ foreground = {}
  /\ phase' = "command"
  /\ UNCHANGED <<missing, running, foreground>>

End(S) ==               \* several may end at once: an interrupt
  /\ running' = running \ S
  /\ foreground' = foreground \ S
  /\ UNCHANGED <<phase, missing>>

Leave ==
  /\ phase \in {"prompt", "command"}
  /\ phase' = "gone"
  /\ UNCHANGED <<missing, running, foreground>>

JobsNext ==
  \/ ShowPrompt \/ ReadCommands \/ GiveUp \/ Finish \/ Leave
  \/ \E parts \in 1..MaxParts : Begin(parts)
  \/ \E p \in Procs, background \in BOOLEAN : Start(p, background)
  \/ \E S \in SUBSET running : End(S)

JobsSpec == JobsInit /\ [][JobsNext]_jvars
=============================================================================
