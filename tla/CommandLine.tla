------------------------------ MODULE CommandLine ------------------------------
(***************************************************************************)
(* How shell.c reads a command: the part of a line between two ';' is a    *)
(* sequence of tokens, and parse_command_from_tokens_sb makes a Command of *)
(* it, or two around the first '|'.  A token is one of "<" ">" "&" "|", or *)
(* a word; the names of files are never looked at, only that there is one. *)
(* The tokenizer drops quotes, so a quoted "|" is the token "|".           *)
(***************************************************************************)
EXTENDS Integers, Sequences, SequencesExt

CONSTANT MAX_ARGV

ASSUME ArgvAssumption == MAX_ARGV \in Nat \ {0}

NoCommand == [argv |-> << >>, infile |-> FALSE, outfile |-> FALSE, background |-> FALSE]

\* One turn of the loop; expects is the redirection whose file comes next.
TakeToken(c, t) ==
  IF ~c.ok THEN c
  ELSE IF c.expects = "<" THEN [c EXCEPT !.cmd.infile = TRUE, !.expects = "word"]
  ELSE IF c.expects = ">" THEN [c EXCEPT !.cmd.outfile = TRUE, !.expects = "word"]
  ELSE IF t \in {"<", ">"} THEN [c EXCEPT !.expects = t]
  ELSE IF t = "&" THEN [c EXCEPT !.cmd.background = TRUE]
  ELSE IF Len(c.cmd.argv) >= MAX_ARGV - 1 THEN [c EXCEPT !.ok = FALSE]
  ELSE [c EXCEPT !.cmd.argv = Append(@, t)]

Taken(tokens) ==
  FoldLeft(TakeToken, [cmd |-> NoCommand, expects |-> "word", ok |-> TRUE], tokens)

ParseCommand(tokens) == Taken(tokens).cmd
Parses(tokens) == Taken(tokens).ok /\ Taken(tokens).expects = "word"

PipeIndex(tokens) == SelectInSeq(tokens, LAMBDA t : t = "|")     \* 0 if none
IsPipe(tokens) == PipeIndex(tokens) # 0
LeftOf(tokens) == SubSeq(tokens, 1, PipeIndex(tokens) - 1)
RightOf(tokens) == SubSeq(tokens, PipeIndex(tokens) + 1, Len(tokens))

\* What handle_lab6_builtin passes on to the program manager.
PidBuiltins == {"submit", "run", "debug", "kill", "memstat", "gc", "leaks"}
Builtins == PidBuiltins \cup {"ps"}
Usage(cmd) == cmd.argv[1] \in PidBuiltins /\ Len(cmd.argv) < 2

\* Commands of which nothing comes: an error, no word at all, a usage message,
\* or cd, which is over at once.
PipeRefused(tokens) ==
  \/ PipeIndex(tokens) \in {1, Len(tokens)}
  \/ ~Parses(LeftOf(tokens))
  \/ ~Parses(RightOf(tokens))

SingleRefused(tokens) ==
  \/ ~Parses(tokens)
  \/ LET cmd == ParseCommand(tokens)
     IN  cmd.argv = << >> \/ cmd.argv[1] = "cd" \/ Usage(cmd)

Refused(tokens) == IF IsPipe(tokens) THEN PipeRefused(tokens) ELSE SingleRefused(tokens)

\* What shell_run does with a command, and what it needs to know for that:
\* whether each argv[0] is a word and not NULL, and whether to wait.
Kind(tokens) ==
  LET name == ParseCommand(tokens).argv[1]
  IN  IF Refused(tokens) THEN "refused"
      ELSE IF IsPipe(tokens) THEN "pipe"
      ELSE IF name \in Builtins THEN "builtin"
      ELSE IF name = "exit" THEN "exit"
      ELSE "external"

Programs(tokens) ==
  IF IsPipe(tokens) THEN <<ParseCommand(LeftOf(tokens)), ParseCommand(RightOf(tokens))>>
                    ELSE <<ParseCommand(tokens)>>

Command(tokens) ==
  LET cmds == Programs(tokens)
  IN  [kind |-> Kind(tokens),
       named |-> [k \in DOMAIN cmds |-> cmds[k].argv # << >>],
       background |-> \E k \in DOMAIN cmds : cmds[k].background]

Commands(line) == [k \in DOMAIN line |-> Command(line[k])]
=============================================================================
