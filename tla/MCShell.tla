-------------------------------- MODULE MCShell --------------------------------
(* Lines that bring about each kind of command; the names of programs play no  *)
(* part.  The left program of the third is in the background and with it all;   *)
(* the right side of the fourth has no program to run.                         *)
EXTENDS Shell

MCLines == {
  << <<"a", "&">>, <<"b">> >>,
  << <<"a", "|", "b">> >>,
  << <<"a", "&", "|", "b">> >>,
  << <<"a", "|", "<", "f">> >>,
  << <<"a", "|", "b", ">">>, <<"run", "1">>, <<"exit">> >> }
=============================================================================
