------------------------------ MODULE MCDebugger ------------------------------
(* Debugger sessions on the texts below, compiled for one-byte operands.       *)
EXTENDS Debugger, Parser, Codegen

Braced == <<
  <<"var", "i", "=", "2", ";">>,
  <<"while", "(", "i", ">", "0", ")", "{">>,
  <<"i", "=", "i", "-", "1", ";">>,
  <<"print", "(", "i", ")", ";">>,
  <<"}">> >>

OneLine == <<
  <<"var", "i", "=", "2", ";">>,
  <<"while", "(", "i", ">", "0", ")", "i", "=", "i", "-", "1", ";">>,
  <<"print", "(", "i", ")", ";">> >>

\* Too long for the source map of the run: line 4 has no entry.
Cut == <<
  <<"var", "i", "=", "2", ";">>,
  <<"while", "(", "i", ">", "0", ")", "{">>,
  <<"i", "=", "i", "-", "1", "-", "0", "-", "0", ";">>,
  <<"print", "(", "i", ")", ";">>,
  <<"}">> >>

Choice == <<
  <<"var", "x", ";">>,
  <<"if", "(", "x", ">", "0", ")">>,
  <<"print", "(", "x", ")", ";">>,
  <<"else", "x", "=", "1", ";">>,
  <<"x", ";">> >>

LastIf == <<
  <<"var", "x", "=", "1", ";">>,
  <<"if", "(", "x", ">", "0", ")">>,
  <<"print", "(", "x", ")", ";">>,
  << >> >>

DivZero == <<
  <<"var", "z", ";">>,
  <<"print", "(", "1", "/", "z", ")", ";">>,
  <<"z", "=", "1", ";">> >>

Overflow == <<
  <<"while", "(", "1", ")">>,
  <<"5", ";">>,
  <<"print", "(", "1", ")", ";">> >>

Forever == <<
  <<"var", "x", ";">>,
  <<"while", "(", "1", ")", "{">>,
  <<"x", "=", "0", ";">>,
  <<"x", "=", "1", ";", "}">> >>

Spin == << <<"while", "(", "1", ")", "x", "=", "1", ";">> >>

Trapping == << <<"print", "(", "(", "0", "-", "127", "-", "1", ")", "/",
                 "(", "0", "-", "1", ")", ")", ";">> >>

\* Overflows on line 1 and, when continued, on line 2 before it jumps back.
Refill == <<
  <<"while", "(", "1", ")", "{", "1", ";", "2", ";">>,
  <<"5", ";", "}">> >>

\* An operator alone on its line: the product before it is reduced without looking
\* at it, so line 2 has no entry and no breakpoint is taken there.
Wrapped == <<
  <<"var", "x", "=", "2", "*", "2">>,
  <<"-">>,
  <<"1", ";">> >>

Sources ==
  {Braced, OneLine, Cut, Choice, LastIf, DivZero, Overflow, Forever, Spin, Trapping,
   Refill, Wrapped}

Numbers == "0" :> 0 @@ "1" :> 1 @@ "2" :> 2 @@ "5" :> 5 @@ "127" :> 127

TokenFor(word) ==
  CASE word \in DOMAIN Kinds -> TokenOf(Kinds[word])
    [] word \in DOMAIN Numbers -> INTEGER(Numbers[word])
    [] OTHER -> IDENTIFIER(word)

Text(source) == [l \in DOMAIN source |-> [k \in DOMAIN source[l] |-> TokenFor(source[l][k])]]

MCFiles ==
  {[code |-> p.code, source_map |-> p.source_map] :
     p \in {c \in {Compile(Parse(Text(s))) : s \in Sources} : ~Exits(c)}}

MCPrograms == {f.code : f \in MCFiles}

RECURSIVE StartsFrom(_, _)
StartsFrom(c, at) ==
  {at} \cup IF at < Len(c) THEN StartsFrom(c, at + Size(c[at + 1])) ELSE {}

MCStarts == [c \in MCPrograms |-> StartsFrom(c, 0)]
=============================================================================
