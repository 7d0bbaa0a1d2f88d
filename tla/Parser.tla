-------------------------------- MODULE Parser --------------------------------
(***************************************************************************)
(* lexer.l and parser.y: from the text of a program to its tree.           *)
(*                                                                         *)
(* A text is a sequence of lines, a line a sequence of tokens; how flex    *)
(* finds a token among characters is not modelled.  The grammar's rules    *)
(* are written as in parser.y and tried in an order that resolves its one  *)
(* conflict the way bison does, by taking an else.                         *)
(*                                                                         *)
(* A node gets the value yylineno has when bison reduces its rule: the line *)
(* of the last token read.  That is the last token of the rule, or the one *)
(* after it where the parser must look ahead: behind an if, to see whether *)
(* an else follows, and behind the right operand of an operator, to see    *)
(* whether one follows that binds closer.                                  *)
(***************************************************************************)
EXTENDS Nodes, Words, SequencesExt

TokenOf(kind) == [kind |-> kind]
INTEGER(n) == [kind |-> "INTEGER", value |-> n]
IDENTIFIER(name) == [kind |-> "IDENTIFIER", name |-> name]

Kinds == "var" :> "VAR" @@ "if" :> "IF" @@ "else" :> "ELSE" @@ "while" :> "WHILE"
  @@ "print" :> "PRINT" @@ "==" :> "EQ" @@ "!=" :> "NEQ" @@ "<=" :> "LE" @@ ">=" :> "GE"
  @@ "<" :> "LT" @@ ">" :> "GT" @@ "+" :> "PLUS" @@ "-" :> "MINUS" @@ "*" :> "MULT"
  @@ "/" :> "DIV" @@ "=" :> "ASSIGN" @@ ";" :> "SEMICOLON" @@ "(" :> "LPAREN"
  @@ ")" :> "RPAREN" @@ "{" :> "LBRACE" @@ "}" :> "RBRACE"

\* What yylex returns, with lines.  A byte from 128 up, or 0, is returned as a
\* char that is not positive, and bison takes it for the end of the input.
EndByte == TokenOf("END")

Scan(text) ==
  LET read == FlattenSeq([l \in DOMAIN text |->
                [k \in DOMAIN text[l] |-> [token |-> text[l][k], line |-> l]]])
              \o <<[token |-> EndByte, line |-> Len(text)]>>
  IN  SubSeq(read, 1, SelectInSeq(read, LAMBDA t : t.token = EndByte))

\* What has been parsed: its value, the position of the next token to use, 0
\* after a syntax error, and the position of the last token read.
Parsed(node, next, seen) == [node |-> node, next |-> next, seen |-> seen]
SyntaxError == Parsed(NoNode, 0, 0)
Failed(r) == r.next = 0

Kind(ts, k) == IF k \in DOMAIN ts THEN ts[k].token.kind ELSE "none"

Terminal(ts, k, kind) ==
  IF Kind(ts, k) # kind THEN SyntaxError
  ELSE Parsed(CASE kind = "INTEGER" -> NodeInt(Wrap(ts[k].token.value), ts[k].line)   \* atoi
                [] kind = "IDENTIFIER" -> NodeVar(ts[k].token.name, ts[k].line)
                [] OTHER -> NoNode,
              k + 1, k)
-----------------------------------------------------------------------------
OpOf == [PLUS |-> "ADD", MINUS |-> "SUB", MULT |-> "MUL", DIV |-> "DIV", EQ |-> "EQ",
         NEQ |-> "NEQ", LT |-> "LT", GT |-> "GT", LE |-> "LE", GE |-> "GE"]

Level ==                                   \* %left, the later the tighter
  [k \in DOMAIN OpOf |-> CASE k \in {"MULT", "DIV"} -> 3
                           [] k \in {"PLUS", "MINUS"} -> 2
                           [] OTHER -> 1]

\* The right-hand sides of the rules.
Parenthesised == <<"LPAREN", "expression", "RPAREN">>
VariableDecl == <<"VAR", "IDENTIFIER", "ASSIGN", "expression", "SEMICOLON">>
VariableZero == <<"VAR", "IDENTIFIER", "SEMICOLON">>
Assignment == <<"IDENTIFIER", "ASSIGN", "expression", "SEMICOLON">>
IfOnly == <<"IF", "LPAREN", "expression", "RPAREN", "statement">>
IfElse == IfOnly \o <<"ELSE", "statement">>
WhileStatement == <<"WHILE", "LPAREN", "expression", "RPAREN", "statement">>
PrintStatement == <<"PRINT", "LPAREN", "expression", "RPAREN", "SEMICOLON">>
Block == <<"LBRACE", "statement_list", "RBRACE">>
ExpressionStatement == <<"expression", "SEMICOLON">>

StatementRules == <<VariableDecl, VariableZero, Assignment, IfElse, IfOnly,
                    WhileStatement, PrintStatement, Block, ExpressionStatement>>

\* The semantic actions: $$ from the values of the symbols, $1, $2...
Value(rule, v, line) ==
  CASE rule = VariableDecl -> NodeDecl(v[2].name, v[4], line)
    [] rule = VariableZero -> DeclZero(v[2].name, line)
    [] rule = Assignment -> NodeAssign(v[1].name, v[3], line)
    [] rule = IfElse -> NodeIf(v[3], v[5], v[7], line)
    [] rule = IfOnly -> NodeIf(v[3], v[5], NoNode, line)
    [] rule = WhileStatement -> NodeWhile(v[3], v[5], line)
    [] rule = PrintStatement -> NodePrint(v[3], line)
    [] rule \in {Block, Parenthesised} -> v[2]
    [] rule = ExpressionStatement -> v[1]

\* A rule whose symbols have been matched; behind IfOnly the next token is read.
Reduce(ts, rule, r) ==
  LET seen == IF rule = IfOnly THEN r.next ELSE r.seen
  IN  IF Failed(r) THEN SyntaxError
                   ELSE Parsed(Value(rule, r.node, ts[seen].line), r.next, seen)
-----------------------------------------------------------------------------
RECURSIVE Expression(_, _, _), Statement(_, _), MoreStatements(_, _), Phrase(_, _, _)

Symbol(ts, k, symbol) ==
  CASE symbol = "expression" -> Expression(ts, k, 1)
    [] symbol = "statement" -> Statement(ts, k)
    [] symbol = "statement_list" -> MoreStatements(ts, Statement(ts, k))
    [] OTHER -> Terminal(ts, k, symbol)

\* The values of the symbols of a right-hand side, from position k.
Phrase(ts, k, symbols) ==
  LET before == Phrase(ts, k, Front(symbols))
      last == Symbol(ts, before.next, Last(symbols))
  IN  CASE symbols = << >> -> Parsed(<< >>, k, k)
        [] symbols # << >> /\ Failed(before) -> before
        [] OTHER -> [last EXCEPT !.node = Append(before.node, @)]

Term(ts, k) ==
  CASE Kind(ts, k) = "LPAREN" -> Reduce(ts, Parenthesised, Phrase(ts, k, Parenthesised))
    [] Kind(ts, k) \in {"INTEGER", "IDENTIFIER"} -> Terminal(ts, k, Kind(ts, k))
    [] OTHER -> SyntaxError

\* Faulty variant: %right for %left.
RightSideGreedy(ts, k, level) == Expression(ts, k, level)

RightSide(ts, k, level) == Expression(ts, k, level + 1)

\* The last token read when an operator and its operands are reduced.  Bison reads
\* the one behind the right operand if some operator would be shifted there; where
\* %left has taken all of them away, after * and /, it reduces without looking.
LastRead(sign, right) ==
  IF \E other \in DOMAIN Level : Level[other] > Level[sign] THEN right.next ELSE right.seen

\* Operators of at least the given level, after an operand that is parsed.
RECURSIVE Operations(_, _, _)
Operations(ts, left, level) ==
  LET sign == Kind(ts, left.next)
      right == RightSide(ts, left.next + 1, Level[sign])
      seen == LastRead(sign, right)
  IN  CASE sign \notin DOMAIN Level -> left
        [] sign \in DOMAIN Level /\ Level[sign] < level -> left
        [] sign \in DOMAIN Level /\ Level[sign] >= level /\ Failed(right) -> SyntaxError
        [] OTHER -> Operations(ts, Parsed(NodeOp(OpOf[sign], left.node, right.node,
                                                ts[seen].line),
                                         right.next, seen), level)

Expression(ts, k, level) == Operations(ts, Term(ts, k), level)

Statement(ts, k) ==
  LET read == [n \in DOMAIN StatementRules |->
                 Reduce(ts, StatementRules[n], Phrase(ts, k, StatementRules[n]))]
      first == SelectInSeq(read, LAMBDA r : ~Failed(r))
  IN  IF first = 0 THEN SyntaxError ELSE read[first]

MoreStatements(ts, list) ==                \* statement_list
  LET s == Statement(ts, list.next)
  IN  IF Failed(list) \/ Failed(s) THEN list
      ELSE MoreStatements(ts, Parsed(NodeSeq(list.node, s.node, ts[s.seen].line),
                                     s.next, s.seen))

Parse(text) ==                             \* yyparse: the root, NoNode on an error
  LET ts == Scan(text)
      list == Symbol(ts, 1, "statement_list")
  IN  IF Kind(ts, list.next) = "END" THEN list.node ELSE NoNode
=============================================================================
