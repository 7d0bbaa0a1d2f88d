-------------------------------- MODULE Writing --------------------------------
(***************************************************************************)
(* How a tree is written down: the reference for Parser, from the account  *)
(* of the language in README.md:140-207 and not from the grammar.  *, /    *)
(* bind closer than +, -, these closer than comparisons; operators of one  *)
(* kind are taken from the left; a block is for more than one statement, or *)
(* for one that an else must be kept away from.                            *)
(***************************************************************************)
EXTENDS Parser

Tokens(kinds) == [k \in DOMAIN kinds |-> TokenOf(kinds[k])]
Parens(text) == Tokens(<<"LPAREN">>) \o text \o Tokens(<<"RPAREN">>)
Braces(text) == Tokens(<<"LBRACE">>) \o text \o Tokens(<<"RBRACE">>)
End == Tokens(<<"SEMICOLON">>)

Looser == [MUL |-> {"ADD", "SUB"}, DIV |-> {"ADD", "SUB"}, ADD |-> {}, SUB |-> {}]
Comparisons == {"LT", "GT", "LE", "GE", "EQ", "NEQ"}
BindsCloser(op, other) ==
  op \notin Comparisons /\ other \in Looser[op] \cup Comparisons
SameKind(op, other) == ~BindsCloser(op, other) /\ ~BindsCloser(other, op)

Sign(op) == Tokens(<<CHOOSE kind \in DOMAIN OpOf : OpOf[kind] = op>>)

RECURSIVE WrittenExpr(_)
WrittenExpr(n) ==
  LET WrittenIf(e, Bare(_)) ==
        IF e.type = "OP" /\ ~Bare(e.op) THEN Parens(WrittenExpr(e)) ELSE WrittenExpr(e)
  IN  CASE n.type = "INT" -> <<INTEGER(n.value)>>
        [] n.type = "VAR" -> <<IDENTIFIER(n.name)>>
        [] n.type = "OP" ->
             WrittenIf(n.left, LAMBDA op : BindsCloser(op, n.op) \/ SameKind(op, n.op))
               \o Sign(n.op)
               \o WrittenIf(n.right, LAMBDA op : BindsCloser(op, n.op))

RECURSIVE TakesElse(_)
TakesElse(n) ==                            \* would take an else behind it
  \/ n.type = "IF" /\ (n.extra = NoNode \/ TakesElse(n.extra))
  \/ n.type = "WHILE" /\ TakesElse(n.right)

RECURSIVE Listing(_)                       \* as one of a list of statements
One(n) == IF n.type = "SEQ" THEN Braces(Listing(n)) ELSE Listing(n)

Listing(n) ==
  CASE IsExpression(n) -> WrittenExpr(n) \o End
    [] n.type = "DECL" /\ n.left = NodeInt(0, 0) ->
         Tokens(<<"VAR">>) \o <<IDENTIFIER(n.name)>> \o End
    [] n.type = "DECL" /\ n.left # NodeInt(0, 0) ->
         Tokens(<<"VAR">>) \o <<IDENTIFIER(n.name)>> \o Tokens(<<"ASSIGN">>)
           \o WrittenExpr(n.left) \o End
    [] n.type = "ASSIGN" ->
         <<IDENTIFIER(n.name)>> \o Tokens(<<"ASSIGN">>) \o WrittenExpr(n.left) \o End
    [] n.type = "PRINT" -> Tokens(<<"PRINT">>) \o Parens(WrittenExpr(n.left)) \o End
    [] n.type = "WHILE" -> Tokens(<<"WHILE">>) \o Parens(WrittenExpr(n.left)) \o One(n.right)
    [] n.type = "IF" /\ n.extra = NoNode ->
         Tokens(<<"IF">>) \o Parens(WrittenExpr(n.left)) \o One(n.right)
    [] n.type = "IF" /\ n.extra # NoNode ->
         Tokens(<<"IF">>) \o Parens(WrittenExpr(n.left))
           \o (IF TakesElse(n.right) THEN Braces(Listing(n.right)) ELSE One(n.right))
           \o Tokens(<<"ELSE">>) \o One(n.extra)
    [] n.type = "SEQ" -> Listing(n.left) \o One(n.right)

UpToEnd(text) ==                           \* the tokens of a text that are read
  LET all == FlattenSeq(text)
      end == SelectInSeq(all, LAMBDA t : t = EndByte)
  IN  IF end = 0 THEN all ELSE SubSeq(all, 1, end - 1)
=============================================================================
