---------------------------------- MODULE Ast ----------------------------------
(***************************************************************************)
(* The tree-walking evaluator of ast.c.                                    *)
(***************************************************************************)
EXTENDS Nodes, Words, Sequences

(* eval.  s is the symbol table and how the evaluation stands: stop says   *)
(* why it ended early, "fuel" when the model's bound on loop turns is met. *)
(* redeclared records that declare_var found the name declared already.    *)
Eval0(turns) == [vars |-> << >>, value |-> 0, stop |-> "no", turns |-> turns,
                 redeclared |-> FALSE]

Declared(s, name) == name \in DOMAIN s.vars
Stop(s, why) == [s EXCEPT !.stop = why]
Yield(s, value) == [s EXCEPT !.value = value]

SetVar(s, name, value) ==                  \* also an entry added to symtab
  [s EXCEPT !.vars = [x \in DOMAIN @ \cup {name} |-> IF x = name THEN value ELSE @[x]]]

Apply(op, l, r) ==
  CASE op = "ADD" -> Wrap(l + r)
    [] op = "SUB" -> Wrap(l - r)
    [] op = "MUL" -> Wrap(l * r)
    [] op = "DIV" -> TruncDiv(l, r)
    [] op = "LT" -> Truth(l < r)
    [] op = "GT" -> Truth(l > r)
    [] op = "LE" -> Truth(l <= r)
    [] op = "GE" -> Truth(l >= r)
    [] op = "EQ" -> Truth(l = r)
    [] op = "NEQ" -> Truth(l # r)

RECURSIVE Eval(_, _)

EvalOp(s, n) ==
  LET l == Eval(s, n.left)
      r == Eval(l, n.right)
  IN  IF r.stop # "no" THEN r
      ELSE IF n.op = "DIV" /\ r.value = 0 THEN Stop(r, "division")
      ELSE IF n.op = "DIV" /\ r.value = -1 /\ l.value = -HalfRange THEN Stop(r, "trap")
      ELSE Yield(r, Apply(n.op, l.value, r.value))

EvalDecl(s, n) ==
  LET v == Eval(s, n.left)
  IN  IF v.stop # "no" THEN v
      ELSE IF Declared(v, n.name) THEN [v EXCEPT !.value = 0, !.redeclared = TRUE]
      ELSE Yield(SetVar(v, n.name, v.value), 0)

EvalAssign(s, n) ==
  LET v == Eval(s, n.left)
  IN  IF v.stop # "no" THEN v
      ELSE IF ~Declared(v, n.name) THEN Stop(v, "undeclared")
      ELSE Yield(SetVar(v, n.name, v.value), 0)

EvalIf(s, n) ==
  LET c == Eval(s, n.left)
  IN  IF c.stop # "no" THEN c
      ELSE IF c.value # 0 THEN Yield(Eval(c, n.right), 0)
      ELSE Yield(Eval(c, n.extra), 0)

EvalWhile(s, n) ==
  LET c == Eval(s, n.left)
  IN  IF c.stop # "no" \/ c.value = 0 THEN Yield(c, 0)
      ELSE IF c.turns = 0 THEN Stop(c, "fuel")
      ELSE Eval([Eval(c, n.right) EXCEPT !.turns = @ - 1], n)

Eval(s, n) ==
  IF s.stop # "no" THEN s ELSE
  CASE n.type = "NULL" -> Yield(s, 0)
    [] n.type = "INT" -> Yield(s, n.value)
    [] n.type = "VAR" -> IF Declared(s, n.name) THEN Yield(s, s.vars[n.name])
                                                ELSE Stop(s, "undeclared")
    [] n.type = "OP" -> EvalOp(s, n)
    [] n.type = "DECL" -> EvalDecl(s, n)
    [] n.type = "ASSIGN" -> EvalAssign(s, n)
    [] n.type = "IF" -> EvalIf(s, n)
    [] n.type = "WHILE" -> EvalWhile(s, n)
    [] n.type = "SEQ" -> Yield(Eval(Eval(s, n.left), n.right), 0)
    [] n.type = "PRINT" -> Yield(Eval(s, n.left), 0)
=============================================================================
