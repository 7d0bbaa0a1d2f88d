------------------------------ MODULE MCCompiled ------------------------------
(* Programs of three parts: var x = 1; var y; and one statement, of every shape *)
(* the grammar has, up to nested blocks; and programs that go on after it.     *)
(* Everything stands on line 1, but for the 0 of var y, which has no line.    *)
EXTENDS Compiled

Then(a, b) == NodeSeq(a, b, 1)
X == NodeVar("x", 1)
Y == NodeVar("y", 1)
N(n) == NodeInt(n, 1)
Op(op, a, b) == NodeOp(op, a, b, 1)
Set(name, e) == NodeAssign(name, e, 1)
Show(e) == NodePrint(e, 1)

Operators == {"ADD", "SUB", "MUL", "DIV", "LT", "GT", "LE", "GE", "EQ", "NEQ"}

Atoms == {N(0), N(2), X, Y}
Flat == {Op(op, a, b) : op \in Operators, a \in Atoms, b \in Atoms}
Deep == {Op("SUB", N(2), Op("SUB", Y, Op("SUB", X, N(2)))),
         Op("DIV", Op("ADD", N(2), N(127)), Op("SUB", Y, X)),     \* -127 / -1
         Op("DIV", Op("SUB", Op("SUB", N(0), N(127)), X), Op("SUB", Y, X)),       \* traps
         Op("LT", Op("MUL", N(64), N(2)), N(0)),                  \* wraps
         Op("DIV", X, Op("DIV", Y, X))}

Simple == {Set("y", X), Set("x", Op("SUB", X, N(1))), Show(Op("DIV", N(2), Y)), X,
           NodeDecl("z", Y, 1)}
Tests == {X, Y, Op("LT", Y, N(2)), Op("DIV", X, Y)}
Bodies == Simple \cup {Then(a, b) : a \in Simple, b \in {Set("x", N(0)), Set("y", Op("ADD", Y, N(1)))}}
Nested == {NodeIf(c, b, e, 1) : c \in Tests, b \in Bodies, e \in {NoNode, Set("y", N(2))}}
            \cup {NodeWhile(c, b, 1) : c \in Tests, b \in Bodies}
Twice == {NodeWhile(Op("LT", Y, N(2)), Then(n, Set("y", Op("ADD", Y, N(1)))), 1) : n \in Nested}

Undeclared == {Set("w", N(1)), Show(NodeVar("w", 1))}

Statements ==
  Undeclared \cup Bodies \cup Nested \cup Twice \cup {Set("x", e) : e \in Flat \cup Deep}

Program(s) == Then(Then(NodeDecl("x", N(1), 1), DeclZero("y", 1)), Then(s, Show(X)))

Bulk == Then(Then(Show(X), Show(X)), Then(Then(Show(X), Show(X)), Then(Show(X), Show(X))))

\* Too many variables, and too much code.
Wide == Then(Then(NodeDecl("a", X, 1), NodeDecl("b", X, 1)), Set("c", Y))
Large == Then(NodeWhile(Op("LT", Y, N(2)), NodeIf(X, Bulk, Bulk, 1), 1), Bulk)

\* Loops that eval gives up are left out, but for one: on a word of one byte they
\* go through tens of thousands of states before they repeat one.
Sources ==
  {t \in {Program(s) : s \in Statements} :
     LET e == Eval(Eval0(Turns), t) IN e.stop # "fuel" /\ ~e.redeclared}
  \cup {Program(s) : s \in {NodeDecl("x", N(3), 1),
                            NodeWhile(X, NodeDecl("x", Op("SUB", X, N(1)), 1), 1),
                            NodeWhile(X, Set("y", X), 1)}}
  \cup {Program(s) : s \in {Wide, Large}}

\* One token too few or too many, or a byte that ends the input.  Without its
\* first token a print is an expression in needless brackets.
Long == Listing(Program(NodeIf(Op("LT", X, Y), NodeIf(X, Set("x", Y), Show(Y), 1),
                               NodeWhile(Op("SUB", X, Op("SUB", N(2), Y)), X, 1), 1)))
Damaged ==
  {RemoveAt(Long, k) : k \in {j \in DOMAIN Long : Long[j] # TokenOf("PRINT")}}
  \cup {InsertAt(Long, k, t) : k \in DOMAIN Long,
                               t \in {EndByte, TokenOf("SEMICOLON"), TokenOf("OTHER")}}

MCTexts == {<<text>> : text \in {Listing(t) : t \in Sources} \cup Damaged}

RECURSIVE Parts(_)
Parts(n) ==
  {n} \cup UNION {Parts(n[child]) : child \in {"left", "right", "extra"} \cap DOMAIN n}

AllParts == UNION {Parts(f.tree) : f \in Parsings} \ {NoNode}

MCTrees == AllParts
=============================================================================
