----------------------------- MODULE MCIrBuild ------------------------------
(***************************************************************************)
(* Functions for IrBuild: every loop, switch and conditional around every  *)
(* other one, with a break, a continue, a return or a call in the middle   *)
(* of the inner one; and a few functions about conditions and variables.   *)
(* Different names of calls tell the places apart.                         *)
(***************************************************************************)
EXTENDS IrBuild

Ask(f) == Call(f, <<>>)
Run(f) == ExprStmt(Ask(f))
Show(e) == ExprStmt(Call("show", <<e>>))

(* Statements around a body, with conditions and calls named after tag.    *)
Around(tag, body) ==
    << While(Ask(tag), body),
       DoWhile(body, Ask(tag)),
       For(NoStmt, Ask(tag), Ask("post"), body),
       If(Ask(tag), body, NoStmt),
       If(Ask(tag), Run("then"), body),
       Switch(Ask(tag), << Case(1, <<body>>), Default(<< Run("other") >>) >>),
       Switch(Ask(tag), << Default(<<body>>), Case(1, << Run("one"), Break >>) >>) >>

Leaves == << Break, Continue, Return(Ask("value")), Run("leaf") >>
Kinds == 7

Nested(outer, inner, leaf) ==
    LET core == Block(<< If(Ask("go"), Leaves[leaf], NoStmt), Run("in") >>)
        around == Around("inner", core)[inner]
    IN  << Around("outer", Block(<< around, Run("out") >>))[outer] >>

(* As a sequence: a state names its function by index.                     *)
AllNested ==
    [i \in 1 .. 4 * Kinds * Kinds |->
        Nested(1 + ((i - 1) \div (4 * Kinds)), 1 + (((i - 1) \div 4) % Kinds), 1 + ((i - 1) % 4))]

Conditions ==
    << Logic("&&", Ask("a"), Logic("||", Ask("b"), Not(Ask("c")))),
      Logic("||", Logic("&&", Ask("a"), Ask("b")), Ask("c")),
      Ternary(Ask("a"), Logic("&&", Ask("b"), Ask("c")), Not(Ask("d"))),
      Binary("<", Ternary(Ask("a"), Ask("b"), IntLit(2)), Logic("||", Ask("c"), Ask("d"))) >>
Conditional ==
    [i \in 1 .. Len(Conditions) |->
        << While(Conditions[i], Run("in")), Show(Conditions[i]) >>]
    \o [i \in 1 .. Len(Conditions) |->
        << For(NoStmt, NoExpr, Conditions[i], If(Conditions[i], Break, NoStmt)) >>]
    \o [i \in 1 .. Len(Conditions) |->
        << DoWhile(If(Conditions[i], Continue, Run("in")), Conditions[i]), Return(Conditions[i]) >>]

x == Ident("x")
y == Ident("y")
Up(name) == IncDec(name, "+", TRUE)

Variables == <<
    (* an inner x hides the outer one, in a block and in a for *)
    << Decl("x", Ask("a")),
       Block(<< Decl("x", Ask("b")), ExprStmt(Assign("+", "x", IntLit(1))), Show(x) >>),
       For(Decl("x", IntLit(0)), Binary("<", x, IntLit(2)), Up("x"), Show(x)),
       Show(x), Return(x) >>,
    (* two names in one declaration belong to the block around it *)
    << Declarations(<< Decl("x", Ask("a")), Decl("y", Assign("=", "g", x)) >>),
       While(Binary("<", y, IntLit(2)), Block(<< Decl("x", IncDec("y", "+", FALSE)), Show(x) >>)),
       Return(Binary("-", Ident("g"), x)) >>,
    (* a loop that goes round by its condition only, and one by a variable *)
    << Decl("x", Ask("a")),
       DoWhile(Block(<< If(x, Continue, NoStmt), Show(IntLit(7)) >>), Ask("b")),
       Show(x) >>,
    << Decl("x", IntLit(0)),
       For(NoStmt, Binary("<", x, IntLit(2)), Up("x"),
           Block(<< If(Ask("a"), Continue, NoStmt), Show(x) >>)),
       Return(Up("x")) >>,
    (* the value of an increment, before and after *)
    << Decl("x", Ask("a")), Show(Up("x")), Show(IncDec("x", "-", FALSE)),
       ExprStmt(Assign("=", "g", Ternary(x, Assign("-", "x", IntLit(1)), Ask("b")))),
       Return(Binary("+", Ident("g"), x)) >> >>

(* Fall through, a default in the middle, no default; 0, 1 and 2 differ.   *)
Selections ==
    << << Switch(Ask("a"), << Case(1, << Run("one") >>), Default(<< Run("other"), Break >>),
                             Case(2, << If(Ask("b"), Break, NoStmt), Run("two") >>) >>), Run("out") >>,
      << While(Ask("a"), Switch(Ask("b"), << Case(0, << Continue >>), Case(1, <<>>),
                                            Case(2, << Break >>) >>)), Run("out") >>,
      << Decl("x", Ask("a")),
         Switch(x, << Case(1, << Decl("y", Ask("b")),
                                 While(y, ExprStmt(Assign("=", "y", Ask("c")))), Show(y) >>),
                      Case(2, << Show(x), Return(x) >>), Default(<< ExprStmt(Up("x")) >>) >>) >> >>

Given(bodies, values) ==
    [i \in 1 .. Len(bodies) |-> [body |-> bodies[i], answers |-> values]]

Corpus ==
    Given(AllNested \o Conditional \o Variables, 0 .. 1) \o Given(Selections, 0 .. 2)

GlobalNames == { "g" }
FunctionNames == { "inner", "outer", "post", "then", "other", "one", "two", "value", "leaf", "go",
                   "in", "out", "a", "b", "c", "d", "show" }
=============================================================================
