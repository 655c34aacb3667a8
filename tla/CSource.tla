------------------------------ MODULE CSource -------------------------------
(***************************************************************************)
(* Functions in the C subset of the compiler: the trees that the parser    *)
(* (src/parser/parser.y) builds for their statements and expressions on    *)
(* 16-bit values, and what such a function does when it runs.              *)
(*                                                                         *)
(* Meaning is the reference: it follows the tree and knows nothing of      *)
(* labels, jumps or registers. What a function does is the sequence of the *)
(* calls it makes, with their arguments, and its result; what the called   *)
(* functions return is a parameter (answers).                              *)
(***************************************************************************)
EXTENDS Integers, SequencesExt

None == -1

(* Expressions. A cast, a pointer, an array and a structure are left out,  *)
(* and so are 32-bit values, which module Wide is about.                   *)
NoExpr == [e |-> "none"]
IntLit(n) == [e |-> "int", n |-> n]
Ident(x) == [e |-> "ident", x |-> x]
Call(f, args) == [e |-> "call", f |-> f, args |-> args]
Assign(op, x, rhs) == [e |-> "assign", op |-> op, x |-> x, rhs |-> rhs]
IncDec(x, op, isPost) == [e |-> "incdec", x |-> x, op |-> op, isPost |-> isPost]
Binary(op, l, r) == [e |-> "binary", op |-> op, l |-> l, r |-> r]
Logic(op, l, r) == [e |-> "logic", op |-> op, l |-> l, r |-> r]
Not(r) == [e |-> "not", r |-> r]
Ternary(c, t, f) == [e |-> "ternary", c |-> c, t |-> t, f |-> f]

(* Statements. The first part of a for is a statement: a declaration or an *)
(* expression. A transparent block is a declaration of several names.      *)
NoStmt == [s |-> "none"]
ExprStmt(e) == [s |-> "expr", e |-> e]
Decl(x, init) == [s |-> "decl", x |-> x, e |-> init]
Return(e) == [s |-> "return", e |-> e]
If(c, t, f) == [s |-> "if", e |-> c, t |-> t, f |-> f]
While(c, body) == [s |-> "while", e |-> c, body |-> body]
DoWhile(body, c) == [s |-> "do", e |-> c, body |-> body]
For(init, c, post, body) ==
    [s |-> "for", init |-> init, e |-> c, post |-> post, body |-> body]
Break == [s |-> "break"]
Continue == [s |-> "continue"]
Block(ss) == [s |-> "block", ss |-> ss, transparent |-> FALSE]
Declarations(ss) == [s |-> "block", ss |-> ss, transparent |-> TRUE]
Switch(e, cases) == [s |-> "switch", e |-> e, cases |-> cases]
Case(n, ss) == [n |-> n, ss |-> ss]
Default(ss) == [n |-> None, ss |-> ss]

-----------------------------------------------------------------------------
Bool(p) == IF p THEN 1 ELSE 0

Apply(op, x, y) ==
    CASE op = "+"  -> (x + y) % 65536
      [] op = "-"  -> (x - y) % 65536
      [] op = "==" -> Bool(x = y)
      [] op = "<"  -> Bool(x < y)

(* The state of a run: the variables of every open scope, innermost first, *)
(* the calls made, the answers left, the last value (v, and vs for a list) *)
(* and whether control goes on, leaves a statement or waits for an answer. *)
Begin(globals, answers) ==
    [env |-> << [x \in globals |-> 0] >>, calls |-> <<>>, left |-> answers,
     v |-> None, vs |-> <<>>, out |-> "go"]

ScopeOf(s, x) == SelectInSeq(s.env, LAMBDA frame : x \in DOMAIN frame)
Value(s, x) == s.env[ScopeOf(s, x)][x]
Open(s) == [s EXCEPT !.env = << <<>> >> \o @]
Close(s) == [s EXCEPT !.env = Tail(@)]
Write(s, x, w) == [s EXCEPT !.env[ScopeOf(s, x)][x] = w, !.v = w]
Declare(s, x, w) == [s EXCEPT !.env[1] = (x :> w) @@ @]

MakeCall(s, f) ==
    LET called == [s EXCEPT !.calls = Append(@, <<f, s.vs>>)]
    IN  IF s.left = <<>> THEN [called EXCEPT !.out = "waiting"]
        ELSE [called EXCEPT !.v = Head(s.left), !.left = Tail(@)]

(* What a loop or a switch catches: the exits of the statement it holds.   *)
Caught(s, exits) == IF s.out \in exits THEN [s EXCEPT !.out = "go"] ELSE s

RECURSIVE Val(_, _), Vals(_, _), Do(_, _), DoAll(_, _), Loop(_, _, _, _)

Val(e, s) ==
    CASE s.out # "go" \/ e.e = "none" -> s
      [] e.e = "int"    -> [s EXCEPT !.v = e.n]
      [] e.e = "ident"  -> [s EXCEPT !.v = Value(s, e.x)]
      [] e.e = "call"   -> LET t == Vals(e.args, s)
                           IN  IF t.out = "go" THEN MakeCall(t, e.f) ELSE t
      [] e.e = "assign" -> LET t == Val(e.rhs, s)
                           IN  IF t.out # "go" THEN t
                               ELSE IF e.op = "=" THEN Write(t, e.x, t.v)
                               ELSE Write(t, e.x, Apply(e.op, Value(t, e.x), t.v))
      [] e.e = "incdec" -> LET old == Value(s, e.x)
                               t == Write(s, e.x, Apply(e.op, old, 1))
                           IN  IF e.isPost THEN [t EXCEPT !.v = old] ELSE t
      [] e.e = "binary" -> LET t == Vals(<<e.l, e.r>>, s)
                           IN  IF t.out = "go" THEN [t EXCEPT !.v = Apply(e.op, t.vs[1], t.vs[2])]
                               ELSE t
      [] e.e = "logic"  -> LET t == Val(e.l, s)
                               known == (t.v # 0) = (e.op = "||")
                               u == IF known THEN t ELSE Val(e.r, t)
                           IN  [u EXCEPT !.v = Bool(@ # 0)]
      [] e.e = "not"    -> LET t == Val(e.r, s) IN [t EXCEPT !.v = Bool(@ = 0)]
      [] e.e = "ternary" -> LET t == Val(e.c, s) IN Val(IF t.v # 0 THEN e.t ELSE e.f, t)

(* A list of expressions, from the left: the order the compiler has chosen *)
Vals(es, s) ==
    IF es = <<>> THEN [s EXCEPT !.vs = <<>>]
    ELSE LET t == Val(Head(es), s)
             u == Vals(Tail(es), t)
         IN  [u EXCEPT !.vs = <<t.v>> \o @]

(* The rest of a loop whose condition comes next.                          *)
Loop(c, post, body, s) ==
    LET t == Val(c, s)
        u == Caught(Do(body, t), {"continue"})
    IN  IF t.out # "go" \/ t.v = 0 THEN t
        ELSE IF u.out # "go" THEN Caught(u, {"break"})
        ELSE Loop(c, post, body, Val(post, u))

Do(st, s) ==
    CASE s.out # "go" \/ st.s = "none" -> s
      [] st.s = "expr"     -> Val(st.e, s)
      [] st.s = "decl"     -> LET t == Val(st.e, s) IN Declare(t, st.x, t.v)
      [] st.s = "return"   -> LET t == Val(st.e, [s EXCEPT !.v = None])
                              IN  IF t.out = "go" THEN [t EXCEPT !.out = "return"] ELSE t
      [] st.s = "if"       -> LET t == Val(st.e, s) IN Do(IF t.v # 0 THEN st.t ELSE st.f, t)
      [] st.s = "while"    -> Loop(st.e, NoExpr, st.body, s)
      [] st.s = "do"       -> LET t == Caught(Do(st.body, s), {"continue"})
                              IN  IF t.out = "go" THEN Loop(st.e, NoExpr, st.body, t)
                                  ELSE Caught(t, {"break"})
      [] st.s = "for"      -> LET c == IF st.e = NoExpr THEN IntLit(1) ELSE st.e
                              IN  Close(Loop(c, st.post, st.body, Do(st.init, Open(s))))
      [] st.s \in {"break", "continue"} -> [s EXCEPT !.out = st.s]
      [] st.s = "block"    -> IF st.transparent THEN DoAll(st.ss, s)
                              ELSE Close(DoAll(st.ss, Open(s)))
      [] st.s = "switch"   ->
            LET t == Val(st.e, s)
                hit(n) == SelectInSeq(st.cases, LAMBDA c : c.n = n)
                from == IF hit(t.v) # 0 THEN hit(t.v) ELSE hit(None)
                rest == IF from = 0 THEN <<>>
                        ELSE FlattenSeq([i \in 1 .. Len(st.cases) - from + 1 |->
                                            st.cases[from + i - 1].ss])
            IN  Caught(Close(DoAll(rest, Open(t))), {"break"})

DoAll(ss, s) == IF ss = <<>> THEN s ELSE DoAll(Tail(ss), Do(Head(ss), s))

(* What the function with this body has done once these answers are spent. *)
Outcome(s) ==
    [calls |-> s.calls, ended |-> s.out # "waiting",
     result |-> IF s.out = "return" THEN s.v ELSE None]
Meaning(body, globals, answers) == Outcome(Do(Block(body), Begin(globals, answers)))
=============================================================================
