------------------------------ MODULE IrBuild -------------------------------
(***************************************************************************)
(* The lowering of statements (src/ir/ir_build.c), the removal of what     *)
(* cannot be reached (src/optimizer/optimizer.c) and a machine that runs   *)
(* the code as the register allocator lets it run.                         *)
(*                                                                         *)
(* Build walks a function's tree with a builder: the code so far, the next *)
(* register and the next label, the open scopes, and where a break and a   *)
(* continue go. The machine keeps the value of a virtual register only as  *)
(* long as control stays between the first and the last position that      *)
(* touches it: that is all regalloc_run, one pass over the positions,      *)
(* keeps free for it (NoInterference of RegAlloc). A jump backwards is     *)
(* where the two could disagree.                                           *)
(***************************************************************************)
EXTENDS CSource, FiniteSets

CONSTANTS
    Programs,   \* bodies of functions, with the answers that calls may give
    Globals,    \* names of global variables
    Functions,  \* names of functions
    MaxCalls    \* bound: calls that a run makes

VARIABLES
    program,    \* the program that runs: an index of Programs
    code,       \* its instructions
    live,       \* the interval of each of its virtual registers
    pc,         \* position of the instruction to run, 0 once it has returned
    regs,       \* virtual registers that hold a value
    mem,        \* variables: symbol -> value
    calls,      \* calls made, with their arguments
    answers,    \* what they returned
    result      \* result of the function, None for none

vars == <<program, code, live, pc, regs, mem, calls, answers, result>>

-----------------------------------------------------------------------------
(* The builder. Its v is the register of the expression just lowered, its  *)
(* args those of a list of expressions. Positions in "to" are labels:      *)
(* <<label>> of a label or a jump, <<true_label, false_label>> of a        *)
(* conditional jump.                                                       *)
Emit(b, op, use, x, to) ==
    [b EXCEPT !.code = Append(@, [op |-> op, dst |-> None, use |-> use, x |-> x, to |-> to])]
EmitTo(b, op, use, x) ==
    [b EXCEPT !.code = Append(@, [op |-> op, dst |-> b.v, use |-> use, x |-> x, to |-> <<>>])]

new_vreg(b) == [b EXCEPT !.v = b.regs, !.regs = @ + 1]
EmitNew(b, op, use, x) == EmitTo(new_vreg(b), op, use, x)
EmitOf(b, op, x) == EmitNew(b, op, b.args, x)
EmitMove(b, dst) == EmitTo([b EXCEPT !.v = dst], "mov", <<b.v>>, None)

fmt_labels(b, n) == [b EXCEPT !.labels = @ + n]
Label(b, l) == Emit(b, "label", <<>>, None, <<l>>)
Jump(b, l) == Emit(b, "jmp", <<>>, None, <<l>>)
JumpIf(b, yes, no) == Emit(b, "cjmp", <<b.v>>, None, <<yes, no>>)

(* The scopes, innermost first; in each the last declaration comes first.  *)
scope_declare(b, x) ==
    [b EXCEPT !.scope[1] = << [name |-> x, kind |-> "local", n |-> b.locals] >> \o @,
              !.locals = @ + 1]
scope_lookup(b, x) == SelectSeq(FlattenSeq(b.scope), LAMBDA sym : sym.name = x)
OpenScope(b) == [b EXCEPT !.scope = << <<>> >> \o @]
InScopeOf(b, outer) == [b EXCEPT !.scope = outer.scope]
Refused(b) == [b EXCEPT !.ok = FALSE]

(* Where the statements of a loop or of a switch go when they leave it.    *)
Inside(b, brk, cont) == [b EXCEPT !.brk = brk, !.cont = cont]
Outside(b, outer) == [b EXCEPT !.brk = outer.brk, !.cont = outer.cont]

LoadFound(b, found) ==
    IF found = <<>> THEN Refused(b) ELSE EmitNew(b, "load", <<>>, found[1])
StoreFound(b, found) ==
    IF found = <<>> THEN Refused(b) ELSE Emit(b, "store", <<b.v>>, found[1], <<>>)
Load(b, x) == LoadFound(b, scope_lookup(b, x))
Store(b, x) == StoreFound(b, scope_lookup(b, x))

RECURSIVE GenExpr(_, _), GenArgs(_, _), GenStmt(_, _), GenStmts(_, _)

GenArgs(es, b) ==
    IF es = <<>> THEN [b EXCEPT !.args = <<>>]
    ELSE LET first == GenExpr(Head(es), b)
         IN  [GenArgs(Tail(es), first) EXCEPT !.args = <<first.v>> \o @]

GenCall(e, b) ==
    LET found == scope_lookup(b, e.f)
    IN  IF found # <<>> /\ found[1].kind = "func" THEN EmitOf(GenArgs(e.args, b), "call", e.f)
        ELSE Refused(b)

(* && and ||: one register is written on both ways out.                    *)
GenLogic(e, b) ==
    LET rhs == b.labels  yes == b.labels + 1  no == b.labels + 2  end == b.labels + 3
        l == GenExpr(e.l, fmt_labels(b, 4))
        left == IF e.op = "&&" THEN JumpIf(l, rhs, no) ELSE JumpIf(l, yes, rhs)
        right == new_vreg(JumpIf(GenExpr(e.r, Label(left, rhs)), yes, no))
        one == Jump(EmitTo(Label(right, yes), "const", <<>>, 1), end)
    IN  Label(EmitTo(Label(one, no), "const", <<>>, 0), end)

GenTernary(e, b) ==
    LET yes == b.labels  no == b.labels + 1  end == b.labels + 2
        test == new_vreg(JumpIf(GenExpr(e.c, fmt_labels(b, 3)), yes, no))
        t == GenExpr(e.t, Label(test, yes))
        f == GenExpr(e.f, Label(Jump(EmitMove(t, test.v), end), no))
    IN  Label(EmitMove(f, test.v), end)

GenAssign(e, b) ==
    LET r == GenExpr(e.rhs, b)
        l == Load(r, e.x)
    IN  Store(IF e.op = "=" THEN r ELSE EmitNew(l, "binop", <<l.v, r.v>>, e.op), e.x)

GenIncDec(e, b) ==
    LET l == Load(b, e.x)
        one == EmitNew(l, "const", <<>>, 1)
        stored == Store(EmitNew(one, "binop", <<l.v, one.v>>, e.op), e.x)
    IN  IF e.isPost THEN [stored EXCEPT !.v = l.v] ELSE stored

GenExpr(e, b) ==
    CASE e.e = "none"    -> b
      [] e.e = "int"     -> EmitNew(b, "const", <<>>, e.n)
      [] e.e = "ident"   -> Load(b, e.x)
      [] e.e = "not"     -> EmitOf(GenArgs(<<e.r>>, b), "not", None)
      [] e.e = "binary"  -> EmitOf(GenArgs(<<e.l, e.r>>, b), "binop", e.op)
      [] e.e = "logic"   -> GenLogic(e, b)
      [] e.e = "ternary" -> GenTernary(e, b)
      [] e.e = "call"    -> GenCall(e, b)
      [] e.e = "assign"  -> GenAssign(e, b)
      [] e.e = "incdec"  -> GenIncDec(e, b)

-----------------------------------------------------------------------------
gen_block(st, b) ==
    InScopeOf(GenStmts(st.ss, IF st.transparent THEN b ELSE OpenScope(b)), b)

(* The name is in scope in its own initial value.                          *)
GenDecl(st, b) ==
    LET d == scope_declare(b, st.x)
        init == GenExpr(st.e, d)
    IN  IF st.e = NoExpr THEN d ELSE Emit(init, "store", <<init.v>>, d.scope[1][1], <<>>)

GenReturn(st, b) ==
    LET r == GenExpr(st.e, b)
    IN  Emit(r, "ret", IF st.e = NoExpr THEN <<>> ELSE <<r.v>>, None, <<>>)

GenIf(st, b) ==
    LET then == b.labels  else == b.labels + 1  end == b.labels + 2
        no == IF st.f = NoStmt THEN end ELSE else
        test == JumpIf(GenExpr(st.e, fmt_labels(b, 3)), then, no)
        t == GenStmt(st.t, Label(test, then))
    IN  IF st.f = NoStmt THEN Label(t, end)
        ELSE Label(GenStmt(st.f, Label(Jump(t, end), else)), end)

(* Fault: the condition is computed once, before the loop's first label.   *)
GenWhileConditionOnce(st, b) ==
    LET cond == b.labels  body == b.labels + 1  end == b.labels + 2
        test == JumpIf(Label(GenExpr(st.e, fmt_labels(b, 3)), cond), body, end)
        loop == GenStmt(st.body, Inside(Label(test, body), end, cond))
    IN  Label(Jump(Outside(loop, b), cond), end)

GenWhile(st, b) ==
    LET cond == b.labels  body == b.labels + 1  end == b.labels + 2
        test == JumpIf(GenExpr(st.e, Label(fmt_labels(b, 3), cond)), body, end)
        loop == GenStmt(st.body, Inside(Label(test, body), end, cond))
    IN  Label(Jump(Outside(loop, b), cond), end)

(* Fault: continue skips the condition.                                    *)
GenDoContinueToBody(st, b) ==
    LET body == b.labels  cond == b.labels + 1  end == b.labels + 2
        loop == GenStmt(st.body, Inside(Label(fmt_labels(b, 3), body), end, body))
    IN  Label(JumpIf(GenExpr(st.e, Label(Outside(loop, b), cond)), body, end), end)

GenDo(st, b) ==
    LET body == b.labels  cond == b.labels + 1  end == b.labels + 2
        loop == GenStmt(st.body, Inside(Label(fmt_labels(b, 3), body), end, cond))
    IN  Label(JumpIf(GenExpr(st.e, Label(Outside(loop, b), cond)), body, end), end)

(* Fault: continue skips the last part.                                    *)
GenForSkippingPost(st, init) ==
    LET cond == init.labels  body == cond + 1  post == cond + 2  end == cond + 3
        c == GenExpr(st.e, Label(fmt_labels(init, 4), cond))
        test == IF st.e = NoExpr THEN Jump(c, body) ELSE JumpIf(c, body, end)
        loop == GenStmt(st.body, Inside(Label(test, body), end, cond))
        next == GenExpr(st.post, Label(Outside(loop, init), post))
    IN  Label(Jump(next, cond), end)

(* The part of a for behind its first one, which has taken its own labels. *)
GenForLoop(st, init) ==
    LET cond == init.labels  body == cond + 1  post == cond + 2  end == cond + 3
        c == GenExpr(st.e, Label(fmt_labels(init, 4), cond))
        test == IF st.e = NoExpr THEN Jump(c, body) ELSE JumpIf(c, body, end)
        loop == GenStmt(st.body, Inside(Label(test, body), end, post))
        next == GenExpr(st.post, Label(Outside(loop, init), post))
    IN  Label(Jump(next, cond), end)

GenFor(st, b) == InScopeOf(GenForLoop(st, GenStmt(st.init, OpenScope(b))), b)

(* All comparisons with v come first, then the statements of the cases in  *)
(* their order. A switch catches break, and leaves continue to the loop    *)
(* around.                                                                 *)
GenCases(st, v, end) ==
    LET caseLabel(i) == v.labels + i - 1
        default == SelectInSeq(st.cases, LAMBDA c : c.n = None)
        compare(acc, i) ==
            LET c == EmitNew(acc, "const", <<>>, st.cases[i].n)
                next == acc.labels
                eq == EmitNew(fmt_labels(c, 1), "binop", <<v.v, c.v>>, "==")
            IN  IF i = default THEN acc ELSE Label(JumpIf(eq, caseLabel(i), next), next)
        compared == FoldLeftDomain(compare, fmt_labels(v, Len(st.cases)), st.cases)
        chosen == Jump(compared, IF default = 0 THEN end ELSE caseLabel(default))
        body(acc, i) == GenStmts(st.cases[i].ss, Label(acc, caseLabel(i)))
    IN  Label(FoldLeftDomain(body, Inside(chosen, end, v.cont), st.cases), end)

GenSwitch(st, b) == Outside(GenCases(st, GenExpr(st.e, fmt_labels(b, 1)), b.labels), b)

GenStmt(st, b) ==
    CASE st.s = "none"     -> b
      [] st.s = "expr"     -> GenExpr(st.e, b)
      [] st.s = "decl"     -> GenDecl(st, b)
      [] st.s = "return"   -> GenReturn(st, b)
      [] st.s = "if"       -> GenIf(st, b)
      [] st.s = "while"    -> GenWhile(st, b)
      [] st.s = "do"       -> GenDo(st, b)
      [] st.s = "for"      -> GenFor(st, b)
      [] st.s = "block"    -> gen_block(st, b)
      [] st.s = "switch"   -> GenSwitch(st, b)
      [] st.s = "break"    -> IF b.brk = None THEN Refused(b) ELSE Jump(b, b.brk)
      [] st.s = "continue" -> IF b.cont = None THEN Refused(b) ELSE Jump(b, b.cont)

GenStmts(ss, b) == IF ss = <<>> THEN b ELSE GenStmts(Tail(ss), GenStmt(Head(ss), b))

GlobalScope ==
    FoldSet(LAMBDA sym, syms : Append(syms, sym), <<>>,
            { [name |-> x, kind |-> "global", n |-> 0] : x \in Globals }
            \cup { [name |-> f, kind |-> "func", n |-> 0] : f \in Functions })

Build(body) ==
    LET b == [code |-> <<>>, regs |-> 0, v |-> None, args |-> <<>>, labels |-> 0,
              locals |-> 0, scope |-> << <<>>, GlobalScope >>,
              brk |-> None, cont |-> None, ok |-> TRUE]
    IN  Emit(gen_block(Block(body), b), "ret", <<>>, None, <<>>)

(* What follows a jump or a return, up to the next label, is taken out.    *)
strip_unreachable(insts) ==
    LET reached(i) == \A j \in 1 .. i - 1 : insts[j].op \in {"ret", "jmp"} =>
                          \E k \in j + 1 .. i : insts[k].op = "label"
    IN  FoldLeftDomain(LAMBDA kept, i : IF reached(i) THEN Append(kept, insts[i]) ELSE kept,
                       <<>>, insts)

-----------------------------------------------------------------------------
(* The intervals of regalloc_run: every instruction, a label too, is one   *)
(* position.                                                               *)
Touched(inst) == Range(inst.use) \cup ({inst.dst} \ {None})
Positions(insts, v) == { i \in 1 .. Len(insts) : v \in Touched(insts[i]) }
Intervals(insts) ==
    LET vregs == UNION { Touched(insts[i]) : i \in 1 .. Len(insts) }
        interval(at) == Min(at) .. Max(at)
    IN  [v \in vregs |-> interval(Positions(insts, v))]

(* The machine.                                                            *)
Inst == code[pc]
Target(l) == CHOOSE i \in 1 .. Len(code) : code[i].op = "label" /\ code[i].to = <<l>>

Init ==
    /\ program \in 1 .. Len(Programs)
    /\ \E b \in { Build(Programs[program].body) } :
          /\ b.ok
          /\ code = strip_unreachable(b.code)
    /\ live = Intervals(code)
    /\ pc = 1
    /\ regs = <<>>
    /\ mem = [s \in { s \in Range(GlobalScope) : s.kind = "global" } |-> 0]
    /\ calls = <<>> /\ answers = <<>>
    /\ result = None

(* Control reaches position i with these registers: the values whose       *)
(* interval does not hold i are lost.                                      *)
MoveTo(i, held) ==
    /\ pc' = i
    /\ regs' = Restrict(held, { v \in DOMAIN held : i \in live[v] })
    /\ UNCHANGED <<program, code, live, calls, answers, result>>

Ready == pc # 0 /\ Range(Inst.use) \subseteq DOMAIN regs
Operand(i) == regs[Inst.use[i]]

Put(op, v) ==
    /\ Inst.op = op
    /\ MoveTo(pc + 1, (Inst.dst :> v) @@ regs)
    /\ UNCHANGED mem

Compute ==
    /\ Ready
    /\ \/ Put("const", Inst.x)
       \/ Put("mov", Operand(1))
       \/ Put("not", Bool(Operand(1) = 0))
       \/ Put("binop", Apply(Inst.x, Operand(1), Operand(2)))
       \/ Put("load", mem[Inst.x])

StoreWord ==
    /\ Ready /\ Inst.op = "store"
    /\ mem' = (Inst.x :> Operand(1)) @@ mem
    /\ MoveTo(pc + 1, regs)

Branch ==
    /\ Ready
    /\ \/ Inst.op = "label" /\ MoveTo(pc + 1, regs)
       \/ Inst.op = "jmp" /\ MoveTo(Target(Inst.to[1]), regs)
       \/ Inst.op = "cjmp" /\ MoveTo(Target(Inst.to[IF Operand(1) # 0 THEN 1 ELSE 2]), regs)
    /\ UNCHANGED mem

ReturnWord ==
    /\ Ready /\ Inst.op = "ret"
    /\ pc' = 0 /\ regs' = <<>>
    /\ result' = IF Inst.use = <<>> THEN None ELSE Operand(1)
    /\ UNCHANGED <<program, code, live, mem, calls, answers>>

AtCall == pc # 0 /\ Inst.op = "call"
Pending == << Inst.x, [i \in DOMAIN Inst.use |-> Operand(i)] >>

(* A call returns any of the values that the program's calls may give.     *)
CallOut(v) ==
    /\ Ready /\ AtCall /\ Len(calls) < MaxCalls
    /\ calls' = Append(calls, Pending)
    /\ answers' = Append(answers, v)
    /\ LET held == (Inst.dst :> v) @@ regs
       IN  regs' = Restrict(held, { r \in DOMAIN held : pc + 1 \in live[r] })
    /\ pc' = pc + 1
    /\ UNCHANGED <<program, code, live, mem, result>>

Step == Compute \/ StoreWord \/ Branch \/ ReturnWord

Next == Step \/ \E v \in Programs[program].answers : CallOut(v)

(* The processor goes on as long as it can; a called function need not     *)
(* return.                                                                 *)
Spec == Init /\ [][Next]_vars /\ WF_vars(Step)

-----------------------------------------------------------------------------
(* The code does what the tree means: it makes the same calls in the same  *)
(* order with the same arguments whatever they return, and returns the     *)
(* same value. This is about all the places where a break or a continue of *)
(* nested statements, a short-circuit, a fall through or a shadowed name   *)
(* could lead elsewhere.                                                   *)
RunsAsWritten ==
    pc = 0 \/ (AtCall /\ Ready) =>
        Meaning(Programs[program].body, Globals, answers) =
            [calls |-> IF pc = 0 THEN calls ELSE Append(calls, Pending),
             ended |-> pc = 0, result |-> result]

(* No register is read after control has left its interval: the intervals  *)
(* of regalloc_run, which know nothing of jumps, are enough for the code   *)
(* that the builder makes, loops included.                                 *)
HeldWhenRead == pc # 0 => Ready

(* The code never turns round without a call in between: it comes to the   *)
(* next call or to the end.                                                *)
ComesToCallOrEnd == []<>(pc = 0 \/ AtCall)
=============================================================================
