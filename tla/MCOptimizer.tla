---------------------------- MODULE MCOptimizer ----------------------------
(* Words of four bits and bytes of two. A program uses one of a few        *)
(* vocabularies, so that every operator is met without all their products. *)
EXTENDS Optimizer

Start(w, b, c) == [word |-> w, byte |-> b, char |-> c]
Some == {Start(9, 3, 2), Start(0, 0, 1)}

Words4(literals, variables, casts, operators) ==
    [literals |-> literals, variables |-> variables, casts |-> casts, operators |-> operators]

Few == {
    Words4({9}, {"byte", "char"}, {U8, I8}, {"add", "lt"}),
    Words4({1, 9}, {}, {I16}, {"shr", "sub", "not"}),
    Words4({2}, {"word"}, {I8}, {"mul", "div", "neg"}),
    Words4({9}, {"char"}, {U16}, {"and", "bnot", "eq"}),
    Words4({1}, {"byte"}, {I8}, {"shl", "shr"})}
=============================================================================
