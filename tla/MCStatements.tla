----------------------------- MODULE MCStatements ---------------------------
(***************************************************************************)
(* Bodies of functions: every statement of C within every other, and three *)
(* deep around the jumps.                                                  *)
(***************************************************************************)
EXTENDS MCSyntax

Name(n) == N("name", n, "", <<>>)
Set(l, r) == N("set", "", "", <<Name(l), Name(r)>>)
Call(n, args) == N("call", n, "", args)
Statement(e) == N("expr", "", "", <<e>>)
Block(xs) == N("block", "", "", xs)
Return1(x) == N("return", "", "", <<x>>)
Var(n, t) == N("var", n, t, <<>>)
Arg(n, t) == N("arg", n, t, <<>>)
Args1(args) == N("args", "", "", args)
Function(n, t, args, body) == N("function", n, t, <<Args1(args), Block(body)>>)
Local(n, t) == N("extern", n, t, <<>>)
Ints(n) == <<Arg(n, "int")>>
Of(kind, x) == N(kind, "", "", <<Name("a"), x>>)

Simple == {Statement(Set("w", "w")), N("break", "", "", <<>>), N("continue", "", "", <<>>)}
Others == {Statement(Call("h", <<Name("a")>>)), Statement(N("inc", "", "", <<Name("a")>>)), Return1(Name("a")),
           N("goto", "L", "", <<>>), N("delete", "w", "", <<>>), N("empty", "", "", <<>>),
           N("throw", "", "", <<>>), Statement(Set("x", "a")), Statement(Call("h", <<>>)), Local("w", "char")}

\* x within every statement that has another within it
Around1(x) ==
    {Of("if", x), Of("if", Block(<<x>>)), Of("while", x), Of("while", Block(<<x>>)),
     Of("do", x), Of("do", Block(<<x>>)),
     N("for", "", "", <<Set("w", "a"), Name("w"), Set("w", "w"), x>>),
     N("for", "", "", <<Set("w", "a"), Name("w"), Set("w", "w"), Block(<<x>>)>>),
     Of("switch", Block(<<N("case", "", "", <<x>>), N("default", "", "", <<x>>)>>)),
     N("alone", "", "", <<x>>), N("try", "w", "char", <<Block(<<x>>), Block(<<x>>)>>),
     N("label", "L", "", <<x>>)}
Around2(x, y) == {N("ifelse", "", "", <<Name("a"), x, y>>), N("ifelse", "", "", <<Name("a"), Block(<<x>>), y>>)}

Inner == Simple \cup Others
Once == UNION {Around1(x) : x \in Inner} \cup UNION {Around2(x, y) : x \in Inner, y \in Simple}
Jumping == UNION {Around1(x) : x \in Simple}
Twice == UNION {Around1(x) : x \in Jumping} \cup UNION {Around2(x, y) : x \in Jumping, y \in Simple}

Elses == {N("ifelse", "", "", <<Name("a"), inner, x>>) : x \in Simple,
             inner \in {N("ifelse", "", "", <<Name("a"), y, y>>) : y \in Simple}}
         \cup {N("ifelse", "", "", <<Name("a"), x, N("ifelse", "", "", <<Name("a"), y, y>>)>>) : x, y \in Simple}

Statement1 == Statement(Set("w", "w"))
Bodies == {<<x>> : x \in Inner \cup Once \cup Twice \cup Elses} \cup {<<x, Statement1>> : x \in Inner \cup Once}

StatementPrograms ==
    {<<Var("w", "int"), Function("h", "int", Ints("b"), <<Return1(Name("b"))>>), Function("f", "int", Ints("a"), body)>> :
        body \in Bodies}
=============================================================================
