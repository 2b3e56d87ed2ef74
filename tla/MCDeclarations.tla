--------------------------- MODULE MCDeclarations ---------------------------
(***************************************************************************)
(* Declarations of one name in every way, in pairs and some threes, with a *)
(* function behind them that uses the name; and the forms that the parser  *)
(* refuses.  The run takes the bodies of functions of MCStatements too.    *)
(***************************************************************************)
EXTENDS MCStatements

Declare1(n, t, args) == N("declare", n, t, <<Args1(args)>>)
Mine == Statement(N("set", "", "", <<Name("v"), Name("a")>>))

Declaring ==
    {Var("v", "int"), Var("v", "char"), N("var", "v", "int", <<N("num", "1", "", <<>>)>>),
     Declare1("v", "int", Ints("a")),
     Declare1("f", "int", Ints("a")), Function("f", "int", Ints("a"), <<Return1(Name("a"))>>),
     Function("f", "int", Ints("b"), <<Return1(Name("b"))>>),
     Declare1("f", "int", <<Arg("a", "char*")>>), Declare1("f", "int", <<Arg("a", "char")>>),
     Declare1("f", "int", Ints("a") \o Ints("b")), Declare1("f", "int", <<>>),
     Function("f", "int", Ints("a"), <<Return1(Call("f", <<Name("a")>>))>>),
     Declare1("f", "char", Ints("a")), Var("f", "int"),
     N("namespace", "n", "", <<Block(<<Local("v", "char")>>)>>),
     N("namespace", "n", "", <<Block(<<Local("w", "int"), Function("f", "int", Ints("a"), <<Mine, Return1(Name("w"))>>)>>)>>),
     N("namespace", "n", "", <<Block(<<N("namespace", "k", "", <<Block(<<Local("v", "int")>>)>>)>>)>>),
     N("struct", "S", "", <<Block(<<Declare1("m", "int", Ints("a")), Function("k", "int", Ints("a"), <<Return1(Call("m", <<Name("a")>>))>>)>>)>>),
     N("struct", "S", "", <<Block(<<Function("m", "int", Ints("a"), <<Mine, Return1(Name("v"))>>)>>)>>),
     N("member", "m", "S", <<Args1(Ints("a")), Block(<<Return1(Name("a"))>>)>>),
     Var("s", "S"), N("typedef", "t", "int", <<>>), Var("v", "t")}

\* Uses of the names v, f, n and s
Using ==
    [v |-> {<<Mine>>, <<Local("v", "char"), Mine>>},
     f |-> {<<Statement(Call("f", <<Name("a")>>))>>, <<Statement(Call("f", <<>>))>>, <<Local("v", "char"), Mine>>},
     n |-> {<<Statement(N("set", "", "", <<N("scoped", "v", "n", <<>>), Name("a")>>))>>},
     s |-> {<<Statement(N("method", "m", "s", <<Name("a")>>))>>}]
UsingOnce == {<<Statement(N("set", "", "", <<Name("a"), Call("f", <<N("plus", "", "", <<Name("a"), Name("v")>>)>>)>>))>>,
              <<Statement(Call("f", <<Name("p")>>))>>, <<Local("f", "int"), Statement(Call("f", <<Name("a")>>))>>}
User(body) == Function("g", "int", <<Arg("a", "int"), Arg("p", "char*")>>, body \o <<Return1(Name("a"))>>)
Hiding == Function("g", "int", Ints("v"), <<Return1(Name("v"))>>)

(**************************** single forms *********************************)
Raw(verdict, text) == N("raw", verdict, "", text)
Body1 == Curly(<<L(<<"return", "a", ";">>)>>)
IntArg == Round(L(<<"int", "a">>))
Methods == <<L(<<"int", "m">>) \o IntArg \o L(<<";">>)>>
StructS == With("struct", "S") \o Curly(Methods)
Semicolon == L(<<";">>)
S1 == Raw("right", StructS \o Semicolon)
Made1(args, body) == L(<<"S">>) \o Round(args) \o body
Items(xs) == Curly(<<xs>>)
E2 == L(<<"e1", ",", "e2">>)

Right ==
    {<<Raw("right", With("struct", "S")
            \o Curly(<<L(<<"public", ":", "int", "m">>) \o IntArg \o Semicolon, Made1(L(<<"int", "a">>), Semicolon),
                       L(<<"~", "S">>) \o Round(<<>>) \o Semicolon, L(<<"private", ":", "int", "k">>) \o Round(<<>>) \o Semicolon>>)
            \o Semicolon)>>,
     <<S1, Raw("right", With("class", "D") \o L(<<":", "S">>) \o Curly(<<L(<<"int", "k">>) \o IntArg \o Semicolon>>) \o Semicolon)>>,
     <<Raw("right", L(<<"typedef">>) \o StructS \o L(<<"t", ";">>))>>,
     <<Raw("right", L(<<"typedef">>) \o With("enum", "E") \o Items(E2) \o L(<<"t", ";">>))>>,
     <<Raw("right", L(<<"typedef">>) \o With("enum", "") \o Items(E2 \o L(<<"=", "2">>)) \o L(<<"t", ";">>))>>,
     <<Raw("right", L(<<"typedef", "int", "*", "t", ";">>))>>,
     <<Raw("right", With("struct", "S") \o Curly(<<Made1(L(<<"int", "a">>), Semicolon)>>) \o Semicolon),
       Raw("right", L(<<"S", "::">>) \o Made1(L(<<"int", "a">>), Curly(<<L(<<"return", ";">>)>>)))>>,
     <<Raw("right", With("struct", "S") \o Curly(<<L(<<"void", "operator", "++">>) \o IntArg \o Curly(<<L(<<"return", ";">>)>>)>>)
            \o Semicolon)>>,
     <<Raw("right", With("struct", "S") \o Curly(<<L(<<"virtual", "int", "m">>) \o IntArg \o L(<<"=", "0", ";">>)>>) \o Semicolon)>>}

Wrong1 ==
    {L(<<"int", "=", "1", ";">>), L(<<"using", "int", ";">>), L(<<"extern", "x", ";">>), L(<<"~", "S">>) \o Round(<<>>) \o Semicolon,
     With("struct", "S") \o Curly(<<L(<<"private", "int", "m">>) \o IntArg \o Semicolon>>) \o Semicolon,
     With("struct", "S") \o L(<<":", "x">>) \o Curly(Methods) \o Semicolon,
     L(<<"typedef", "int", ";">>), L(<<"typedef", "x", "v", ";">>), L(<<"typedef">>) \o With("struct", "x") \o L(<<"t", ";">>),
     L(<<"int", "f">>) \o IntArg \o L(<<"=", "0", ";">>), L(<<"int", "f">>) \o Round(L(<<"int", "1">>)) \o Semicolon,
     With("struct", "S") \o Curly(<<L(<<"int", "m">>) \o IntArg \o L(<<"=", "0", ";">>)>>) \o Semicolon,
     With("enum", "E") \o Items(L(<<"e1", ",", "e1">>)) \o Semicolon,
     With("struct", "S") \o Curly(<<L(<<"operator", "S">>) \o Round(<<>>) \o Body1>>) \o Semicolon}
\* The parser is known to differ from C here.
Other1 ==
    {With("enum", "E") \o Items(E2) \o Semicolon, With("struct", "x") \o L(<<"p", ";">>), With("struct", "x") \o L(<<"*", "p", ";">>),
     L(<<"int", "const", "v", ";">>), L(<<"int", "&", "v", ";">>), L(<<"using", "namespace", "n", ";">>),
     L(<<"int", "f">>) \o IntArg
     \o Curly(<<L(<<"if">>) \o Round(L(<<"a">>)) \o L(<<"operator", "++">>) \o Round(L(<<"int", "b">>)) \o Semicolon>>)}
Forms == Right \cup {<<Raw("wrong", text)>> : text \in Wrong1} \cup {<<Raw("", text)>> : text \in Other1}

\* In a pair the name that is used is that of one of them, or of both.
Sources ==
    UNION {UNION {{<<x, y, User(body)>>, <<y, x, User(body)>>} : y \in Declaring, body \in Using[x.n]} :
        x \in {d \in Declaring : d.n \in DOMAIN Using}}
    \cup {<<x, User(body)>> : x \in Declaring \cup {Var("p", "char*")}, body \in UNION Range(Using) \cup UsingOnce}
    \cup {<<x, Hiding>> : x \in Declaring}

MCPrograms == {Program(xs) : xs \in Sources \cup Forms \cup StatementPrograms}
=============================================================================
