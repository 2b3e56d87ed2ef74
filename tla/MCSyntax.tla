------------------------------ MODULE MCSyntax ------------------------------
(***************************************************************************)
(* Programs for the syntax parser, and what C says of them.                *)
(*                                                                         *)
(* A source is a tree of nodes.  Its text is what the parser is given; its *)
(* meaning is worked out with scopes of its own, in the order of the text: *)
(* the entity each name stands for, the loop or switch each jump leaves,   *)
(* and whether the source is one that C accepts.  Where the parser is      *)
(* known to do something else, the meaning names the oddity.               *)
(***************************************************************************)
EXTENDS Statements

N(k, n, t, c) == [k |-> k, n |-> n, t |-> t, c |-> c]

(********************************* text ************************************)
Symbols == DOMAIN builtin_types \cup Operators \cup Storage
           \cup {"else", "catch", "const", "namespace", "using", "typedef", "private", "public", "inline",
                 ";", ",", "=", "+", "++", "::", ":", ".", "*", "&", "~", "-", "three_dots"}
L(texts) == [k \in DOMAIN texts |-> [Lexeme(IF texts[k] \in Symbols THEN texts[k]
                                            ELSE IF texts[k] \in {"0", "1", "2"} THEN "integer" ELSE "word")
                                     EXCEPT !.v = IF texts[k] \in Symbols THEN "" ELSE texts[k]]]
In3(l, s) == <<[Lexeme(l) EXCEPT !.s = s]>>
Round(s) == In3("(", s)
Curly(s) == In3("{", s)
Quoted == <<Lexeme("string")>>
With(l, v) == <<[Lexeme(l) EXCEPT !.v = v]>>

TypeText(t) == CASE t = "int*" -> L(<<"int", "*">>) [] t = "char*" -> L(<<"char", "*">>) [] OTHER -> L(<<t>>)

Separated(texts, l) == FlattenSeq([k \in DOMAIN texts |-> IF k = 1 THEN texts[k] ELSE L(<<l>>) \o texts[k]])

RECURSIVE E(_), T(_), Halves(_)

\* Expressions.
E(x) ==
    LET Of(k) == E(x.c[k])
        All == [k \in DOMAIN x.c |-> E(x.c[k])]
    IN  CASE x.k \in {"name", "num"} -> L(<<x.n>>)
          [] x.k = "plus" -> Of(1) \o L(<<"+">>) \o Of(2)
          [] x.k = "set" -> Of(1) \o L(<<"=">>) \o Of(2)
          [] x.k = "inc" -> L(<<"++">>) \o Of(1)
          [] x.k = "scoped" -> L(<<x.t, "::", x.n>>)
          [] x.k = "call" -> L(<<x.n>>) \o Round(Separated(All, ","))
          [] x.k = "method" -> L(<<x.t, ".", x.n>>) \o Round(Separated(All, ","))

Args(x) == Separated([k \in DOMAIN x.c |-> TypeText(x.c[k].t) \o IF x.c[k].n = "" THEN <<>> ELSE L(<<x.c[k].n>>)], ",")

\* The code splitter joins these from two, but not in the block of a catch.
Halves(x) ==
    LET Head1 == Round(E(x.c[1]))
    IN  CASE x.k = "ifelse" -> <<L(<<"if">>) \o Head1 \o T(x.c[2]), L(<<"else">>) \o T(x.c[3])>>
          [] x.k = "do" -> <<L(<<"do">>) \o T(x.c[2]), L(<<"while">>) \o Head1 \o L(<<";">>)>>
          [] x.k = "try" -> <<L(<<"try">>) \o T(x.c[1]),
                              L(<<"catch">>) \o Round(L(<<x.t, x.n>>))
                              \o Curly(FlattenSeq([k \in DOMAIN x.c[2].c |-> Halves(x.c[2].c[k])]))>>
          [] OTHER -> <<T(x)>>

\* Statements; a function has its arguments in a node of their own.
T(x) ==
    LET Part1 == T(x.c[1])
        Part2 == T(x.c[2])
        Head1 == Round(E(x.c[1]))
        All == [k \in DOMAIN x.c |-> T(x.c[k])]
        Declarator == TypeText(x.t) \o L(<<x.n>>)
    IN  CASE x.k = "expr" -> E(x.c[1]) \o L(<<";">>)
          [] x.k = "raw" -> x.c
          [] x.k = "empty" -> L(<<";">>)
          [] x.k \in {"block", "alone"} -> Curly(All)
          [] x.k \in {"break", "continue"} -> L(<<x.k, ";">>)
          [] x.k = "throw" -> L(<<"throw">>) \o Quoted \o L(<<";">>)
          [] x.k = "return" -> L(<<"return">>) \o E(x.c[1]) \o L(<<";">>)
          [] x.k = "goto" -> L(<<"goto", x.n, ";">>)
          [] x.k = "delete" -> L(<<"delete", x.n, ";">>)
          [] x.k = "label" -> L(<<x.n, ":">>) \o Part1
          [] x.k = "case" -> L(<<"case", "1", ":">>) \o Part1
          [] x.k = "default" -> L(<<"default", ":">>) \o Part1
          [] x.k = "if" -> L(<<"if">>) \o Head1 \o Part2
          [] x.k \in {"ifelse", "do", "try"} -> FlattenSeq(Halves(x))
          [] x.k = "while" -> L(<<"while">>) \o Head1 \o Part2
          [] x.k = "for" -> L(<<"for">>)
                            \o Round(E(x.c[1]) \o L(<<";">>) \o E(x.c[2]) \o L(<<";">>) \o E(x.c[3])) \o T(x.c[4])
          [] x.k = "switch" -> L(<<"switch">>) \o Head1 \o Part2
          [] x.k = "extern" -> L(<<"extern">>) \o Declarator \o L(<<";">>)
          [] x.k = "var" -> Declarator \o (IF x.c = <<>> THEN <<>> ELSE L(<<"=">>) \o E(x.c[1])) \o L(<<";">>)
          [] x.k = "declare" -> Declarator \o Round(Args(x.c[1])) \o L(<<";">>)
          [] x.k = "function" -> Declarator \o Round(Args(x.c[1])) \o Part2
          [] x.k = "member" -> L(<<"int", x.t, "::", x.n>>) \o Round(Args(x.c[1])) \o Part2
          [] x.k = "namespace" -> L(<<"namespace", x.n>>) \o Part1
          [] x.k = "struct" -> With("struct", x.n) \o Part1 \o L(<<";">>)
          [] x.k = "typedef" -> L(<<"typedef">>) \o Declarator \o L(<<";">>)

(******************************** scopes ***********************************)
\* An entity has a name, a type, the argument lists of a function, and the
\* scope that a namespace or a structure is.
Entity(kind, n, t) == [kind |-> kind, n |-> n, t |-> t, lists |-> <<>>, scope |-> <<>>]

Here(scope, n) == SelectSeq(scope, LAMBDA e : e.n = n)
Bound(env, n) ==
    LET depths == {d \in DOMAIN env : Here(env[d], n) # <<>>}
    IN  IF depths = {} THEN <<>> ELSE <<Here(env[Max(depths)], n)[1]>>

Put(scope, e) ==
    IF Here(scope, e.n) = <<>> THEN Append(scope, e) ELSE [k \in DOMAIN scope |-> IF scope[k].n = e.n THEN e ELSE scope[k]]
Enter(env, e) == Append(Front(env), Put(Last(env), e))

ArgTypes(args) == [k \in DOMAIN args |-> args[k].t]

\* The function of that name with one more list of arguments.
Overloaded(scope, x, defined) ==
    LET known == Here(scope, x.n)
        f == IF known = <<>> THEN Entity("function", x.n, x.t) ELSE known[1]
        args == x.c[1].c
        same == SelectInSeq(f.lists, LAMBDA l : ArgTypes(l.args) = ArgTypes(args))
    IN  IF same = 0 THEN [f EXCEPT !.lists = Append(@, [args |-> args, defined |-> defined])]
        ELSE [f EXCEPT !.lists[same].defined = @ \/ defined]

(******************************* meaning ***********************************)
\* What is read so far: the scopes, the marks left in the tree, whether all
\* is well, what oddities were met, whether a block stood on its own.
Reading0 == [env |-> <<<<>>>>, loops |-> <<>>, returns |-> "", marks |-> <<>>, ok |-> TRUE, odd |-> {},
             alone |-> FALSE, type |-> ""]

Mark(r, l, n, as) == [r EXCEPT !.marks = Append(@, <<l, n, as>>)]
Wrong(r) == [r EXCEPT !.ok = FALSE]
Odd(r, oddity) == [r EXCEPT !.odd = @ \cup {oddity}]
OddIf(condition, r, oddity) == IF condition THEN Odd(r, oddity) ELSE r
WrongIf(condition, r) == IF condition THEN Wrong(r) ELSE r
Typed0(r, t) == [r EXCEPT !.type = t]
Fits(t, s) == t = s \/ {t, s} \subseteq {"int", "char"}

\* An overload that fits as far as it or the values go is looked at for
\* another one that fits exactly.
Shadows(list, types) == list # <<>> /\ \A k \in DOMAIN list \cap DOMAIN types : Fits(list[k], types[k])

CallMeans(r, f, types) ==
    LET lists == [k \in DOMAIN f.lists |-> ArgTypes(f.lists[k].args)]
        exact == SelectInSeq(lists, LAMBDA l : l = types)
        before == IF exact = 0 THEN Len(lists) ELSE exact - 1
        looks == \E k \in 1 .. before : Shadows(lists[k], types)
        chosen == f.lists[exact].args
        marked == IF exact = 0 THEN Wrong(r) ELSE Mark(r, "call", f.n, [k \in DOMAIN chosen |-> chosen[k].t])
    IN  Typed0(OddIf(looks \/ (exact = 0 /\ Last(lists) = <<>>), marked, "another overload first"), f.t)

RECURSIVE Value(_, _), Mean(_, _)

VariableMeans(r, e) ==
    LET type == SelectSeq(Bound(r.env, e.t), LAMBDA known : known.kind = "type")
    IN  Typed0(Mark(r, "name", e.n, e.t), IF type = <<>> THEN e.t ELSE type[1].t)

\* A function is found before a variable that hides it.
Hidden(r, n) == \E d \in DOMAIN r.env : \E e \in Range(r.env[d]) : e.n = n /\ e.kind = "function"

NameMeans(r, n, found) ==
    IF found = <<>> THEN Wrong(r)
    ELSE IF found[1].kind # "variable" THEN Odd(r, "function without call")
    ELSE OddIf(Hidden(r, n), VariableMeans(r, found[1]), "hides a function")

ScopedMeans(r, member) ==
    IF member = <<>> THEN Wrong(r)
    ELSE IF member[1].kind # "variable" THEN Odd(r, "function without call")
    ELSE VariableMeans(r, member[1])

FoundCall(all, n, found) ==
    IF found = <<>> THEN Wrong(all.r)
    ELSE IF found[1].kind # "function" THEN OddIf(Hidden(all.r, n), Wrong(all.r), "hides a function")
    ELSE CallMeans(all.r, found[1], all.types)

\* x.t is the object, of type compound.
MethodMeans(all, x, owner, compound) ==
    IF owner = <<>> \/ compound = <<>> THEN Wrong(all.r)
    ELSE LET method == Here(compound[1].scope, x.n)
         IN  IF method = <<>> THEN Wrong(all.r)
             ELSE CallMeans(Mark(all.r, "name", x.t, owner[1].t), method[1], all.types)

BothMean(left, right) == WrongIf(~Fits(left, right.type), Typed0(right, left))
Then2(r, x, left) == BothMean(left.type, Value(left, x.c[2]))
MembersOf(owner, n) == IF owner = <<>> THEN <<>> ELSE Here(owner[1].scope, n)

\* The arguments of a call, one after the other.
ArgumentsMean(r, xs) ==
    FoldLeft(LAMBDA all, arg : LET v == Value(all.r, arg) IN [r |-> v, types |-> Append(all.types, v.type)],
             [r |-> r, types |-> <<>>], xs)

\* An expression.
Value(r, x) ==
    CASE x.k = "num" -> Typed0(r, "int")
      [] x.k = "name" -> NameMeans(r, x.n, Bound(r.env, x.n))
      [] x.k = "scoped" -> ScopedMeans(r, MembersOf(Bound(r.env, x.t), x.n))
      [] x.k = "inc" -> Value(r, x.c[1])
      [] x.k \in {"plus", "set"} -> Then2(r, x, Value(r, x.c[1]))
      [] x.k = "call" -> FoundCall(ArgumentsMean(r, x.c), x.n, Bound(r.env, x.n))
      [] x.k = "method" -> MethodMeans(ArgumentsMean(r, x.c), x, Bound(r.env, x.t),
                                       LET owner == Bound(r.env, x.t) IN IF owner = <<>> THEN <<>> ELSE Bound(r.env, owner[1].t))

IsType(r, t) ==
    \/ t \in {"int", "char", "int*", "char*"}
    \/ \E e \in Range(Bound(r.env, t)) : e.kind \in {"type", "structure"}
Inside(r, scope) == [r EXCEPT !.env = Append(@, scope)]
Back(r, before) == [r EXCEPT !.env = before.env, !.loops = before.loops, !.returns = before.returns]
Each(r, xs) == FoldLeft(Mean, r, xs)

\* A statement that is a part of another: a block, an expression, or one
\* that begins with a word of the language.
PartOf(r, x) == OddIf(x.k \in {"empty", "label"}, WrongIf(x.k = "extern", Back(Mean(Inside(r, <<>>), x), r)), "not expected as a part")

\* A loop or switch around a statement; a while or do whose body is not a
\* block gets no space of its own.
Around(r, kind, body) ==
    LET own == kind \in {"for", "switch"} \/ body.k \in {"block", "alone"}
        inner == [r EXCEPT !.loops = Append(@, [kind |-> kind, own |-> own])]
    IN  Back(IF kind = "for" THEN Mean(inner, body) ELSE PartOf(inner, body), r)

Leaves1(r, x) ==
    LET targets == {k \in DOMAIN r.loops : x.k = "break" \/ r.loops[k].kind # "switch"}
        target == Max(targets)
        number == Cardinality({k \in 1 .. target : r.loops[k].own})
    IN  IF targets = {} THEN Wrong(r)
        ELSE OddIf(~r.loops[target].own, Mark(r, x.k, ToString(number), ""), "loop without a block")

\* The body of a function; its arguments are a scope.
Body(r, x, args, returns) ==
    LET scope == [k \in DOMAIN args |-> Entity("variable", args[k].n, args[k].t)]
        inner == [Inside(r, scope) EXCEPT !.loops = IF x.k = "handler" THEN @ ELSE <<>>, !.returns = returns]
    IN  Back(Each(inner, x.c), r)

\* Function x in a scope; a definition keeps the names its first declaration
\* gave to the arguments, and the arguments' types are written together.
Function1(r, scope, x, defined) ==
    LET args == x.c[1].c
        f == Overloaded(scope, x, defined)
        old == Here(scope, x.n)
        same == SelectSeq(IF old = <<>> THEN <<>> ELSE old[1].lists, LAMBDA l : ArgTypes(l.args) = ArgTypes(args))
        Stars(types) == Cardinality({k \in DOMAIN types : types[k] \in {"int*", "char*"}})
        Base(types) == [k \in DOMAIN types |-> CASE types[k] = "int*" -> "int" [] types[k] = "char*" -> "char" [] OTHER -> types[k]]
        collides == \E j, k \in DOMAIN f.lists :
                        LET a == ArgTypes(f.lists[j].args)
                            b == ArgTypes(f.lists[k].args)
                        IN  a # b /\ Base(a) = Base(b) /\ Stars(a) = Stars(b)
        again == defined /\ same # <<>> /\ same[1].defined
        renamed == defined /\ same # <<>> /\ same[1].args # args
        nested == r.returns # ""
    IN  OddIf(collides, OddIf(renamed, OddIf(old # <<>> /\ (old[1].kind # "function" \/ old[1].t # x.t), WrongIf(again \/ (nested /\ defined), r),
              "declared as something else"), "arguments renamed"), "argument types collide")

Declared(r, e) == [r EXCEPT !.env = Enter(@, e)]

\* A function that is declared or defined in the innermost scope, with what
\* that makes of the scope.
FunctionIn(r, x) ==
    LET defined == x.k = "function"
    IN  Function1(Declared(r, Overloaded(Last(r.env), x, defined)), Last(r.env), x, defined)

\* A variable, and its initial value.
InitialFits(r, t) == WrongIf(~Fits(r.type, t), r)
VariableIn(r, x, known, variable) ==
    OddIf(Len(r.env) # 1,
          OddIf(known # <<>> /\ known[1].kind # "variable",
                WrongIf(known # <<>> \/ ~IsType(r, x.t),
                        IF x.c = <<>> THEN variable ELSE InitialFits(Value(variable, x.c[1]), x.t)),
                "declared as something else"),
          "local variable")

\* inner is what its declarations mean.
NamespaceIn(r, x, inner) ==
    OddIf(r.alone \/ inner.alone,
          OddIf(Here(Last(r.env), x.n) # <<>>,
                [inner EXCEPT !.env = Enter(r.env, [Entity("space", x.n, x.n) EXCEPT !.scope = Last(inner.env)])],
                "namespace reopened"),
          "block before a namespace")

\* All members of a structure are known in the body of each.
StructIn(r, x, bodies) ==
    [bodies EXCEPT !.env = Enter(r.env, [Entity("structure", x.n, x.n) EXCEPT !.scope = Last(bodies.env)])]
Members(r, xs) == FoldLeft(FunctionIn, Inside(r, <<>>), xs)
Bodies1(r, xs) ==
    FoldLeft(LAMBDA all, m : Body(all, m.c[2], m.c[1].c, m.t), r, SelectSeq(xs, LAMBDA m : m.k = "function"))

\* A member defined outside of its structure.
Outside(r, added, x, compound, scope) ==
    Body(Inside([added EXCEPT !.env = Enter(@, [compound EXCEPT !.scope = scope])], scope), x.c[2], x.c[1].c, "int")
Left(r) == Back(r, [r EXCEPT !.env = Front(@)])
MemberIn(r, x, compound) ==
    IF compound = <<>> THEN Wrong(r)
    ELSE OddIf(Here(compound[1].scope, x.n) = <<>>,
               Left(Outside(r, Function1(r, compound[1].scope, x, TRUE), x, compound[1],
                            Put(compound[1].scope, Overloaded(compound[1].scope, x, TRUE)))),
               "member not declared")

\* A catch handler's blocks are not joined; return is judged as in a void function.
HandlerIn(r, x) ==
    OddIf(\E k \in DOMAIN x.c[2].c : x.c[2].c[k].k \in {"ifelse", "do", "try"},
          Body(r, [x.c[2] EXCEPT !.k = "handler"], <<N("arg", x.n, x.t, <<>>)>>, "void"), "joined in a handler")

StatementMeans(r, x) ==
    CASE x.k = "if" -> PartOf(Value(r, x.c[1]), x.c[2])
      [] x.k = "ifelse" -> OddIf(x.c[2].k \in {"for", "switch", "try", "ifelse"},
                                 PartOf(PartOf(Value(r, x.c[1]), x.c[2]), x.c[3]), "else behind a block")
      [] x.k \in {"while", "switch"} -> Around(Value(r, x.c[1]), x.k, x.c[2])
      [] x.k = "do" -> OddIf(x.c[2].k \in {"if", "for", "switch", "try"},
                             Value(Around(r, "do", x.c[2]), x.c[1]), "while behind a block")
      [] x.k = "for" -> Around(FoldLeft(Value, r, SubSeq(x.c, 1, 3)), "for", x.c[4])
      [] x.k = "try" -> HandlerIn(Back(Mean(r, x.c[1]), r), x)
      [] x.k = "label" -> OddIf(Bound(r.env, x.n) # <<>>,
                                WrongIf(x.c[1].k = "extern", Mean(Mark(r, "label", x.n, ""), x.c[1])), "label is a name")
      [] x.k \in {"case", "default"} -> WrongIf(x.c[1].k = "extern", Mean(r, x.c[1]))

SimpleMeans(r, x) ==
    CASE x.k = "expr" -> Value(r, x.c[1])
      [] x.k = "raw" -> CASE x.n = "right" -> r [] x.n = "wrong" -> Wrong(r) [] OTHER -> Odd(r, "raw")
      [] x.k \in {"empty", "throw"} -> r
      [] x.k \in {"break", "continue"} -> Leaves1(r, x)
      [] x.k = "return" -> LET value == Value(r, x.c[1])
                           IN  OddIf(r.returns = "void", WrongIf(~Fits(value.type, r.returns), value), "return in a handler")
      [] x.k = "goto" -> Mark(r, "goto", x.n, "")
      [] x.k = "delete" -> Value(r, N("name", x.n, "", <<>>))

DeclarationMeans(r, x) ==
    LET known == Here(Last(r.env), x.n)
        variable == Mark(Declared(r, Entity("variable", x.n, x.t)), "declare", x.n, x.t)
    IN  CASE x.k = "extern" -> WrongIf(known # <<>>, variable)
          [] x.k = "var" -> VariableIn(r, x, known, variable)
          [] x.k = "declare" -> FunctionIn(r, x)
          [] x.k = "function" -> Body(FunctionIn(r, x), x.c[2], x.c[1].c, x.t)
          [] x.k = "member" -> MemberIn(r, x, Bound(r.env, x.t))
          [] x.k = "namespace" -> NamespaceIn(r, x, Each(Inside(r, <<>>), x.c[1].c))
          [] x.k = "struct" -> StructIn(r, x, Bodies1(Members(r, x.c[1].c), x.c[1].c))
          [] x.k = "typedef" -> Declared(r, Entity("type", x.n, x.t))

Mean(r, x) ==
    CASE x.k \in {"expr", "raw", "empty", "throw", "break", "continue", "return", "goto", "delete"} -> SimpleMeans(r, x)
      [] x.k \in {"if", "ifelse", "while", "switch", "do", "for", "try", "label", "case", "default"} -> StatementMeans(r, x)
      [] x.k \in {"extern", "var", "declare", "function", "member", "namespace", "struct", "typedef"} -> DeclarationMeans(r, x)
      [] x.k = "block" -> Back(Each(Inside(r, <<>>), x.c), r)
      [] x.k = "alone" -> [Back(Each(Inside(r, <<>>), x.c), r) EXCEPT !.alone = TRUE]

\* What is given to the parser, and what C makes of it.
Program(xs) ==
    LET r == Each(Reading0, xs)
    IN  [text |-> [k \in DOMAIN xs |-> T(xs[k])], marks |-> r.marks, ok |-> r.ok, odd |-> r.odd,
         functions |-> {[name |-> e.n, lists |-> {ArgTypes(l.args) : l \in Range(e.lists)}] :
                            e \in {f \in Range(r.env[1]) : f.kind = "function"}}]

(****************************** comparisons ********************************)
RECURSIVE Spelled(_)
Spelled(type) == CASE type.prop = "pointer" -> Spelled(Under(type)) \o "*" [] type.prop = "none" -> "" [] OTHER -> type.name

Marks(tree) ==
    [k \in DOMAIN tree |->
        <<tree[k].l, tree[k].name,
          IF tree[k].l = "call" THEN [j \in DOMAIN tree[k].as |-> Spelled(tree[k].as[j].type)] ELSE Spelled(tree[k].as)>>]

Accepted == unit.status = "done" /\ unit.errors = <<>>
AsInC(jumps) ==
    LET Kept(marks) == SelectSeq(marks, LAMBDA m : (m[1] \in {"break", "continue", "goto", "label"}) = jumps)
    IN  Accepted /\ program.odd = {} => Kept(Marks(unit.tree)) = Kept(program.marks)

\* A break or continue leaves the space of the loop or switch that C gives it
\* to, however the statements around it nest, and a goto and a label keep the
\* names they have: findBreakableSpace goes outwards through the spaces that
\* the statements open.
JumpsAsInC == AsInC(TRUE)

\* Each name of an expression means the variable that C's scopes give it, each
\* call the overload whose arguments fit, and each declaration has the type
\* that is written: FindVariable, FindFunction, FindBestFunctionOverload.
NamesAsInC == AsInC(FALSE)

FunctionsOf(space) ==
    {[name |-> f.name, lists |-> {[j \in DOMAIN o.args |-> Spelled(o.args[j].type)] : o \in Range(f.overloads)}] :
        f \in Range(space.funs)}

\* The functions that were declared are known, each with its overloads, which
\* are told apart by all of their arguments' types, whatever was declared in
\* between: CreateFunction finds them by their mangled arguments.
FunctionsAsDeclared ==
    Accepted /\ program.odd = {} => FunctionsOf(unit.spaces[1]) = program.functions

\* A program that C refuses gets an error, and one that C accepts gets none,
\* but for the forms the reference calls odd.
Diagnosed == (unit.status # "run" /\ program.odd = {}) => (Accepted <=> program.ok)

\* The parser comes to the end of every program, or gives up, if its calls
\* proceed: no statement, however it is nested, leaves it where it was.
Parsed == <>(unit.status # "run")
=============================================================================
