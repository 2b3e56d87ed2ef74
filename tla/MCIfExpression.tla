--------------------------- MODULE MCIfExpression ---------------------------
(***************************************************************************)
(* IfExpression over conditions of up to three operands, with the value C  *)
(* gives them, and over all short conditions, well-formed or not, followed *)
(* by another one.  A condition is a sequence of tokens.                   *)
(***************************************************************************)
EXTENDS IfExpression

CONSTANT AnyLength   \* of the conditions that may be ill-formed

A == <<"A">>
Object(payload) == [call |-> FALSE, payload |-> payload]

MCLetter == {"A", "E", "F", "X", "p", "L", "defined"}
MCDigits == [c \in {"0", "1", "2"} |-> CASE c = "0" -> 0 [] c = "1" -> 1 [] c = "2" -> 2]

\* A is replaced, E is empty like a free slot, F has an argument, X is no macro.
Table(a, e, f) ==
    [w \in {A, <<"E">>, <<"F">>, <<>>} |->
        CASE w = A -> Object(a) [] w = <<"E">> -> Object(e) [] w = <<>> -> Object(<<>>)
          [] OTHER -> [call |-> TRUE, payload |-> f]]

\* In the last two tables macros lead back to themselves: A at once, then A
\* and E by each other and F, whose argument is read in its own replacement.
MCTables ==
    {Table(a, <<>>, <<"(", "p", ")", "+", "1">>) :
        a \in {<<"2">>, <<"1", "+", "1">>, <<"(", "X", "<", "1", ")">>, <<"A">>}}
    \union {Table(<<"1", "+", "E">>, <<"A">>, <<"F", "(", "p", ")">>)}

Binary == {"==", "!=", "<", ">", "<=", ">=", "&&", "||", "+", "-"}
Operands == {"0", "1", "2L", "X", "A", "defined A", "defined ( X )"}

\* A macro name that is replaced has a blank behind it: the character there is lost.
MCSpelling(condition) ==
    LET Chars(t) ==
            CASE t = "2L" -> <<"2", "L">>
              [] t = "A" -> <<"A", " ">> [] t = "defined A" -> <<"defined", " ", "A">>
              [] t = "defined ( X )" -> <<"defined", " ", "(", " ", "X", " ", ")">>
              [] t = "==" -> <<"=", "=">> [] t = "!=" -> <<"!", "=">>
              [] t = "<=" -> <<"<", "=">> [] t = ">=" -> <<">", "=">>
              [] t = "&&" -> <<"&", "&">> [] t = "||" -> <<"|", "|">>
              [] t = "//" -> <<"/", "/">>
              [] OTHER -> <<t>>
    IN  FlattenSeq([k \in DOMAIN condition |-> Chars(condition[k])])

Ends3 == {"0", "1", "A", "defined A"}
Chains == {<<a>> : a \in Operands}
    \union {<<a, o, b>> : a, b \in Operands, o \in Binary}
    \union {<<a, o, b, p, c>> : a, c \in Ends3, b \in {"1", "X"}, o, p \in Binary}

Bracketed ==
    LET inner == {<<"(", a, o, b, ")">> : a \in {"1", "A"}, o \in {"+", "<", "||"}, b \in {"0", "defined A"}}
    IN  inner
        \union {<<c, o>> \o s : s \in inner, c \in {"0", "1"}, o \in {"-", "==", "&&"}}
        \union {s \o <<o, c>> : s \in inner, c \in {"0", "1"}, o \in {"-", "==", "&&"}}
        \union {<<"!">> \o s : s \in inner}
        \union {<<"!", a, o, "!", b>> : a, b \in {"1", "X", "A", "defined ( X )"}, o \in {"==", "&&", "||"}}
        \union {<<"(", "(", "1", ")", "+", "1", ")", "==", "2L", "//", "A">>}

WellFormed == Chains \union Bracketed

Characters == {"A", "E", "F", "X", "1", "(", ")", "!", "<", "defined", "=", " ", ","}
Anything(lengths) == UNION {[1 .. n -> Characters] : n \in lengths}

\* The conditions that come second; two of them meet what "defined ( (" left.
Followers == {<<"1">>, <<"(", "X">>, <<"(", "X", ")">>, <<"defined ( X )">>}

MCInputs ==
    {<<s>> : s \in WellFormed}
    \union {<<s, <<"1", "==", "1">>>> : s \in Bracketed}
    \union {<<s, t>> : s \in Anything(0 .. AnyLength - 1) \union {<<"defined", "(", "(">>}, t \in Followers}
    \union {<<s, <<"(", "X">>>> : s \in Anything({AnyLength})}
-----------------------------------------------------------------------------
\* The tokens of the macro A.
Tokens(payload) ==
    FlattenSeq([k \in DOMAIN payload |->
        <<IF payload[k] = "2" THEN "2L" ELSE payload[k]>>])

\* The operators of C, those that bind least first.
Precedence == <<{"||"}, {"&&"}, {"==", "!="}, {"<", ">", "<=", ">="}, {"+", "-"}>>
Rank(o) == CHOOSE r \in DOMAIN Precedence : o \in Precedence[r]

Compute(o, a, b) ==
    LET holds == CASE o = "==" -> a = b [] o = "!=" -> ~(a = b)
                   [] o = "<" -> a < b [] o = ">" -> b < a
                   [] o = "<=" -> ~(b < a) [] o = ">=" -> ~(a < b)
                   [] o = "&&" -> ~(0 \in {a, b}) [] o = "||" -> {a, b} # {0}
    IN  CASE o = "+" -> a + b [] o = "-" -> a - b [] OTHER -> IF holds THEN 1 ELSE 0

Expanded(s) ==
    FlattenSeq([k \in DOMAIN s |-> IF s[k] = "A" THEN Tokens(table[A].payload) ELSE <<s[k]>>])

\* The value C gives a condition whose macros are replaced: the operator of
\* least priority, the last of several, is applied last.
RECURSIVE Value(_)
Value(s) ==
    LET Depth(k) == Cardinality({m \in 1 .. k : s[m] = "("}) - Cardinality({m \in 1 .. k : s[m] = ")"})
        outer == {k \in DOMAIN s : s[k] \in Binary /\ Depth(k) = 0}
        last == CHOOSE k \in outer : \A m \in outer :
                    \/ Rank(s[k]) < Rank(s[m])
                    \/ Rank(s[k]) = Rank(s[m]) /\ m <= k
    IN  IF outer # {}
        THEN Compute(s[last], Value(SubSeq(s, 1, last - 1)), Value(SubSeq(s, last + 1, Len(s))))
        ELSE IF s[1] = "!" THEN IF Value(Tail(s)) = 0 THEN 1 ELSE 0
        ELSE IF s[1] = "(" THEN Value(SubSeq(s, 2, Len(s) - 1))
        ELSE CASE s[1] \in {"1", "defined A"} -> 1 [] s[1] = "2L" -> 2 [] OTHER -> 0

Uncommented(s) ==
    LET comment == {k \in DOMAIN s : s[k] = "//"}
    IN  IF comment = {} THEN s ELSE SubSeq(s, 1, (CHOOSE k \in comment : TRUE) - 1)

Meaning(s) == Value(Expanded(Uncommented(s)))

\* The condition has to replace A, and A leads back to itself.
Endless(s) == Circular(A) /\ \E k \in DOMAIN Uncommented(s) : s[k] = "A"

\* A bracket behind "defined" that may not be closed.
Unclosed(s) == \E k, m \in DOMAIN s : m < k /\ s[m] = "defined" /\ s[k] = "("

\* The value of a condition is the one C gives it, operators of all
\* priorities, brackets and macros included, whatever condition with a value
\* came before, if it had no macro with arguments and closed its brackets.  C
\* replaces no macro within its own replacement; here such a condition has no
\* value, and uses up C's stack.
ConditionExact ==
    LET n == Len(answers) + (IF phase \in {"thrown", "crashed", "overrun", "overflow"} THEN 1 ELSE 0)
        Before(k) == \A m \in 1 .. k - 1 : ~Failed(answers[m]) /\ ~Unclosed(conditions[m])
    IN  gdp = <<>> /\ phase \notin {"parse", "execute"} =>
            \A k \in 1 .. n : conditions[k] \in WellFormed /\ Before(k) =>
                IF Endless(conditions[k]) THEN phase = "overflow" /\ k = n
                ELSE /\ k \in DOMAIN answers
                     /\ answers[k] = ToString(Meaning(conditions[k]))
=============================================================================
