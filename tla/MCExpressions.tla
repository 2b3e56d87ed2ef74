---------------------------- MODULE MCExpressions ----------------------------
(***************************************************************************)
(* Expressions over all short expressions in chosen alphabets, with C's    *)
(* grammar of expressions as the reference, and with the expressions that  *)
(* are known to be parsed otherwise.                                       *)
(***************************************************************************)
EXTENDS Expressions

Names == <<"a", "b", "c", "d", "e">>
MCWords == {Names[i] : i \in DOMAIN Names}

----------------------------------------------------------------------------
(* C's grammar: each operator reads the text t from i on and returns the tree
   with the place behind it, which is 0 if t has no such phrase at i. *)

Read(tree, next) == [tree |-> tree, next |-> next]
Fail == Read(Nil, 0)
At(t, i) == IF i \in 1..Len(t) THEN t[i] ELSE ";"

Levels == <<{"*"}, {"+", "-"}, {"<<"}, {"<"}, {"=="}, {"&"}, {"^"}, {"|"}, {"&&"}, {"||"}>>
CPrefixes ==
    [l \in {"+", "-", "*", "&", "!", "~", "++"} |-> IF l \in DOMAIN PrefixMeaning THEN PrefixMeaning[l] ELSE l]

RECURSIVE CComma(_, _), CAssignment(_, _), CConditional(_, _), CBinary(_, _, _), COperations(_, _, _),
          CUnary(_, _), CPostfix(_, _), CArguments(_, _)

\* e, if it is followed by the lexeme l; else nothing.
Then(t, e, l) == IF e.next > 0 /\ At(t, e.next) = l THEN Read(e.tree, e.next + 1) ELSE Fail

CPrimary(t, i) ==
    CASE At(t, i) \in Words /\ At(t, i + 1) = "::" /\ At(t, i + 2) \in Words ->
            Read(Yard("::", "", Word(t[i]), Word(t[i + 2])), i + 3)
      [] At(t, i) \in Words /\ At(t, i + 1) # "::" -> Read(Word(t[i]), i + 1)
      [] At(t, i) = "(" -> Then(t, CComma(t, i + 1), ")")
      [] OTHER -> Fail

CallOf(callee, arguments) ==
    CASE callee.lexem = "word" -> Yard("call", callee.name, Nil, arguments)
      [] callee.lexem = "." /\ callee.right.lexem = "word" ->
            [callee EXCEPT !.right = Yard("call_method", @.name, Nil, arguments)]
      [] OTHER -> Yard("call", "", callee, arguments)

\* The arguments up to the closing bracket.
CArguments(t, i) ==
    LET e == CAssignment(t, i)
        rest == CArguments(t, e.next + 1)
    IN  CASE e.next = 0 -> Fail
          [] At(t, e.next) = ")" -> Read(Yard("argument", "", e.tree, Nil), e.next + 1)
          [] At(t, e.next) = "," /\ rest.next > 0 -> Read(Yard("argument", "", e.tree, rest.tree), rest.next)
          [] OTHER -> Fail

\* What follows the phrase e of a postfix expression.
CPostfix(t, e) ==
    LET i == e.next
        indexed == Then(t, CComma(t, i + 1), "]")
        called == IF At(t, i + 1) = ")" THEN Read(Nil, i + 2) ELSE CArguments(t, i + 1)
        With(part, tree) == IF part.next = 0 THEN Fail ELSE CPostfix(t, Read(tree, part.next))
    IN  CASE i = 0 -> Fail
          [] At(t, i) = "[" -> With(indexed, Yard("[", "", e.tree, indexed.tree))
          [] At(t, i) = "(" -> With(called, CallOf(e.tree, called.tree))
          [] At(t, i) = "++" -> CPostfix(t, Read(Yard("postinc", "", Nil, e.tree), i + 1))
          [] At(t, i) = "." ->
                IF At(t, i + 1) \in Words
                THEN CPostfix(t, Read(Yard(".", "", e.tree, Word(t[i + 1])), i + 2)) ELSE Fail
          [] OTHER -> e

Applied(op, e) == IF e.next = 0 THEN Fail ELSE Read(Yard(op, "", Nil, e.tree), e.next)

CUnary(t, i) ==
    CASE At(t, i) \in DOMAIN CPrefixes -> Applied(CPrefixes[t[i]], CUnary(t, i + 1))
      [] At(t, i) = "(" /\ At(t, i + 1) = "int" -> Applied("cast", CUnary(t, i + 3))
      [] OTHER -> CPostfix(t, CPrimary(t, i))

\* Operators of the first levels only; those of one level apply from the left.
CBinary(t, i, level) ==
    LET first == CUnary(t, i)
    IN  COperations(t, first, level)

COperations(t, e, level) ==
    LET found == {k \in 1..level : At(t, e.next) \in Levels[k]}
        own == CHOOSE k \in found : TRUE
        right == CBinary(t, e.next + 1, own - 1)
        both == Read(Yard(t[e.next], "", e.tree, right.tree), right.next)
    IN  CASE e.next = 0 \/ found = {} -> e
          [] right.next = 0 -> Fail
          [] OTHER -> COperations(t, both, level)

CConditional(t, i) ==
    LET condition == CBinary(t, i, Len(Levels))
        positive == Then(t, CComma(t, condition.next + 1), ":")
        negative == CConditional(t, positive.next)
    IN  CASE condition.next = 0 \/ At(t, condition.next) # "?" -> condition
          [] positive.next = 0 \/ negative.next = 0 -> Fail
          [] OTHER -> Read(Yard("?", "", condition.tree, Yard(":", "", positive.tree, negative.tree)), negative.next)

CAssignment(t, i) ==
    LET left == CUnary(t, i)
        right == CAssignment(t, left.next + 1)
    IN  CASE left.next = 0 \/ At(t, left.next) # "=" -> CConditional(t, i)
          [] right.next = 0 -> Fail
          [] OTHER -> Read(Yard("=", "", left.tree, right.tree), right.next)

CComma(t, i) ==
    LET left == CAssignment(t, i)
        right == CComma(t, left.next + 1)
    IN  CASE left.next = 0 \/ At(t, left.next) # "," -> left
          [] right.next = 0 -> Fail
          [] OTHER -> Read(Yard(",", "", left.tree, right.tree), right.next)

IsExpression(t) == CAssignment(t, 1).next = Len(t) + 1
CTree(t) == CAssignment(t, 1).tree

----------------------------------------------------------------------------
(* The expressions of the run: a text grows by what C may have next. *)

Binary == {"*", "+", "-", "<<", "<", "==", "&", "^", "|", "&&", "||", "=", "?", ":", ".", "::"}

Grown(g, lexems, open, want) == [g EXCEPT !.text = @ \o lexems, !.open = open, !.operand = want]

Longer(g, alphabet) ==
    LET words == Len(SelectSeq(g.text, LAMBDA l : l \in Words))
        Is(l) == l \in alphabet
        inner == g.open # <<>>
    IN  IF g.operand
        THEN {Grown(g, <<Names[k]>>, g.open, FALSE) : k \in {words + 1} \cap DOMAIN Names}
             \union {Grown(g, <<l>>, g.open, TRUE) : l \in alphabet \cap DOMAIN CPrefixes}
             \union {Grown(g, <<"(">>, Append(g.open, ")"), TRUE) : l \in alphabet \cap {"("}}
             \union {Grown(g, <<"(", "int", ")">>, g.open, TRUE) : l \in alphabet \cap {"int"}}
        ELSE {Grown(g, <<l>>, g.open, TRUE) : l \in alphabet \cap Binary}
             \union {Grown(g, <<"++">>, g.open, FALSE) : l \in alphabet \cap {"++"}}
             \union {Grown(g, <<"(", ")">>, g.open, FALSE) : l \in alphabet \cap {"call"}}
             \union {Grown(g, <<"(">>, Append(g.open, ")"), TRUE) : l \in alphabet \cap {"call"}}
             \union {Grown(g, <<"[">>, Append(g.open, "]"), TRUE) : l \in alphabet \cap {"["}}
             \union {Grown(g, <<l>>, g.open, TRUE) : l \in IF inner THEN alphabet \cap {","} ELSE {}}
             \union {Grown(g, <<l>>, Front(g.open), FALSE) : l \in IF inner THEN {Last(g.open)} ELSE {}}

RECURSIVE Growing(_, _, _)
Growing(grown, alphabet, length) ==
    LET longer == {g \in UNION {Longer(h, alphabet) : h \in grown} :
                      Len(g.text) + Len(g.open) + (IF g.operand THEN 1 ELSE 0) <= length}
    IN  IF grown = {} THEN {} ELSE grown \union Growing(longer, alphabet, length)

Expression(alphabet, length) ==
    {g.text : g \in {h \in Growing({[text |-> <<>>, open |-> <<>>, operand |-> TRUE]}, alphabet, length) :
                        h.open = <<>> /\ ~h.operand /\ IsExpression(h.text)}}

\* All combinations of three binary operators.
Operations ==
    LET ops == Binary \ {"?", ":", ".", "::"}
    IN  {<<"a", x, "b", y, "c", z, "d">> : x \in ops, y \in ops, z \in ops}

MCTexts ==
    {t \in Operations : IsExpression(t)}
    \union Expression({"*", "-", "++", "="}, 6)
    \union Expression({"(", "[", ".", ",", "*", "call"}, 8)
    \union Expression({"?", ":", "=", "||"}, 9)
    \union Expression({"int", "(", "-", "*"}, 7)
    \union Expression({"int", "++", "+", "&"}, 6)
    \union Expression({"::", "*", "<", "=", "call", "["}, 8)
    \union Expression({"~", "!", "+"}, 5)

----------------------------------------------------------------------------
(* Expressions that are not parsed as in C. *)

\* How many more brackets open than close between two places.
Depth(t, from, to) ==
    Len(SelectSeq(SubSeq(t, from, to), LAMBDA l : l \in {"(", "["}))
        - Len(SelectSeq(SubSeq(t, from, to), LAMBDA l : l \in {")", "]"}))

\* i and j are in the same bracket, and in the same argument of a call.
Together(t, i, j) ==
    /\ i < j /\ Depth(t, i + 1, j - 1) = 0
    /\ \A k \in i + 1 .. j - 1 : Depth(t, i + 1, k) >= 0 /\ (t[k] = "," => Depth(t, i + 1, k) > 0)

RECURSIVE EndsOperand(_, _)
EndsOperand(t, i) ==
    /\ i > 0
    /\ \/ t[i] \in Words \union {"]"}
       \/ (t[i] = ")" /\ t[i - 1] # "int")
       \/ (t[i] = "++" /\ EndsOperand(t, i - 1))

Prefix(t, i) == t[i] \in DOMAIN CPrefixes /\ ~EndsOperand(t, i - 1)
CastEnds(t, i) == i > 1 /\ t[i] = ")" /\ t[i - 1] = "int"
Pending(t, i) == Prefix(t, i) \/ CastEnds(t, i) \/ t[i] \in Binary \ {".", "::"}
CallAt(t, i) == t[i] = "(" /\ EndsOperand(t, i - 1)

\* Assignments are taken from the left, but for one to a scoped name.
ChainedAssignment(t) ==
    \E i, j \in DOMAIN t : Together(t, i, j) /\ t[i] = "=" /\ t[j] = "=" /\ t[j - 2] # "::"

\* A prefix operator takes an operand it finds before it, or finds none.
PrefixBehindPrefix(t) ==
    \E i \in 2 .. Len(t) :
        /\ Prefix(t, i)
        /\ \/ Prefix(t, i - 1)
           \/ /\ CastEnds(t, i - 1)
              /\ \E j \in DOMAIN t : Together(t, j, i) /\ EndsOperand(t, j)

\* ++ behind an operand is applied to everything before it.
PostfixOfAll(t) ==
    \E i, j \in DOMAIN t : Together(t, j, i) /\ t[i] = "++" /\ ~Prefix(t, i) /\ Pending(t, j)

RECURSIVE CallsOther(_)
\* What is called is neither a word nor a member.
CallsOther(tree) ==
    /\ tree # Nil
    /\ \/ (tree.lexem = "call" /\ tree.name = "")
       \/ CallsOther(tree.left)
       \/ CallsOther(tree.right)

\* The name of a member is called, behind its brackets or without, while
\* another operator waits.
MemberCalled(t) ==
    \E i, j \in DOMAIN t :
        /\ Together(t, j, i) /\ CallAt(t, i) /\ Pending(t, j)
        /\ \E k \in 2 .. i - 1 : t[k] \in Words /\ t[k - 1] = "." /\ \A m \in k + 1 .. i - 1 : t[m] = ")"

\* A conditional or an assignment stands between "?" and ":".
InCondition(t) ==
    \E i, j \in DOMAIN t :
        /\ Together(t, i, j) /\ t[i] = "?" /\ t[j] \in {"?", "="}
        /\ \A k \in i + 1 .. j - 1 : t[k] = ":" => ~Together(t, i, k)

\* In brackets that are no call's the expression ends at the comma.
Comma(t) ==
    \E i, k \in DOMAIN t :
        /\ t[i] = "," /\ (t[k] = "[" \/ (t[k] = "(" /\ ~CallAt(t, k)))
        /\ k < i /\ Depth(t, k + 1, i) = 0 /\ \A j \in k + 1 .. i : Depth(t, k + 1, j) >= 0

\* A scoped name stands between two operators of which the first one
\* binds as tightly: it waits too long.
ScopedInside(t) ==
    \E i \in 3 .. Len(t) - 2 :
        /\ t[i] = "::" /\ Pending(t, i - 2) /\ t[i + 2] \in Binary /\ ~(t[i - 2] = "=" /\ t[i + 2] = "=")
        /\ (IF Prefix(t, i - 2) \/ CastEnds(t, i - 2) THEN 30 ELSE Priority(t[i - 2])) <= Priority(t[i + 2])

\* "~" is taken for an operator between two operands.
Tilde(t) == \E i \in DOMAIN t : t[i] = "~"

LosesOperands(t) == CallsOther(CTree(t)) \/ MemberCalled(t) \/ Comma(t)

Plain(t) ==
    ~(\/ ChainedAssignment(t) \/ PrefixBehindPrefix(t) \/ PostfixOfAll(t) \/ LosesOperands(t)
      \/ InCondition(t) \/ ScopedInside(t) \/ Tilde(t))

RECURSIVE InOrder(_)
InOrder(tree) ==
    IF tree = Nil THEN <<>>
    ELSE InOrder(tree.left) \o (IF tree.name = "" THEN <<>> ELSE <<tree.name>>) \o InOrder(tree.right)

----------------------------------------------------------------------------
\* The tree of an expression is the one C's grammar gives it, exactly when
\* the expression is none of the exceptions above.
TreeAsInC ==
    status # "parse" => ((status = "built" /\ parser.operands = <<CTree(text)>>) <=> Plain(text))

\* Wherever the operators end up, the finished tree has all operands of the
\* text, in their order.
OperandsKept ==
    status = "built" /\ ~LosesOperands(text) =>
        InOrder(Last(parser.operands)) = SelectSeq(text, LAMBDA l : l \in Words)
=============================================================================
