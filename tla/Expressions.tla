----------------------------- MODULE Expressions -----------------------------
(***************************************************************************)
(* ExpressionParser: the shunting yard that turns the lexemes of an        *)
(* expression into a tree.  A bracket is parsed by a parser of its own, so *)
(* parsers is a stack, with the parser of the innermost bracket last.      *)
(* Operators new and sizeof are left out, and so are the types of casts    *)
(* and everything CreateNode does with the finished tree.                  *)
(***************************************************************************)
EXTENDS Integers, Sequences, FiniteSets, SequencesExt

CONSTANTS
    Words,  \* the lexemes that are operands
    Texts   \* the expressions parsed, as sequences of lexemes

ASSUME WordsAssumption ==
    Words \cap {"::", ".", "[", "]", "(", ")", ",", "++", "!", "~", "*", "+", "-", "<<", "<",
                "==", "&", "^", "|", "&&", "||", "=", "?", ":", "int"} = {}
ASSUME TextsAssumption == \A text \in Texts : text \in Seq(STRING)

VARIABLES
    text, index,  \* the lexemes, and how many of them were read
    parsers,
    status        \* "parse", "built", "thrown", or "undefined" behaviour

vars == <<text, index, parsers, status>>

Nil == [lexem |-> "nil"]
Yard(lexem, name, left, right) ==
    [lexem |-> lexem, name |-> name, left |-> left, right |-> right]
Word(name) == Yard("word", name, Nil, Nil)

\* A parser, and what becomes of its expression.
Parser(purpose) ==
    [purpose |-> purpose, operands |-> <<>>, operators |-> <<>>,
     prev_was_operand |-> FALSE, arguments |-> <<>>, error |-> "none"]

Init ==
    /\ text \in Texts
    /\ index = 0
    /\ parsers = <<Parser("expression")>>
    /\ status = "parse"

\* GetLexemPriority, with one operator for all of a priority but for "-": the
\* lower the number, the tighter the operator binds.
Priority(lexem) ==
    CASE lexem = "::" -> 10
      [] lexem \in {".", "["} -> 20
      [] lexem \in {"++", "u+", "u-", "u*", "u&", "!", "~", "cast"} -> 30
      [] lexem = "*" -> 50
      [] lexem \in {"+", "-"} -> 60
      [] lexem = "<<" -> 70
      [] lexem = "<" -> 80
      [] lexem = "==" -> 90
      [] lexem = "&" -> 100
      [] lexem = "^" -> 110
      [] lexem = "|" -> 120
      [] lexem = "&&" -> 130
      [] lexem = "||" -> 140
      [] lexem \in {"=", "?", ":"} -> 150

Operators == {"::", ".", "!", "~", "*", "+", "-", "<<", "<", "==", "&", "^", "|", "&&", "||", "="}

\* The operators with yard.unary set; "~" is not among them.
IsUnary(lexem) == lexem \in {"++", "u+", "u-", "u*", "u&", "!", "cast"}

\* The operators that are prefix operators where no operand was read before.
PrefixMeaning ==
    [lexem \in {"+", "-", "*", "&"} |->
        CASE lexem = "+" -> "u+" [] lexem = "-" -> "u-" [] lexem = "*" -> "u*" [] lexem = "&" -> "u&"]

\* The operator that lexem means, by what was read before it.
Meant(p, lexem) ==
    IF p.prev_was_operand \/ lexem \notin DOMAIN PrefixMeaning THEN lexem
    ELSE PrefixMeaning[lexem]

\* The last operator takes its operands and becomes one.  A second operand
\* that is missing is seen by PrepareExpression only, which throws; in
\* FixExpression a cast without its operand stays where it is.
Take(p, short) ==
    LET op == Last(p.operators)
        n == Len(p.operands)
        Pushed(count, left, right) ==
            [p EXCEPT !.operators = Front(@),
                !.operands = Append(SubSeq(@, 1, n - count), Yard(op, "", left, right))]
    IN  CASE IsUnary(op) /\ n > 0 -> Pushed(1, Nil, p.operands[n])
          [] ~IsUnary(op) /\ n > 1 -> Pushed(2, p.operands[n - 1], p.operands[n])
          [] op = "::" /\ n = 0 -> Pushed(0, Nil, Nil)
          [] op = "cast" /\ n = 0 /\ short = "undefined" -> p
          [] OTHER -> [p EXCEPT !.error = IF n = 0 THEN "thrown" ELSE short]

\* The last operators, as many as count, take their operands up to an error.
TakeLast(p, count, short) ==
    LET Taken(q) == IF q.error = "none" THEN Take(q, short) ELSE q
        taken[k \in 0 .. count] == IF k = 0 THEN p ELSE Taken(taken[k - 1])
    IN  taken[count]

PrepareExpression(p) == TakeLast(p, Len(p.operators), "thrown")

\* A pending :: takes the operands there are, and no other operator any.
Scoped(p) ==
    LET n == Len(p.operands)
        Operand(i) == IF i > 0 THEN p.operands[i] ELSE Nil
    IN  [p EXCEPT !.operators = Front(@),
             !.operands = Append(SubSeq(@, 1, n - 2), Yard("::", "", Operand(n - 1), Operand(n)))]

\* Mutant: operators of one priority are taken from the right.
BindingTighter(p, prio) ==
    Cardinality({i \in DOMAIN p.operators :
        \A j \in i .. Len(p.operators) : Priority(p.operators[j]) < prio})

\* How many of the last operators bind as tightly as an operator of priority prio.
Binding(p, prio) ==
    Cardinality({i \in DOMAIN p.operators :
        \A j \in i .. Len(p.operators) : Priority(p.operators[j]) <= prio})

\* The operators that bind as tightly take their operands, then lexem waits
\* for its own.
FixExpression(p, lexem, prio) ==
    LET ops == p.operators
        fixed == IF ops # <<>> /\ Last(ops) = "::" THEN Scoped(p)
                 ELSE TakeLast(p, Binding(p, prio), "undefined")
    IN  [fixed EXCEPT !.operators = Append(@, lexem), !.prev_was_operand = FALSE]

----------------------------------------------------------------------------
parser == Last(parsers)

\* The lexeme is read, and the innermost parser becomes the given one.
Become(changed) ==
    /\ parsers' = [parsers EXCEPT ![Len(parsers)] = changed]
    /\ status' = IF changed.error = "none" THEN status ELSE changed.error
    /\ index' = index + 1
    /\ UNCHANGED text

Reads(lexems) == status = "parse" /\ index < Len(text) /\ text[index + 1] \in lexems
\* The lexeme behind the one that is read.
Lookahead == IF index + 2 <= Len(text) THEN text[index + 2] ELSE ";"

Pushed(p, operand) == [p EXCEPT !.operands = Append(@, operand), !.prev_was_operand = TRUE]
\* The operand read last becomes the given one.
Replaced(p, operand) == [p EXCEPT !.operands = Append(Front(@), operand)]

Operand ==
    /\ Reads(Words)
    /\ Become(Pushed(parser, Word(text[index + 1])))

Operator ==
    /\ Reads(Operators)
    /\ LET lexem == Meant(parser, text[index + 1])
       IN  Become(FixExpression(parser, lexem, Priority(lexem)))

\* "?" and ":" do not take a pending "?" or ":", whose priority is 150.
Ternary ==
    /\ Reads({"?", ":"})
    /\ Become(FixExpression(parser, text[index + 1], 140))

PrefixIncrement ==
    /\ Reads({"++"})
    /\ ~parser.prev_was_operand
    /\ Become(FixExpression(parser, "++", Priority("++")))

\* Mutant: the operand is not removed when "++" is applied to it.
PostfixIncrementKeeping ==
    /\ Reads({"++"})
    /\ parser.prev_was_operand
    /\ LET whole == PrepareExpression(parser)
       IN  Become(IF whole.error # "none" THEN whole
                  ELSE [whole EXCEPT !.operands = Append(@, Yard("postinc", "", Nil, Last(@)))])

\* Everything read so far is taken together before "++" is applied.
PostfixIncrement ==
    /\ Reads({"++"})
    /\ parser.prev_was_operand
    /\ LET whole == PrepareExpression(parser)
       IN  Become(IF whole.error # "none" THEN whole
                  ELSE Replaced(whole, Yard("postinc", "", Nil, Last(whole.operands))))

----------------------------------------------------------------------------
(* Brackets: ParseOpenBracket, ParseArguments and the index of Parse *)

Open(purpose, outer) ==
    /\ parsers' = Append(outer, Parser(purpose))
    /\ index' = index + 1
    /\ UNCHANGED <<text, status>>

OpenIndex == Reads({"["}) /\ Open("index", parsers)

Cast ==
    /\ Reads({"("})
    /\ ~parser.prev_was_operand
    /\ Lookahead = "int"
    /\ parsers' = [parsers EXCEPT ![Len(parsers)] =
                      [parser EXCEPT !.operators = Append(@, "cast"), !.prev_was_operand = FALSE]]
    /\ index' = index + 3  \* "(", the type and ")"
    /\ UNCHANGED <<text, status>>

OpenParenthesis ==
    /\ Reads({"("})
    /\ ~parser.prev_was_operand
    /\ Lookahead # "int"
    /\ Open("parenthesis", parsers)

\* The parser before a call: pending members and indices are taken, and with
\* them every other operator.
Called(p) ==
    IF p.operators # <<>> /\ Priority(Last(p.operators)) <= 20 THEN PrepareExpression(p) ELSE p

\* A word, or whatever the last operand is, is made the call; of a member,
\* the name behind the dot is, if no other operator is pending.  Otherwise
\* the code goes to the right side of that operator, which is not there yet.
OpenCall ==
    /\ Reads({"("})
    /\ parser.prev_was_operand
    /\ LET before == Called(parser)
           operand == Last(before.operands)
           method == operand.lexem = "."
           called == IF method THEN [operand EXCEPT !.right.lexem = "call_method"]
                     ELSE [operand EXCEPT !.lexem = "call"]
       IN  CASE before.error # "none" -> Become(before)
             [] before.error = "none" /\ method /\ before.operators # <<>> ->
                  Become([before EXCEPT !.error = "undefined"])
             [] OTHER -> Open(IF method THEN "method" ELSE "call",
                              [parsers EXCEPT ![Len(parsers)] = Replaced(before, called)])

\* Mutant: every argument is put before the others.
LinkedBackwards(arguments) ==
    FoldLeft(LAMBDA rest, argument : Yard("argument", "", argument, rest), Nil, arguments)

\* The arguments as a list, linked through right.
Linked(arguments) ==
    FoldRight(LAMBDA argument, rest : Yard("argument", "", argument, rest), arguments, Nil)

Calls == {"call", "method"}

\* What the parser around a bracket is once the bracket holds the expression
\* of closed.
Closed(outer, closed) ==
    LET called == Last(outer.operands)
        operand == Last(closed.operands)
        arguments == Append(closed.arguments, operand)
    IN  CASE closed.purpose = "parenthesis" -> Pushed(outer, operand)
          [] closed.purpose = "index" -> Pushed(FixExpression(outer, "[", Priority("[")), operand)
          [] closed.purpose = "call" -> Replaced(outer, [called EXCEPT !.right = Linked(arguments)])
          [] closed.purpose = "method" ->
                Replaced(outer, [called EXCEPT !.right.right = Linked(arguments)])

\* The parser of the bracket is done, with the lexeme at end its closing one.
Close(end) ==
    LET closed == PrepareExpression(parser)
        around == Front(parsers)
        outer == Closed(Last(around), closed)
    IN  IF closed.error # "none" \/ closed.operands = <<>>
        THEN Become([closed EXCEPT !.error = IF @ = "none" THEN "undefined" ELSE @])
        ELSE /\ parsers' = Append(Front(around), outer)
             /\ status' = IF outer.error = "none" THEN status ELSE outer.error
             /\ index' = end
             /\ UNCHANGED text

\* A call without arguments leaves the right side of the called operand alone.
CloseEmptyCall ==
    /\ Reads({")"})
    /\ parser.purpose \in Calls
    /\ text[index] = "("
    /\ parsers' = Front(parsers)
    /\ index' = index + 1
    /\ UNCHANGED <<text, status>>

CloseBracket ==
    /\ Reads({")", "]"})
    /\ ~(parser.purpose \in Calls /\ text[index] = "(")
    /\ Close(index + 1)

NextArgument ==
    /\ Reads({","})
    /\ parser.purpose \in Calls
    /\ LET done == PrepareExpression(parser)
       IN  Become(IF done.error # "none" THEN done
                  ELSE [Parser(parser.purpose) EXCEPT !.arguments =
                          Append(parser.arguments, Last(done.operands))])

\* How many of the lexemes lie between the two places of the text.
Between(lexems, first, last) == Cardinality({i \in first .. last : text[i] \in lexems})

Opening == {"(", "["}
Shutting == {")", "]"}

\* The bracket that closes the innermost open one.
Closing ==
    LET Closes(i) == Between(Shutting, index + 1, i) > Between(Opening, index + 1, i)
    IN  CHOOSE i \in index + 1 .. Len(text) :
            Closes(i) /\ \A j \in index + 1 .. i - 1 : ~Closes(j)

\* In other brackets a comma ends the expression: the rest is never read.
CommaInBracket ==
    /\ Reads({","})
    /\ parser.purpose \in {"parenthesis", "index"}
    /\ Close(Closing)

\* BuildExpression, before it creates nodes.
BuildExpression ==
    /\ status = "parse"
    /\ parser.purpose = "expression"
    /\ index = Len(text) \/ Reads({","})
    /\ LET built == PrepareExpression(parser)
       IN  /\ parsers' = <<built>>
           /\ status' = IF built.error = "none" THEN "built" ELSE built.error
    /\ UNCHANGED <<text, index>>

Stop == status # "parse" /\ UNCHANGED vars

Next ==
    \/ Operand \/ Operator \/ Ternary \/ PrefixIncrement \/ PostfixIncrement
    \/ OpenIndex \/ Cast \/ OpenParenthesis \/ OpenCall
    \/ CloseEmptyCall \/ CloseBracket \/ NextArgument \/ CommaInBracket
    \/ BuildExpression
    \/ Stop

Spec == Init /\ [][Next]_vars

----------------------------------------------------------------------------
\* In every open bracket there is one operand more than binary operators
\* when an operand was read last, and else as many, so that FixExpression
\* and PrepareExpression find what they take.  "~" counts as binary, which
\* it is not: expressions with it are left out.
OperandsForOperators ==
    status = "parse" /\ ~Contains(text, "~") =>
        \A i \in DOMAIN parsers :
            LET p == parsers[i]
                binary == {k \in DOMAIN p.operators : ~IsUnary(p.operators[k])}
            IN  Len(p.operands) = Cardinality(binary) + IF p.prev_was_operand THEN 1 ELSE 0
=============================================================================
