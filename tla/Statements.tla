----------------------------- MODULE Statements -----------------------------
(***************************************************************************)
(* CheckOperators: the statements of functions, and CreateStatement, which *)
(* parses the statement that is a part of another.  A handler returns      *)
(* whether it made a statement; all of them read the source of the state-  *)
(* ment they stand in, and differ in where they leave it: some behind the  *)
(* semicolon, some at it.                                                  *)
(***************************************************************************)
EXTENDS Declarators

CONSTANT Programs      \* what may be written, each with its text, a sequence of statements

Init ==
    /\ program \in Programs
    /\ unit = EmptyUnit
    /\ stack = <<ParseFrame(1, program.text)>>
    /\ tick = FALSE

Handles(kind, state) == In(kind, state)
Made(u, source) == Returns(u, source, TRUE)
None(u, source) == Returns(u, source, FALSE)
Refuse(u, code, source) == None(CreateError(u, code), source)

\* The condition in brackets.
Condition(source) == ParseExpression(unit, this, SourcePtr(source.lex.s))

(*************************** CreateStatement *******************************)
StatementPart(s, source, space_type) == [Frame("CreateStatement", s, source) EXCEPT !.name = space_type]

Expression(e) == IF e.node = <<>> THEN None(e.unit, e.src) ELSE Made(e.unit, e.src)
BlockPart(u, s) == Calls(u, [top EXCEPT !.state = "block"], <<ParseFrame(s, lex.s)>>)

\* A word begins an expression if it is a variable or a function.
Begun(variable) ==
    CASE lex.l \in {"(", "::", "++"} -> "expression"
      [] lex.l = "word" -> IF variable # <<>> /\ variable[1].type.prop = "throw" THEN "thrown"
                           ELSE IF variable # <<>> \/ FindFunction(unit, this, lex.v) # <<>> THEN "expression"
                           ELSE "unknown"
      [] OTHER -> IF lex.l \in Operators THEN "operator" ELSE "thrown"

CreateStatement ==
    /\ Handles("CreateStatement", "startup")
    /\ IF lex.l = "{" THEN BlockPart(CreateSpace(unit, this, top.name), Newest(unit) + 1)
       ELSE \E begun \in {Begun(FindVariable(unit, this, lex.v))} :
            CASE begun = "expression" -> \E e \in {ParseExpression(unit, this, src)} : Expression(e)
              [] begun = "unknown" -> Refuse(unit, -7777795, Finish(src))
              [] begun = "operator" -> Calls(unit, [top EXCEPT !.state = "operator"], <<OperatorFrame(this, src)>>)
              [] begun = "thrown" -> Ends("thrown")

CreateStatementEnds ==
    \/ Handles("CreateStatement", "block") /\ Made(unit, Advance(src))
    \/ /\ Handles("CreateStatement", "operator")
       /\ IF top.got THEN Made(unit, src) ELSE Refuse(unit, -7777795, Finish(src))

\* A part of a statement is parsed; the handler goes on in the state after.
Part(u, source, space_type, after) ==
    Calls(u, [top EXCEPT !.state = after], <<StatementPart(this, source, space_type)>>)

(******************************** return ***********************************)
ReturnNothing(owner) ==
    IF owner = <<>> THEN Ends("crashed")
    ELSE IF owner[1].type.bits # 0 THEN Refuse(unit, -7777795, src)
    ELSE IF ~AtEnd(Advance(src)) THEN Ends("thrown") ELSE Made(unit, Advance(src))

ReturnValue(owner, e) ==
    IF e.unit.status # "run" THEN Stays(e.unit, e.src)
    ELSE IF e.node = <<>> \/ AtEnd(e.src) THEN Refuse(e.unit, -7777000, e.src)
    ELSE IF owner = <<>> THEN Stays(Ended(e.unit, "crashed"), e.src)
    ELSE \E verdict \in {CompareTypes(owner[1].type, e.node[1].type, FALSE, e.node[1].constant /\ e.node[1].zero)} :
            IF verdict = "no" THEN Made(CreateError(e.unit, -7777000), Finish(e.src))
            ELSE Made(Judged(e.unit, verdict), e.src)

Return ==
    /\ Handles("return", "startup")
    /\ \E owner \in {unit.spaces[this].owner} :
           CASE lex.l = ";" -> ReturnNothing(owner)
             [] lex.l = "operator" -> Ends("crashed")
             [] OTHER -> \E e \in {ParseExpression(unit, this, src)} : ReturnValue(owner, e)

(********************************** if *************************************)
\* Mutant: a semicolon in front of "else" is not passed over.
IfKeepingSemicolon ==
    \/ /\ Handles("if", "startup") /\ ~AtEnd(src)
       /\ IF lex.l # "(" \/ lex.s = <<>> THEN Refuse(unit, -777782, Finish(src))
          ELSE Goes(Condition(src).unit, Advance(src), "true")
    \/ /\ Handles("if", "true") /\ ~AtEnd(src)
       /\ Part(unit, src, "codeblock", "after_true")
    \/ Handles("if", "after_true") /\ Goes(unit, src, "else")

If ==
    \/ /\ Handles("if", "startup") /\ ~AtEnd(src)
       /\ IF lex.l # "(" \/ lex.s = <<>> THEN Refuse(unit, -777782, Finish(src))
          ELSE Goes(Condition(src).unit, Advance(src), "true")
    \/ /\ Handles("if", "true") /\ ~AtEnd(src)
       /\ Part(unit, src, "codeblock", "after_true")
    \/ /\ Handles("if", "after_true")
       /\ Goes(unit, IF At(src, {";", "{"}) THEN Advance(src) ELSE src, "else")

Else ==
    \/ /\ Handles("if", "else") /\ ~AtEnd(src)
       /\ CASE lex.l = "else" -> Goes(unit, Advance(src), "false")
            [] lex.l = ";" -> Goes(unit, Advance(src), "no_more")
            [] OTHER -> Ends("thrown")
    \/ Handles("if", "false") /\ ~AtEnd(src) /\ Part(unit, src, "codeblock", "after_false")
    \/ Handles("if", "after_false") /\ Goes(unit, IF At(src, {";"}) THEN Advance(src) ELSE src, "no_more")
    \/ Handles("if", "no_more") /\ ~AtEnd(src) /\ Ends("thrown")

\* while (source != false)
IfEnds ==
    /\ In("if", top.state) /\ top.state \notin {"after_true", "after_false"}
    /\ AtEnd(src)
    /\ Made(unit, src)

(********************************* loops ***********************************)
Do ==
    \/ Handles("do", "startup") /\ Part(unit, src, "continue", "body")
    \/ /\ Handles("do", "body")
       /\ LET word == IF At(src, {";"}) THEN Advance(src) ELSE src
              bracket == Advance(word)
          IN  IF ~At(word, {"while"}) THEN Refuse(unit, -777313, Finish(word))
              ELSE IF bracket.lex.l # "(" THEN Refuse(unit, -777312, Finish(bracket))
              ELSE IF bracket.lex.s = <<>> THEN Refuse(unit, -777782, Finish(bracket))
              ELSE Made(Condition(bracket).unit, Advance(bracket))

While ==
    \/ /\ Handles("while", "startup")
       /\ IF lex.l # "(" THEN Refuse(unit, -778312, src)
          ELSE \E e \in {Condition(src)} :
                  IF e.unit.status # "run" THEN Stays(e.unit, src)
                  ELSE Part(e.unit, Advance(src), "continue", "body")
    \/ Handles("while", "body") /\ Made(unit, src)

\* ParseExpressionExtended: a for may declare a variable, in its own space.
ForVariable(u, s, type, name) ==
    IF AtEnd(name) THEN [unit |-> CreateError(u, -77761432), src |-> Finish(name)]
    ELSE [unit |-> IF At(name, {"word"}) THEN CreateVariable(u, s, type, name.lex.v, "default") ELSE u, src |-> name]

ForDeclared(u, s, type, first) ==
    IF At(first, {"*"}) THEN ForVariable(u, s, pointer_t(type), Advance(first)) ELSE ForVariable(u, s, type, first)

ForInit(u, s, source) ==
    LET named == TryLexenForType(u, s, source)
    IN  IF named.type = <<>> THEN [unit |-> u, src |-> named.src]
        ELSE ForDeclared(u, s, named.type[1], Advance(named.src))

\* The three parts in the brackets; all of them, and the body, in the loop's
\* space.  A condition that is a semicolon is none.
Goes1(r, kinds) == r.unit.status = "run" /\ At(r.src, kinds)
ForStart(r, s) == IF r.unit.status = "run" /\ ~AtEnd(r.src) THEN ParseExpression(r.unit, s, r.src) ELSE r
ForCondition(r, s) ==
    CASE ~Goes1(r, {";"}) -> r
      [] Goes1(r, {";"}) /\ Advance(r.src).lex.l = ";" -> [unit |-> r.unit, src |-> Advance(r.src)]
      [] OTHER -> ParseExpression(r.unit, s, Advance(r.src))
ForIterator(r, s) == IF Goes1(r, {";"}) THEN ParseExpression(r.unit, s, Advance(r.src)).unit ELSE r.unit

ForHead(u, s, start) ==
    ForIterator(ForCondition(IF At(start, {";"}) \/ AtEnd(start) THEN [unit |-> u, src |-> start]
                             ELSE ForStart(ForInit(u, s, start), s), s), s)

ForBody(u, s, body) ==
    IF body.lex.l = "{" THEN Calls(u, [top EXCEPT !.src = body, !.state = "block"], <<ParseFrame(s, body.lex.s)>>)
    ELSE Calls(u, [top EXCEPT !.src = body, !.state = "body"], <<StatementFrame(s, body, TRUE)>>)

For ==
    \/ /\ Handles("for", "startup")
       /\ IF lex.l # "(" THEN Refuse(unit, -777202, Finish(src))
          ELSE \E s \in {Newest(unit) + 1} :
                  ForBody(ForHead(CreateSpace(unit, this, "continue"), s, SourcePtr(lex.s)), s, Advance(src))
    \/ Handles("for", "block") /\ Made(unit, Advance(src))
    \/ Handles("for", "body") /\ Made(unit, src)

(******************************** switch ***********************************)
Switch ==
    \/ /\ Handles("switch", "startup") /\ ~AtEnd(src)
       /\ IF lex.l # "(" THEN Refuse(unit, -7777732, src)
          ELSE Goes(Condition(src).unit, Advance(src), "expression")
    \/ /\ Handles("switch", "expression") /\ ~AtEnd(src)
       /\ LET u == CreateSpace(unit, this, "switch")
          IN  IF lex.l # "{" THEN Refuse(unit, -7777733, Finish(src))
              ELSE Calls(u, [top EXCEPT !.state = "block"], <<ParseFrame(Newest(u), lex.s)>>)
    \/ Handles("switch", "block") /\ Goes(unit, Advance(src), "finish")
    \/ Handles("switch", "finish") /\ ~AtEnd(src) /\ Refuse(unit, -7777733, Finish(src))
    \/ /\ In("switch", top.state) /\ top.state # "block"
       /\ AtEnd(src)
       /\ Made(unit, src)

\* The word behind case is an item of an enumeration.
Case ==
    /\ Handles("case", "startup")
    /\ LET item == TryEnumeration(unit, this, lex.v)
           colon == Advance(src)
       IN  IF lex.l = "word" /\ item = <<>> THEN Ends("crashed")
           ELSE IF lex.l = "word" /\ item[1].type.prop = "throw" THEN Ends("thrown")
           ELSE IF lex.l \notin {"word", "integer"} THEN Refuse(unit, -7777938, Finish(src))
           ELSE IF colon.lex.l # ":" THEN Refuse(unit, -7777734, Finish(colon))
           ELSE Made(unit, colon)

Default ==
    /\ Handles("default", "startup")
    /\ IF lex.l = ":" THEN Made(unit, src) ELSE Refuse(unit, -7777737, src)

(********************************* jumps ***********************************)
\* How many loops and switches with a space of their own stand around.
RECURSIVE Breakables(_, _)
Breakables(u, s) ==
    IF s = 0 THEN 0
    ELSE (IF u.spaces[s].type \in {"continue", "switch"} THEN 1 ELSE 0) + Breakables(u, u.spaces[s].parent)

Jump(kind, space) == Leaf(unit, [l |-> kind, name |-> ToString(Breakables(unit, space)), as |-> NoType])

\* Mutant: continue stops at a switch.
findBreakableSpaceForBoth(continues) == Enclosing(unit, this, {"continue", "switch"})

findBreakableSpace(continues) ==
    Enclosing(unit, this, {"continue"} \cup (IF continues THEN {} ELSE {"switch"}))

Break ==
    /\ Handles("break", "startup")
    /\ LET space == findBreakableSpace(FALSE)
       IN  IF lex.l # ";" \/ space = 0 THEN Refuse(unit, -7777737, src) ELSE Made(Jump("break", space), Advance(src))

Continue ==
    /\ Handles("continue", "startup")
    /\ LET space == findBreakableSpace(TRUE)
       IN  IF lex.l # ";" \/ space = 0 THEN Refuse(unit, -7777737, src) ELSE Made(Jump("continue", space), src)

Goto ==
    /\ Handles("goto", "startup")
    /\ LET behind == Advance(src)
       IN  IF ~At(src, {"word"}) \/ ~At(behind, {";"}) THEN Refuse(unit, -7777737, src)
           ELSE Made(Leaf(unit, [l |-> "goto", name |-> lex.v, as |-> NoType]), Advance(behind))

Delete ==
    /\ Handles("delete", "startup")
    /\ LET name == IF At(src, {"["}) THEN Advance(src) ELSE src
           var == FindVariable(unit, this, name.lex.v)
       IN  IF ~At(name, {"word"}) \/ var = <<>> THEN Refuse(unit, -7777737, name)
           ELSE IF var[1].type.prop = "throw" THEN Ends("thrown")
           ELSE Made(Used(unit, var[1]).unit, Advance(name))

\* Functions "operator::++" and the like are never registered.
Operator ==
    /\ Handles("operator", "startup")
    /\ LET named == ~AtEnd(src) /\ lex.l \in {"++", "new", "delete"}
           bracket == Advance(src)
           behind == Advance(bracket)
       IN  IF ~named THEN Refuse(unit, IF AtEnd(src) THEN -7777737 ELSE -7773737, src)
           ELSE IF bracket.lex.l # "(" THEN None(unit, bracket)
           ELSE IF behind.lex.l = ";" THEN Refuse(unit, -7771232, behind) ELSE None(unit, behind)

(******************************* exceptions ********************************)
ThrowValue(e) ==
    IF e.unit.status # "run" THEN Stays(e.unit, e.src)
    ELSE IF e.node = <<>> THEN Refuse(e.unit, -7777795, Finish(e.src))
    ELSE IF lex.l # "string" THEN Ends("thrown")
    ELSE IF ~At(e.src, {";"}) THEN Made(CreateError(e.unit, -7777286), e.src) ELSE Made(e.unit, e.src)

Throw ==
    /\ Handles("throw", "startup")
    /\ IF AtEnd(src) THEN Made(CreateError(unit, -7777286), src)
       ELSE \E e \in {ParseExpression(unit, this, src)} : ThrowValue(e)

\* The handler's argument belongs to a space of its own.
CatchSpace(u, space, a) ==
    [Ended(Errors(CreateSpace(u, this, "exception_handler"), a.errors), a.status) EXCEPT
        !.spaces[space].owner = <<[args |-> a.args, type |-> void, space |-> space]>>]

Catch(u, space, a, bracket) ==
    LET body == Advance(bracket)
    IN  IF u.status # "run" THEN Stays(u, bracket)
        ELSE IF Len(a.args) # 1 \/ ~At(body, {"{"}) THEN Refuse(u, -7777795, Finish(body))
        ELSE Calls(u, [top EXCEPT !.src = body, !.state = "handler"], <<ParseFrame(space, body.lex.s)>>)

Try ==
    \/ /\ Handles("try", "startup")
       /\ LET u == CreateSpace(unit, this, "codeblock")
          IN  IF lex.l # "{" THEN Ends("crashed")
              ELSE Calls(u, [top EXCEPT !.state = "catch"], <<ParseFrame(Newest(u), lex.s)>>)
    \/ /\ Handles("try", "catch")
       /\ LET word == Advance(src)
              bracket == Advance(word)
          IN  IF ~At(word, {"catch"}) \/ ~At(bracket, {"("}) THEN Refuse(unit, -7777795, Finish(src))
              ELSE \E a \in {IF bracket.lex.s = <<>> THEN NoArguments
                              ELSE ParseArgunentDefinition(unit, this, TRUE, bracket.lex.s)} :
                      Catch(CatchSpace(unit, Newest(unit) + 1, a), Newest(unit) + 1, a, bracket)
    \/ Handles("try", "handler") /\ Made(unit, Advance(src))

\* The parser has ended: all is read, or it has aborted.
Terminated == ~Running /\ UNCHANGED vars

Next ==
    \/ Declare
    \/ CreateStatement \/ CreateStatementEnds
    \/ Return \/ If \/ Else \/ IfEnds \/ Do \/ While \/ For \/ Switch \/ Case \/ Default
    \/ Break \/ Continue \/ Goto \/ Delete \/ Operator \/ Throw \/ Try
    \/ Terminated

\* A program that runs by itself goes on while it runs: WF_vars(Next), with
\* what enables a step written out.  A parser that runs is never stuck: that
\* every state has a successor is checked as the absence of deadlock.
Proceeds == []<>~Running \/ []<><<Next>>_vars

Spec == Init /\ [][Next]_vars /\ Proceeds
=============================================================================
