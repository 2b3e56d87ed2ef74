----------------------------- MODULE Declarations ---------------------------
(***************************************************************************)
(* namespace_t::ParseStatement: one statement of a translation unit, of a  *)
(* namespace, of a structure or of a function's body, taken lexeme by      *)
(* lexeme through its states; with what it calls to declare something:     *)
(* SelectStatement, ParseUsing, CheckNamespace, ParseCompoundDefinition,   *)
(* ParseEnumeration, ParseTypeDefinition, CheckOverloadOperator.           *)
(*                                                                         *)
(* The parser calls itself for blocks, bodies and parts of statements.     *)
(* Its calls are frames on a stack; a frame that shares its source with    *)
(* its caller leaves the source to it where it stands when it returns.     *)
(*                                                                         *)
(* Left out: templates, pointers to functions, initialisers in braces and  *)
(* bit fields.                                                             *)
(***************************************************************************)
EXTENDS Names

VARIABLES
    program,     \* what was written; its text is the statements that the code splitter made
    unit,        \* what has been built of them
    stack,       \* the calls that are under way, the innermost last
    tick         \* changes with every step, also one that leaves all else as it is

vars == <<program, unit, stack, tick>>

(******************************** calls ************************************)
top == Last(stack)
this == top.this
src == top.src
lex == src.lex

\* A frame of the list of statements of a space; 0 stands for current_space.
ParseFrame(s, statements) == [fn |-> "Parse", state |-> "next", this |-> s, rest |-> statements, shared |-> FALSE]

Frame(fn, s, source) ==
    [fn |-> fn, state |-> "startup", this |-> s, src |-> source, shared |-> TRUE, got |-> <<>>,
     type |-> <<>>, name |-> ""]

StatementFrame(s, source, shared) ==
    [Frame("ParseStatement", s, source) EXCEPT !.shared = shared]
    @@ [comma_type |-> <<>>, storage |-> "default", destructor |-> FALSE, inherited_from |-> <<>>]

Running == unit.status = "run" /\ stack # <<>>
In(fn, state) == Running /\ top.fn = fn /\ top.state = state
Reading(state) == In("ParseStatement", state) /\ ~AtEnd(src)

Step == tick' = ~tick /\ UNCHANGED program

\* The innermost call goes on as frame f, with the unit u.
Becomes(u, f) ==
    /\ unit' = u
    /\ stack' = [stack EXCEPT ![Len(stack)] = f]
    /\ Step

Calls(u, f, callees) ==
    /\ unit' = u
    /\ stack' = Append(Front(stack), f) \o callees
    /\ Step

\* It returns a value; the outermost call ends the run.
Returns(u, source, value) ==
    LET caller == stack[Len(stack) - 1]
        moved == IF top.shared THEN [caller EXCEPT !.src = source] ELSE caller
        resumed == IF "got" \in DOMAIN caller THEN [moved EXCEPT !.got = value] ELSE moved
    IN  /\ stack' = IF Len(stack) = 1 THEN <<>> ELSE Append(Front(Front(stack)), resumed)
        /\ unit' = IF Len(stack) = 1 THEN Ended(u, "done") ELSE u
        /\ Step

Stays(u, source) == Becomes(u, [top EXCEPT !.src = source])
Goes(u, source, state) == Becomes(u, [top EXCEPT !.src = source, !.state = state])
Fails(u, code) == Stays(CreateError(u, code), Finish(src))
Ends(how) == Stays(Ended(unit, how), src)

Type1 == top.type[1]
Types1(type, source) == Becomes(unit, [top EXCEPT !.type = <<type>>, !.src = source])

(**************************** lists of statements **************************)
\* Parse: the statements one after the other, each in the space that is
\* current when its turn comes, if it is not the space's own list.
Parse ==
    /\ In("Parse", "next")
    /\ LET s == IF this = 0 THEN unit.current_space ELSE this
       IN  IF top.rest = <<>> THEN Returns(unit, <<>>, TRUE)
           ELSE IF s = 0 THEN Becomes(Ended(unit, "crashed"), top)
           ELSE Calls(unit, [top EXCEPT !.rest = Tail(@)],
                      <<StatementFrame(s, SourcePtr(Head(top.rest)), FALSE)>>)

\* while (source != false)
StatementEnds ==
    /\ In("ParseStatement", top.state)
    /\ AtEnd(src)
    /\ top.state \notin {"selected", "namespace", "block", "compound", "typedef", "scoped", "operator", "overload"}
    /\ Returns(unit, src, TRUE)

(******************************* beginnings ********************************)
Storage == {"extern", "static", "register", "mutable", "virtual"}

CheckStorageClass ==
    /\ Reading("startup")
    /\ LET next == Advance(src)
           Go(u, storage, source) ==
               Becomes(u, [top EXCEPT !.storage = storage, !.src = source, !.state = "parsing"])
       IN  IF top.storage # "default" THEN Go(CreateError(unit, -77777), top.storage, next)
           ELSE IF lex.l \in Storage
           THEN Go(unit, lex.l, IF lex.l = "extern" /\ At(next, {"string"}) THEN Advance(next) ELSE next)
           ELSE Go(unit, "default", IF lex.l = "inline" THEN next ELSE src)

Begins(kinds) == Reading("parsing") /\ lex.l \in kinds

\* The statement begins with a type; the type behind a comma is the same.
TypeBegins ==
    /\ Begins(DOMAIN builtin_types \cup {"const", "word"})
    /\ \E named \in {TryLexenForType(unit, this, src)} :
           IF named.type # <<>>
           THEN Becomes(unit, [top EXCEPT !.type = named.type, !.comma_type = named.type,
                                          !.state = "type", !.src = Advance(named.src)])
           ELSE lex.l = "const" /\ Ends("crashed")

CheckNamespace ==
    /\ Begins({"namespace"})
    /\ LET first == Advance(src)
           named == first.lex.l = "word"
           body == IF named THEN Advance(first) ELSE first
           created == CreateSpace(unit, unit.current_space, "namespace")
       IN  IF body.lex.l # "{" THEN Stays(unit, Finish(src))
           ELSE IF unit.current_space = 0 THEN Ends("crashed")
           ELSE Calls([created EXCEPT !.current_space = Newest(created)],
                      [top EXCEPT !.state = "namespace", !.name = IF named THEN first.lex.v ELSE ""],
                      <<ParseFrame(0, body.lex.s)>>)

\* The parent of whatever space is current behind the block.
Parent(u) == IF u.current_space = 0 THEN 0 ELSE u.spaces[u.current_space].parent

NamespaceEnds ==
    /\ In("ParseStatement", "namespace")
    /\ LET space == [name |-> top.name, space |-> unit.current_space]
       IN  Goes([unit EXCEPT !.spaces[this].embedded = Append(@, space), !.current_space = Parent(unit)],
                Finish(src), "parsing")

CodeBlock ==
    /\ Begins({"{"})
    /\ LET created == CreateSpace(unit, this, "codeblock")
       IN  Calls([created EXCEPT !.current_space = Newest(created)], [top EXCEPT !.state = "block"],
                 <<ParseFrame(0, lex.s)>>)

CodeBlockEnds ==
    /\ In("ParseStatement", "block")
    /\ IF unit.current_space = 0 THEN Ends("crashed")
       ELSE Goes([unit EXCEPT !.current_space = Parent(unit)], Advance(src), "parsing")

\* The name of the space is not passed over.  A space found elsewhere is
\* used in the global space.
ParseUsing ==
    /\ Begins({"using"})
    /\ LET first == Advance(src)
           name == Advance(first)
           space == FindNamespace(unit, this, name.lex.v)
           user == IF unit.spaces[space[1]].parent = this THEN this ELSE 1
       IN  IF AtEnd(first) \/ first.lex.l # "namespace" THEN Stays(CreateError(unit, -7770101), first)
           ELSE IF name.lex.l # "word" THEN Stays(CreateError(unit, -7770102), Finish(name))
           ELSE IF space = <<>> THEN Stays(CreateError(unit, -7770102), name)
           ELSE Stays([unit EXCEPT !.spaces[user].usings = Append(@, space[1])], name)

Visibility ==
    \/ Begins({"private", "protected", "public"}) /\ Goes(unit, Advance(src), "visibility_colon")
    \/ /\ Reading("visibility_colon")
       /\ IF lex.l = ":" THEN Goes(unit, Advance(src), "startup") ELSE Fails(unit, -777715)

Tilde ==
    /\ Begins({"~"})
    /\ IF unit.spaces[this].type # "structure" THEN Fails(unit, -777745)
       ELSE Becomes(unit, [top EXCEPT !.destructor = TRUE, !.src = Advance(src)])

\* Mutant: the semicolon is not passed over.
EmptyStatementStaying == Begins({";"}) /\ Stays(unit, src)

EmptyStatement == Begins({";"}) /\ Stays(unit, Advance(src))

\* What follows an expression that ends at no semicolon is passed over, and
\* then one more lexeme.
Behind(e) == Stays(e.unit, Advance(IF AtEnd(e.src) \/ e.src.lex.l = ";" THEN e.src ELSE Finish(e.src)))

ExpressionBegins == Begins({"(", "++", "::"}) /\ Behind(ParseExpression(unit, this, src))

(**************************** words and operators **************************)
Word0 == Begins({"word"}) /\ TryLexenForType(unit, this, src).type = <<>>
Meant == FindVariable(unit, this, lex.v)
Function0 == FindFunction(unit, this, lex.v)
Variable0 == top.storage = "default" /\ Meant # <<>>
Nameless == top.storage = "default" /\ Meant = <<>> /\ Function0 = <<>>

\* As in old C, the type of an extern variable may be missing.
TypeMissing ==
    /\ Word0 /\ top.storage # "default"
    /\ Becomes(CreateError(unit, -777745), [top EXCEPT !.type = <<int>>, !.comma_type = <<int>>, !.state = "type"])

VariableStatement ==
    /\ Word0 /\ Variable0
    /\ \E e \in {ParseExpression(unit, this, src)} :
           IF Meant[1].type.prop = "throw" THEN Ends("thrown")
           ELSE IF e.node = <<>> THEN Stays(e.unit, Finish(e.src)) ELSE Goes(e.unit, e.src, "wait_delimiter")

\* A call ends the statement, whatever follows it.
CallStatement ==
    /\ Word0 /\ top.storage = "default" /\ Meant = <<>> /\ Function0 # <<>>
    /\ LET next == Advance(src)
       IN  IF AtEnd(next) THEN Stays(unit, next)
           ELSE IF next.lex.l = "(" THEN Stays(TryCallFunction(unit, this, Function0[1], next.lex.s), Finish(next))
           ELSE Stays(CreateError(unit, -7775132), Finish(next))

ScopeStatement ==
    /\ Word0 /\ Nameless /\ FindNamespace(unit, this, lex.v) # <<>>
    /\ \E e \in {ParseExpression(unit, this, src)} : Goes(e.unit, e.src, "wait_delimiter")

Label ==
    /\ Word0 /\ Nameless /\ FindNamespace(unit, this, lex.v) = <<>>
    /\ LET next == Advance(src)
       IN  IF next.lex.l = ":" THEN Stays(Leaf(unit, [l |-> "label", name |-> lex.v, as |-> NoType]), Advance(next))
           ELSE Stays(CreateError(unit, -7776732), next)

Operators == {"return", "if", "do", "while", "switch", "for", "break", "case", "continue", "default", "goto",
              "delete", "try", "throw", "operator"}

\* CheckOperators: the handler of a lexeme reads behind it.
OperatorFrame(s, source) ==
    Frame(source.lex.l, s, Advance(source)) @@ [parts |-> <<>>]

Beginnings == DOMAIN builtin_types \cup
    {"const", "word", "namespace", "{", "using", "private", "protected", "public", "~", ";", "(", "++", "::",
     "struct", "class", "union", "enum", "typedef", "operator"}

CheckOperators ==
    /\ Reading("parsing") /\ lex.l \notin Beginnings
    /\ IF lex.l \in Operators THEN Calls(unit, [top EXCEPT !.state = "operator"], <<OperatorFrame(this, src)>>)
       ELSE Ends("thrown")

\* Operators stand within functions; one lexeme behind them is passed over.
OperatorEnds ==
    /\ In("ParseStatement", "operator")
    /\ LET within == Enclosing(unit, this, {"function"}) # 0
                     /\ unit.spaces[this].type \notin {"structure", "namespace"}
       IN  IF ~top.got THEN Ends("thrown")
           ELSE IF ~within THEN Goes(CreateError(unit, -7777732), Finish(src), "parsing")
           ELSE Goes(unit, IF AtEnd(src) THEN src ELSE Advance(src), "parsing")
=============================================================================
