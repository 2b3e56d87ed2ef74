----------------------------- MODULE Declarators ----------------------------
(***************************************************************************)
(* What ParseStatement does behind the type of a declaration: SelectState- *)
(* ment declares a variable or a function; structures, enumerations,       *)
(* typedefs, constructors and overloaded operators have handlers of their  *)
(* own.  The body of a function is parsed in a call on the stack.          *)
(***************************************************************************)
EXTENDS Declarations

Spoken(u, source) == [unit |-> u, src |-> source, body |-> <<>>]
Refused(u, code, source) == Spoken(CreateError(u, code), Finish(source))

(*************************** SelectStatement *******************************)
Structure(type) == type.prop = "compound"

\* "name :: member": the member is declared in the space of the structure.
Member(u, compound, next) ==
    IF next.lex.l # "word" THEN Spoken(Ended(u, "thrown"), next)
    ELSE IF ~Structure(compound) THEN Refused(u, -7777726, Advance(next))
    ELSE Spoken(u, Advance(next))

Judged(u, verdict) == CASE verdict = "thrown" -> Ended(u, "thrown") [] verdict = "endless" -> Ended(u, "crashed")
                        [] OTHER -> u

\* The initial value of a variable.
Initialised(type, e, verdict) ==
    IF e.node = <<>> \/ e.unit.status # "run" THEN Spoken(e.unit, e.src)
    ELSE Spoken(IF verdict = "no" THEN CreateError(e.unit, -777776) ELSE Judged(e.unit, verdict), e.src)

Initialise(type, e) ==
    Initialised(type, e, CompareTypes(type, e.node[1].type, FALSE, e.node[1].type.prop = "signed" /\ e.node[1].zero))

SelectValue(created, s, type, source) ==
    IF source.lex.l # "=" \/ created.status # "run" THEN Spoken(created, source)
    ELSE Initialise(type, ParseExpression(created, s, Advance(source)))

\* Mutant: a variable is refused if the name is known in a space around.
SelectVariableOnce(u, s, type, storage, name, source, old) ==
    IF old # <<>> THEN Refused(u, -77777, source)
    ELSE SelectValue(CreateVariable(u, s, type, name, storage), s, type, source)

SelectVariable(u, s, type, storage, name, source, old) ==
    IF old # <<>> /\ old[1].space = s THEN Refused(u, -77777, source)
    ELSE IF old # <<>> /\ old[1].type.prop = "throw" THEN Spoken(Ended(u, "thrown"), source)
    ELSE SelectValue(CreateVariable(u, s, type, name, storage), s, type, source)

\* A variable that is initialised in brackets, by its constructor if it has one.
Constructed(created, s, named, constructor, values, source) ==
    IF constructor # <<>> THEN Spoken(TryCallFunction(created, s, constructor[1], values), Advance(source))
    ELSE IF named THEN Spoken(Ended(created, "thrown"), source)
    ELSE Refused(created, -7711114, source)

Converted(e, verdict) ==
    IF verdict = "no" THEN Refused(e.unit, -7711114, e.src) ELSE Spoken(Judged(e.unit, verdict), e.src)

Convert(type, e) ==
    IF e.node = <<>> THEN Spoken(Ended(e.unit, "crashed"), e.src)
    ELSE Converted(e, CompareTypes(type, e.node[1].type, TRUE, FALSE))

PutStorage(u, at, storage) == [u EXCEPT !.spaces[at.space].funs[at.fun].overloads[at.overload].storage = storage]

BodyOf(parsed, source) == [unit |-> parsed.unit, src |-> source, body |-> parsed.body]

\* Behind the arguments of a function: its body, nothing, or "= 0".
Abstract(u, at, zero) ==
    IF OverloadAt(u, at).storage = "virtual" THEN Spoken(PutStorage(u, at, "abstract"), Advance(zero))
    ELSE Refused(u, -7777414, zero)

Functioned(u, s, at, behind) ==
    CASE AtEnd(behind) -> Spoken(CreateError(u, -7777774), behind)
      [] At(behind, {"{"}) ->
            IF u.spaces[s].type = "function" THEN Refused(u, -7777774, behind)
            ELSE IF OverloadAt(u, at).space # 0 THEN Refused(u, -77777, behind)
            ELSE BodyOf(ParseFunction(u, s, at, behind.lex.s), Advance(behind))
      [] At(behind, {";"}) -> Spoken(u, behind)
      [] At(behind, {"="}) /\ At(Advance(behind), {"integer"}) /\ Advance(behind).lex.v = "0" ->
            Abstract(u, at, Advance(behind))
      [] OTHER -> Refused(u, -7777401, behind)

SelectFunction(f, s, next) ==
    IF f.unit.status # "run" THEN Spoken(f.unit, next)
    ELSE Functioned(f.unit, s, f.at, IF next.lex.l = "const" THEN Advance(next) ELSE next)

\* A bracket behind a name holds the arguments of a definition, those of a
\* constructor, or a value.
SelectBracket(u, s, type, storage, name, source, first) ==
    IF source.lex.s = <<>> \/ TryLexenForType(u, s, first).type # <<>>
    THEN IF AtEnd(Advance(source)) THEN Spoken(CreateError(u, -7777774), Advance(source))
         ELSE SelectFunction(CreateFunction(u, s, type, name, source.lex.s, storage), s, Advance(source))
    ELSE IF type.name # name /\ first.lex.l \notin {"integer", "string", "class", "enum", "word"}
    THEN Refused(u, -7777774, source)
    ELSE IF ~HasSegment(u, s, storage) THEN Spoken(Ended(u, "thrown"), source)
    ELSE IF ~Structure(type)
    THEN IF type.name = name THEN Spoken(Ended(u, "thrown"), source)
         ELSE Convert(type, ParseExpression(CreateVariable(u, s, type, name, storage), s, source))
    ELSE Constructed(CreateVariable(u, s, type, name, storage), s, type.name = name,
                     IF type.name = name THEN FindFunction(u, type.space, name) ELSE FindFunctionInSpace(u, type.space, type.name),
                     IF type.name = name THEN SubSeq(source.lex.s, first.pos, Len(source.lex.s)) ELSE source.lex.s, source)

FirstArgument(args) == IF args.lex.l = "const" THEN Advance(args) ELSE args

\* The sizes in square brackets, all of them; only a constant is a size.
Sized(e, u, source) ==
    IF e.unit.status # "run" THEN Spoken(e.unit, source)
    ELSE IF e.node = <<>> THEN Refused(e.unit, -777743, source)
    ELSE IF ~e.node[1].constant THEN Refused(e.unit, -777745, source)
    ELSE Spoken(e.unit, Advance(source))

RECURSIVE SelectArray(_, _, _, _, _)
SelectArray(s, type, storage, name, r) ==
    IF r.unit.status # "run" \/ AtEnd(r.src) \/ ~At(r.src, {"["})
    THEN IF r.unit.errors # <<>> /\ AtEnd(r.src) THEN r
         ELSE Spoken(CreateVariable(r.unit, s, type, name, storage), r.src)
    ELSE IF r.src.lex.s = <<>> THEN SelectArray(s, array_t(type, 0), storage, name, Spoken(r.unit, Advance(r.src)))
    ELSE SelectArray(s, array_t(type, 2), storage, name,
                     Sized(ParseExpression(r.unit, s, SourcePtr(r.src.lex.s)), r.unit, r.src))

SelectDeclared(u, s, type, storage, name, source, old) ==
    CASE source.lex.l \in {",", ";", "="} -> SelectVariable(u, s, type, storage, name, source, old)
      [] source.lex.l = "(" ->
            SelectBracket(u, s, type, storage, name, source, FirstArgument(SourcePtr(source.lex.s)))
      [] source.lex.l = "[" ->
            IF old # <<>> /\ old[1].space = s THEN Refused(u, -7777400, source)
            ELSE SelectArray(s, type, storage, name, Spoken(u, source))
      [] OTHER -> Refused(u, -7777774, source)

\* The space, the name and the place to go on with behind "name ::".
RECURSIVE Qualified(_, _, _)
Qualified(s, name, r) ==
    LET compound == FindType(r.unit, s, name)
    IN  CASE r.unit.status # "run" \/ ~At(r.src, {"::"}) -> [space |-> s, name |-> name, spoken |-> r]
          [] OTHER -> IF compound = <<>> THEN [space |-> s, name |-> name, spoken |-> Spoken(Ended(r.unit, "thrown"), r.src)]
                      ELSE Qualified(compound[1].space, Advance(r.src).lex.v,
                                     Member(r.unit, compound[1], Advance(r.src)))

SelectIn(q, type, storage) ==
    IF q.spoken.unit.status # "run" \/ AtEnd(q.spoken.src) THEN q.spoken
    ELSE SelectDeclared(q.spoken.unit, q.space, type, storage, q.name, q.spoken.src,
                        FindVariable(q.spoken.unit, q.space, q.name))

SelectStatement(u, s, type, storage, name, source) == SelectIn(Qualified(s, name, Spoken(u, source)), type, storage)

\* A body is parsed in a call on the stack.
Says(r, state) ==
    IF r.body = <<>> THEN Becomes(r.unit, [top EXCEPT !.src = r.src, !.state = state])
    ELSE Calls(r.unit, [top EXCEPT !.src = r.src, !.state = state], <<ParseFrame(r.body[1].space, r.body[1].statements)>>)

Select == Reading("select") /\ Says(SelectStatement(unit, this, Type1, top.storage, top.name, src), "selected")

\* Behind a declarator: the next one, of the type before the comma.
Selected ==
    /\ In("ParseStatement", "selected")
    /\ CASE AtEnd(src) -> Goes(unit, src, "select")
         [] At(src, {";"}) -> Goes(unit, Advance(src), "startup")
         [] At(src, {","}) -> Becomes(unit, [top EXCEPT !.type = top.comma_type, !.src = Advance(src), !.state = "type"])
         [] At(src, {"="}) ->
                IF AtEnd(Advance(src)) THEN Stays(CreateError(unit, -7775312), Advance(src)) ELSE Ends("thrown")
         [] OTHER -> Ends("thrown")

(****************************** type_state *********************************)
Typed(kinds) == Reading("type") /\ top.type # <<>> /\ lex.l \in kinds

TypeDerived ==
    \/ Typed({"*"}) /\ Types1(pointer_t(Type1), Advance(src))
    \/ Typed({"const"}) /\ Types1(const_t(Type1), Advance(src))
    \/ Typed({"&"}) /\ Types1(address_t(Type1), Advance(src))

TypeNamed ==
    /\ Typed({"word"})
    /\ Becomes(unit, [top EXCEPT !.name = lex.v, !.src = Advance(src), !.state = "select"])

\* A type alone declares nothing, unless it is a structure.
TypeAlone ==
    /\ Typed({";"})
    /\ IF Structure(Type1) THEN Goes(unit, Advance(src), "startup") ELSE Fails(unit, -7777774)

\* "type ::": what follows is a statement of the structure's space.
TypeScope ==
    /\ Typed({"::"})
    /\ IF Structure(Type1)
       THEN Calls(unit, [top EXCEPT !.state = "scoped"], <<StatementFrame(Type1.space, Advance(src), TRUE)>>)
       ELSE Fails(unit, -777778)

ScopeEnds == In("ParseStatement", "scoped") /\ Goes(unit, src, "type")

\* A structure or an enumeration that is not known is a null pointer.
TypeUnknown ==
    /\ Reading("type") /\ top.type = <<>>
    /\ lex.l \in {"::", ";", "*", "const", "word", "&", "("}
    /\ CASE lex.l = "*" -> Types1(pointer_t(NoType), Advance(src))
         [] lex.l = "&" -> Types1(address_t(NoType), Advance(src))
         [] lex.l = "(" /\ unit.spaces[this].type # "structure" -> Fails(unit, -7777774)
         [] lex.l = "word" /\ At(Advance(src), {",", ";"}) ->
                Becomes(unit, [top EXCEPT !.type = <<NoType>>, !.name = lex.v, !.src = Advance(src), !.state = "select"])
         [] OTHER -> Ends("crashed")

\* Nothing else is expected behind a type.
TypeUnexpected ==
    /\ Reading("type")
    /\ lex.l \notin {"::", ";", "*", "const", "word", "&", "operator", "(", ":"}
    /\ Ends("thrown")

(******************** constructors and operators ***************************)
\* CheckCostructorDestructor: behind it nothing more may stand.
Rest(r) == IF AtEnd(r.src) THEN r ELSE [Refused(r.unit, -7777074, r.src) EXCEPT !.body = r.body]

Constructor(f, next) ==
    IF FunctionAt(f.unit, f.at).type # Type1 \/ OverloadAt(f.unit, f.at).space # 0
    THEN Refused(f.unit, -7777111, src)
    ELSE CASE AtEnd(next) -> Refused(f.unit, -7778911, next)
           [] At(next, {";"}) -> Rest(Spoken(f.unit, Advance(next)))
           [] At(next, {"{"}) -> Rest(BodyOf(ParseFunction(f.unit, this, f.at, next.lex.s), Advance(next)))
           [] OTHER -> Rest(Spoken(f.unit, next))

TypeBracket ==
    /\ Typed({"("})
    /\ LET next == Advance(src)
           own == Structure(Type1) /\ Type1.space = this
           name == IF top.destructor THEN "~" \o Type1.name ELSE Type1.name
       IN  IF unit.spaces[this].type # "structure" THEN Fails(unit, -7777774)
           ELSE IF own THEN Says(Constructor(CreateFunction(unit, this, Type1, name, lex.s, top.storage), next), "type")
           ELSE IF AtEnd(next) \/ next.lex.l \in {";", "("} THEN Ends("thrown")
           ELSE Stays(CreateError(unit, -7777074), Finish(next))

OperatorName(source, type) ==
    CASE source.lex.l = "++" -> IF type[1].prop = "pointer" THEN "operator ++" ELSE "_operator++"
      [] source.lex.l \in {"new", "delete"} -> "operator " \o source.lex.l
      [] source.lex.l = "=" -> "operator="
      [] OTHER -> "operator_conversion_type"

\* The type comes before an operator, or behind it if it is a conversion.
OperatorBody(made, s, at, known, behind) ==
    IF ~At(behind, {"{"}) THEN Refused(made, -7777704, behind)
    ELSE IF made.spaces[s].type = "function" THEN Refused(made, -7777705, behind)
    ELSE IF ~known THEN Spoken(Ended(made, "crashed"), behind)
    ELSE BodyOf(ParseFunction(made, s, at, behind.lex.s), Advance(behind))

OperatorMade(f, s, known, behind) ==
    OperatorBody(IF known THEN f.unit ELSE CreateError(f.unit, -177750), s, f.at, known, behind)

\* own is the type, source stands at the operator's sign.
CheckOverloadOperator(u, s, own, type, storage, source) ==
    LET args == Advance(source)
        conversion == source.lex.l = "word"
        known == source.lex.l \in {"++", "new", "delete", "=", "word"}
    IN  IF ~At(args, {"("}) THEN Refused(u, -777780, source)
        ELSE IF conversion /\ own = <<>> THEN Spoken(CreateError(u, -7771732), source)
        ELSE IF own = <<>> THEN Spoken(Ended(u, "crashed"), source)
        ELSE OperatorMade(CreateFunction(u, s, own[1], OperatorName(source, type), args.lex.s, storage), s, known,
                          IF conversion THEN Advance(Advance(args)) ELSE Advance(args))

OverloadedOperator ==
    /\ (Reading("type") /\ lex.l = "operator") \/ Begins({"operator"})
    /\ \E sign \in {Advance(src)} :
           Says(CheckOverloadOperator(unit, this,
                    IF sign.lex.l = "word" THEN FindType(unit, this, sign.lex.v) ELSE top.type,
                    top.type, top.storage, sign), "overload")

OverloadEnds == In("ParseStatement", "overload") /\ Goes(unit, src, "finish")

(****************************** structures *********************************)
StructureBegins ==
    /\ Begins({"struct", "class", "union"})
    /\ Becomes(unit, [top EXCEPT !.name = lex.v, !.src = Advance(src), !.state = "check_compound"])

\* ParseCompoundDefinition up to the members.  Bodies of methods wait.
CompoundFrame(s, space, type) ==
    [Frame("ParseCompoundDefinition", s, src) EXCEPT !.shared = FALSE, !.state = "members", !.type = <<type>>]
    @@ [space |-> space, fun |-> 0, overload |-> 0]

CompoundOpens(u, s, name, frame, statements) ==
    LET space == Len(u.spaces) + 1
        type == structure_t(name, space)
        made == CreateSpace(u, s, "structure")
        named == IF name = "" THEN made ELSE CreateType(made, s, type, name)
    IN  Calls([named EXCEPT !.spaces[space].no_parse_methods_body = TRUE], frame,
              <<CompoundFrame(s, space, type), ParseFrame(space, statements)>>)

MembersEnd ==
    /\ In("ParseCompoundDefinition", "members")
    /\ Becomes([unit EXCEPT !.spaces[top.space].no_parse_methods_body = FALSE], [top EXCEPT !.state = "bodies"])

\* Then the bodies, function by function, overload by overload.
MethodBodies ==
    /\ In("ParseCompoundDefinition", "bodies")
    /\ LET funs == unit.spaces[top.space].funs
           overloads == IF top.fun = 0 THEN <<>> ELSE funs[top.fun].overloads
           o == overloads[top.overload + 1]
       IN  IF top.overload < Len(overloads)
           THEN IF o.storage # "abstract" /\ o.code # <<>>
                THEN Calls(unit, [top EXCEPT !.overload = @ + 1], <<ParseFrame(o.space, o.code[1])>>)
                ELSE Becomes(unit, [top EXCEPT !.overload = @ + 1])
           ELSE IF top.fun < Len(funs) THEN Becomes(unit, [top EXCEPT !.fun = @ + 1, !.overload = 0])
           ELSE Returns(unit, src, top.type)

Compound ==
    /\ Reading("check_compound")
    /\ LET type == FindType(unit, this, top.name)
       IN  IF lex.l = "{" THEN CompoundOpens(unit, this, top.name, [top EXCEPT !.state = "compound"], lex.s)
           ELSE Becomes(unit, [top EXCEPT !.type = type, !.comma_type = type, !.state = "type"])

\* Only now are the members of the parents known.
CompoundEnds ==
    /\ In("ParseStatement", "compound")
    /\ Becomes([unit EXCEPT !.spaces[top.got[1].space].inherited = top.inherited_from],
               [top EXCEPT !.type = top.got, !.comma_type = top.got, !.src = Advance(src), !.state = "type"])

\* ": parent, ... {"
Inherit ==
    \/ /\ Reading("type") /\ lex.l = ":"
       /\ LET next == Advance(src)
          IN  IF src.prev \notin {"struct", "class"} THEN Fails(unit, -7771393)
              ELSE IF ~At(next, {"word"}) THEN Stays(CreateError(unit, -7771393), Finish(next))
              ELSE Goes(unit, next, "inherit")
    \/ /\ Reading("inherit")
       /\ LET parent == FindType(unit, this, lex.v)
              next == Advance(src)
              frame == [top EXCEPT !.inherited_from = Append(@, parent[1].space), !.src = next]
          IN  IF parent = <<>> \/ (parent # <<>> /\ ~Structure(parent[1])) THEN Fails(unit, -7771393)
              ELSE IF AtEnd(next) THEN Becomes(CreateError(unit, -7771393), frame)
              ELSE IF next.lex.l = "{" THEN Becomes(unit, [frame EXCEPT !.state = "check_compound"])
              ELSE IF next.lex.l # "," THEN Stays(CreateError(unit, -7771393), Finish(next))
              ELSE Becomes(unit, [frame EXCEPT !.src = Advance(next)])

(***************************** enumerations ********************************)
\* The items between commas; the last may be empty.  An item is registered
\* in the space, and in the type.
EnumerationStep(e, lexeme) ==
    LET Fail(code) == [e EXCEPT !.state = "failed", !.errors = Append(@, code)]
        Register == IF e.name \in Range(e.known) \cup Range(e.items) THEN Fail(-7777789)
                    ELSE [e EXCEPT !.items = Append(@, e.name), !.name = "", !.state = "check_name"]
    IN  CASE e.state = "failed" -> e
          [] e.state = "check_name" -> IF lexeme.l = "word" THEN [e EXCEPT !.name = lexeme.v, !.state = "next"] ELSE Fail(-7777789)
          [] e.state = "next" -> CASE lexeme.l = "=" -> [e EXCEPT !.state = "index"]
                                   [] lexeme.l = "," -> Register
                                   [] OTHER -> Fail(-7777789)
          [] e.state = "index" -> CASE lexeme.l = "integer" -> [e EXCEPT !.state = "next"]
                                    [] lexeme.l = "-" -> [e EXCEPT !.state = "negative"]
                                    [] OTHER -> Fail(-7777689)
          [] e.state = "negative" -> IF lexeme.l = "integer" THEN [e EXCEPT !.state = "next"] ELSE Fail(-7777689)

ParseEnumeration(u, s, name, statements) ==
    LET known == u.spaces[s].enums
        Start == [state |-> "check_name", name |-> "", items |-> <<>>, known |-> known, errors |-> <<>>]
        read == IF statements = <<>> THEN Start ELSE FoldLeft(EnumerationStep, Start, statements[1])
        e == IF read.state # "failed" /\ read.name # "" THEN EnumerationStep([read EXCEPT !.state = "next"], Lexeme(",")) ELSE read
    IN  [unit |-> Errors([u EXCEPT !.spaces[s].enums = @ \o e.items], e.errors),
         type |-> enumeration_t(name, s, e.items)]

Named1(u, s, type, name) == IF name = "" THEN u ELSE CreateType(u, s, type, name)

EnumerationOf(u, type, source) ==
    Becomes(u, [top EXCEPT !.type = type, !.comma_type = type, !.state = "type", !.src = source])

Enumeration ==
    \/ /\ Begins({"enum"})
       /\ Becomes(unit, [top EXCEPT !.name = lex.v, !.src = Advance(src), !.state = "check_enumeration"])
    \/ /\ Reading("check_enumeration")
       /\ IF lex.l = "{"
          THEN \E e \in {ParseEnumeration(unit, this, top.name, lex.s)} :
                  EnumerationOf(Named1(e.unit, this, e.type, top.name), <<e.type>>, Advance(src))
          ELSE EnumerationOf(unit, FindType(unit, this, top.name), src)

(******************************* typedef ***********************************)
Defining(state) == In("ParseTypeDefinition", state) /\ ~AtEnd(src)
Defined1(u, type, name) == CreateType(u, this, typedef_t(name, type), name)

TypedefBegins ==
    /\ Begins({"typedef"})
    /\ Calls(unit, [top EXCEPT !.state = "typedef"], <<Frame("ParseTypeDefinition", this, Advance(src))>>)

TypedefOf ==
    /\ Defining("startup")
    /\ LET known == TryLexenForType(unit, this, src).type
       IN  CASE lex.l \in {"struct", "class", "union"} ->
                    Becomes(unit, [top EXCEPT !.name = lex.v, !.src = Advance(src), !.state = "struct"])
             [] lex.l = "enum" -> Becomes(unit, [top EXCEPT !.name = lex.v, !.src = Advance(src), !.state = "enum"])
             [] lex.l \in DOMAIN builtin_types \cup {"word"} ->
                    IF known = <<>> THEN Fails(unit, -7777738)
                    ELSE Becomes(unit, [top EXCEPT !.type = known, !.src = Advance(src), !.state = "name"])
             [] OTHER -> Fails(unit, -7777738)

TypedefStructure ==
    \/ /\ Defining("struct")
       /\ IF lex.l # "{" THEN Fails(unit, -7777739)
          ELSE CompoundOpens(unit, this, top.name, [top EXCEPT !.state = "compound"], lex.s)
    \/ /\ In("ParseTypeDefinition", "compound")
       /\ Becomes(unit, [top EXCEPT !.type = top.got, !.src = Advance(src), !.state = "name"])

TypedefOfEnum(made, type, name) ==
    IF AtEnd(name) \/ AtEnd(Advance(name)) THEN Stays(CreateError(made, -777414), Finish(name))
    ELSE Goes(Defined1(made, type, name.lex.v), Advance(name), "finish")

TypedefEnum ==
    /\ Defining("enum")
    /\ IF lex.l # "{" THEN Fails(unit, -777414)
       ELSE \E e \in {ParseEnumeration(unit, this, top.name, lex.s)} :
               TypedefOfEnum(Named1(e.unit, this, e.type, top.name), e.type, Advance(src))

TypedefName ==
    /\ Defining("name")
    /\ CASE lex.l = "*" -> Types1(pointer_t(Type1), Advance(src))
         [] lex.l = "word" -> Becomes(unit, [top EXCEPT !.name = lex.v, !.src = Advance(src), !.state = "delimiter"])
         [] OTHER -> Fails(unit, -777714)

TypedefDelimiter ==
    /\ Defining("delimiter")
    /\ IF lex.l = ";" THEN Goes(Defined1(unit, Type1, top.name), Advance(src), "finish")
       ELSE Fails(unit, -777315)

TypedefFinish == Defining("finish") /\ IF lex.l = ";" THEN Stays(unit, Advance(src)) ELSE Fails(unit, -777315)

TypedefEnds ==
    \/ /\ In("ParseTypeDefinition", top.state) /\ AtEnd(src) /\ top.state # "compound"
       /\ Returns(unit, src, top.type)
    \/ /\ In("ParseStatement", "typedef")
       /\ Becomes(unit, [top EXCEPT !.type = top.got, !.comma_type = top.got, !.state = "type"])

(**************************** ends of statements ***************************)
WaitDelimiter ==
    /\ Reading("wait_delimiter")
    /\ IF lex.l = ";" THEN Goes(unit, Advance(src), "finish") ELSE Fails(unit, -777715)

\* Nothing may follow.
AfterEnd == Reading("finish") /\ Fails(unit, -777778)

Declare ==
    \/ Parse \/ StatementEnds \/ CheckStorageClass \/ TypeBegins \/ CheckNamespace \/ NamespaceEnds
    \/ CodeBlock \/ CodeBlockEnds \/ ParseUsing \/ Visibility \/ Tilde \/ EmptyStatement \/ ExpressionBegins
    \/ TypeMissing \/ VariableStatement \/ CallStatement \/ ScopeStatement \/ Label \/ CheckOperators \/ OperatorEnds
    \/ Select \/ Selected \/ TypeDerived \/ TypeNamed \/ TypeAlone \/ TypeScope \/ ScopeEnds \/ TypeUnknown \/ TypeUnexpected
    \/ TypeBracket \/ OverloadedOperator \/ OverloadEnds \/ StructureBegins \/ MembersEnd \/ MethodBodies
    \/ Compound \/ CompoundEnds \/ Inherit \/ Enumeration
    \/ TypedefBegins \/ TypedefOf \/ TypedefStructure \/ TypedefEnum \/ TypedefName \/ TypedefDelimiter \/ TypedefFinish \/ TypedefEnds
    \/ WaitDelimiter \/ AfterEnd
=============================================================================
