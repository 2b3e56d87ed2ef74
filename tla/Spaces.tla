------------------------------- MODULE Spaces -------------------------------
(***************************************************************************)
(* The tree of spaces the syntax parser builds, and what is looked up and  *)
(* registered in it: variables, functions with their overloads, types,     *)
(* enumerations and embedded spaces; and the expressions, as far as the    *)
(* names in them are resolved in these spaces.                             *)
(*                                                                         *)
(* A unit is what has been built of a translation unit so far.  Everything *)
(* here is a function of the unit; the parser that calls it is in          *)
(* Declarations and Statements.                                            *)
(***************************************************************************)
EXTENDS Types

(***************************** lexemes *************************************)
(* A lexeme has a kind, a text, and a sequence: of lexemes in "(" and "[", *)
(* of statements in "{".  A struct or enum carries its name in v.          *)
Lexeme(l) == [l |-> l, v |-> "", s |-> <<>>]

\* A SourcePtr keeps what it loaded last when it runs over the end, and the
\* last text there was when a lexeme has none.
Loaded(src) ==
    LET lexeme == src.text[src.pos]
    IN  [src EXCEPT !.lex = IF lexeme.v = "" THEN [lexeme EXCEPT !.v = src.lex.v] ELSE lexeme]
SourcePtr(text) ==
    LET src == [text |-> text, pos |-> 1, lex |-> Lexeme("empty"), prev |-> "empty"]
    IN  IF text = <<>> THEN src ELSE Loaded(src)

AtEnd(src) == src.pos > Len(src.text)
Finish(src) == [src EXCEPT !.pos = Len(src.text) + 1]
At(src, kinds) == ~AtEnd(src) /\ src.lex.l \in kinds

\* The end of a std::list is followed by its first element.
Advance(src) ==
    LET moved == [src EXCEPT !.pos = IF AtEnd(src) THEN 1 ELSE @ + 1, !.prev = src.lex.l]
    IN  IF AtEnd(moved) THEN moved ELSE Loaded(moved)
Skip(src, n) == FoldLeft(LAMBDA s, k : Advance(s), src, [k \in 1 .. n |-> k])

(******************************* spaces ************************************)
\* function_map maps a name to its function: a type and overloads.
Space(type, parent, owner) ==
    [type |-> type, parent |-> parent, owner |-> owner, vars |-> <<>>, funs |-> <<>>, types |-> <<>>,
     enums |-> <<>>, embedded |-> <<>>, usings |-> <<>>, inherited |-> <<>>, no_parse_methods_body |-> FALSE]

GlobalSpace == Space("global", 0, <<>>)

\* errors are the codes reported, tree is what statements were made of.
EmptyUnit == [spaces |-> <<GlobalSpace>>, current_space |-> 1, errors |-> <<>>, tree |-> <<>>, status |-> "run"]

CONSTANT MaxLeaves     \* a statement that never ends adds no more than these to the tree

CreateError(u, code) == IF Len(u.errors) < MaxLeaves THEN [u EXCEPT !.errors = Append(@, code)] ELSE u
Errors(u, codes) == FoldLeft(CreateError, u, codes)
Leaf(u, leaf) == IF Len(u.tree) < MaxLeaves THEN [u EXCEPT !.tree = Append(@, leaf)] ELSE u
Ended(u, how) == IF u.status = "run" THEN [u EXCEPT !.status = how] ELSE u

CreateSpace(u, this, type) ==
    [u EXCEPT !.spaces = Append(@, Space(type, this, u.spaces[this].owner))]
Newest(u) == Len(u.spaces)

Named(seq, name) == SelectSeq(seq, LAMBDA e : e.name = name)
Known(seq) == seq # <<>>

RECURSIVE FindType(_, _, _)
FindType(u, s, name) ==
    IF s = 0 THEN <<>>
    ELSE LET own == Named(u.spaces[s].types, name)
         IN  IF Known(own) THEN <<own[1].type>> ELSE FindType(u, u.spaces[s].parent, name)

CreateType(u, s, type, name) == [u EXCEPT !.spaces[s].types = Append(@, [name |-> name, type |-> type])]

RECURSIVE FindVariableInspace(_, _, _)
FindVariableInspace(u, s, name) ==
    LET own == Named(u.spaces[s].vars, name)
        InAll(spaces) == FlattenSeq([k \in DOMAIN spaces |-> FindVariableInspace(u, spaces[k], name)])
    IN  [k \in DOMAIN own |-> [name |-> name, type |-> own[k].type, space |-> s]]
        \o InAll(u.spaces[s].usings) \o InAll(u.spaces[s].inherited)

\* The first enumerated type of the space that has the item.  The variable
\* made for it needs a segment, which only the global space has.
RECURSIVE Underlying(_)
Underlying(type) == IF type.prop \in {"const", "typedef"} THEN Underlying(Under(type)) ELSE type

EnumeratorOf(u, s, name) ==
    LET types == SelectSeq(u.spaces[s].types,
                    LAMBDA t : LET e == Underlying(t.type)
                               IN e.prop = "enum" /\ name \in Range(e.items))
        e == Underlying(types[1].type)
    IN  IF types = <<>> THEN <<>>
        ELSE <<[name |-> name, type |-> IF s = 1 THEN e ELSE Type("throw", name, 0), space |-> s]>>

RECURSIVE TryEnumeration(_, _, _)
TryEnumeration(u, s, name) ==
    IF s = 0 THEN <<>>
    ELSE LET own == EnumeratorOf(u, s, name)
         IN  IF Known(own) THEN own ELSE TryEnumeration(u, u.spaces[s].parent, name)

FindArgument(owner, name) ==
    LET args == Named(owner.args, name)
    IN  IF Known(args) THEN <<[name |-> name, type |-> args[1].type, space |-> owner.space]>> ELSE <<>>

\* Mutant: the arguments of a function are looked up behind its variables.
RECURSIVE FindVariableFirst(_, _, _)
FindVariableFirst(u, s, name) ==
    IF s = 0 THEN <<>>
    ELSE LET space == u.spaces[s]
             Args == IF space.type = "function" THEN FindArgument(space.owner[1], name) ELSE <<>>
             Outer == FindVariableFirst(u, space.parent, name)
         IN  FindVariableInspace(u, s, name) \o Outer \o Args

\* What a name means in a space: one entity, or none.
InSpace(u, s, name) ==
    (IF u.spaces[s].type \in {"function", "exception_handler"} THEN FindArgument(u.spaces[s].owner[1], name) ELSE <<>>)
    \o FindVariableInspace(u, s, name) \o EnumeratorOf(u, s, name)

FirstOf(found, Outer) == IF Known(found) THEN <<found[1]>> ELSE Outer

RECURSIVE FindVariable(_, _, _)
FindVariable(u, s, name) ==
    IF s = 0 THEN <<>> ELSE FirstOf(InSpace(u, s, name), FindVariable(u, u.spaces[s].parent, name))

RECURSIVE FindFunctionInSpace(_, _, _)
FindFunctionInSpace(u, s, name) ==
    LET own == SelectSeq(u.spaces[s].funs, LAMBDA f : f.name = name)
        spaces == u.spaces[s].inherited
    IN  own \o FlattenSeq([k \in DOMAIN spaces |-> FindFunctionInSpace(u, spaces[k], name)])

RECURSIVE FindFunction(_, _, _)
FindFunction(u, s, name) ==
    IF s = 0 THEN <<>>
    ELSE LET own == FindFunctionInSpace(u, s, name)
         IN  IF Known(own) THEN own ELSE FindFunction(u, u.spaces[s].parent, name)

RECURSIVE FindNamespaceInSpace(_, _, _)
FindNamespaceInSpace(u, s, name) ==
    LET own == Named(u.spaces[s].embedded, name)
        spaces == u.spaces[s].inherited
    IN  [k \in DOMAIN own |-> own[k].space]
        \o FlattenSeq([k \in DOMAIN spaces |-> FindNamespaceInSpace(u, spaces[k], name)])

RECURSIVE FindNamespace(_, _, _)
FindNamespace(u, s, name) ==
    IF s = 0 THEN <<>>
    ELSE LET own == FindNamespaceInSpace(u, s, name)
         IN  IF Known(own) THEN own ELSE FindNamespace(u, u.spaces[s].parent, name)

\* The nearest space of these types, 0 if there is none.
RECURSIVE Enclosing(_, _, _)
Enclosing(u, s, types) ==
    IF s = 0 \/ u.spaces[s].type \in types THEN s ELSE Enclosing(u, u.spaces[s].parent, types)

\* Only global and extern variables have a segment.
HasSegment(u, s, storage) == storage = "extern" \/ (storage = "default" /\ s = 1)

CreateVariable(u, s, type, name, storage) ==
    IF HasSegment(u, s, storage)
    THEN Leaf([u EXCEPT !.spaces[s].vars = Append(@, [name |-> name, type |-> type])],
              [l |-> "declare", name |-> name, as |-> type])
    ELSE Ended(u, "thrown")

(************************* types of lexemes *******************************)
GetBuiltinType(l) == IF l \in DOMAIN builtin_types THEN <<Builtin(l)>> ELSE <<>>

\* The type a lexeme names, and the source, which const moves.
AsConst(named) == [named EXCEPT !.type = IF @ = <<>> THEN @ ELSE <<const_t(@[1])>>]

RECURSIVE TryLexenForType(_, _, _)
TryLexenForType(u, s, src) ==
    CASE src.lex.l # "const" ->
            [src |-> src,
             type |-> IF src.lex.l \in {"word", "struct", "class", "union", "enum"} THEN FindType(u, s, src.lex.v)
                      ELSE GetBuiltinType(src.lex.l)]
      [] src.lex.l = "const" /\ AtEnd(Advance(src)) -> [src |-> Advance(src), type |-> <<>>]
      [] src.lex.l = "const" /\ ~AtEnd(Advance(src)) -> AsConst(TryLexenForType(u, s, Advance(src)))

(****************************** functions **********************************)
\* The arguments of a definition.  An error in a function's arguments is
\* logged to its space, which it does not have yet: that throws.
ArgumentStep(has_space, a, lex, type) ==
    LET No(code) == [a EXCEPT !.state = "failed", !.errors = Append(@, code)]
        Fail(code) == IF has_space THEN No(code) ELSE [No(code) EXCEPT !.status = "thrown"]
        Add(name) == [a EXCEPT !.args = Append(@, [name |-> name, type |-> a.type[1]]),
                               !.const = FALSE, !.state = "wait_type"]
        Const(t) == IF a.const THEN const_t(t) ELSE t
        Typed(t, state) == [a EXCEPT !.type = <<t>>, !.state = state]
    IN  CASE a.state \in {"failed", "got_three_dots"} -> a
          [] a.state = "wait_type" ->
                CASE lex.l = "const" -> [a EXCEPT !.const = TRUE]
                  [] lex.l = "three_dots" ->
                        [a EXCEPT !.args = Append(@, [name |-> "...", type |-> Ellipsis]), !.state = "got_three_dots"]
                  [] Known(type) -> Typed(Const(type[1]), "wait_name")
                  [] lex.l \in {"struct", "class", "enum"} -> [a EXCEPT !.state = "wait_only_pointer"]
                  [] OTHER -> No(-7777786)
          [] a.state = "wait_only_pointer" ->
                IF lex.l = "*" THEN Typed(pointer_t(Const(void)), "wait_name") ELSE No(-7777786)
          [] a.state = "wait_name" ->
                CASE lex.l = "*" -> Typed(pointer_t(a.type[1]), a.state)
                  [] lex.l = "&" -> Typed(address_t(a.type[1]), a.state)
                  [] lex.l = "const" -> Typed(const_t(a.type[1]), a.state)
                  [] lex.l = "," -> Add("")
                  [] lex.l = "word" -> [a EXCEPT !.name = lex.v, !.state = "wait_delimiter"]
                  [] OTHER -> Fail(-7777701)
          [] a.state = "wait_delimiter" ->
                CASE lex.l = "[" -> IF lex.s = <<>> THEN Typed(pointer_t(a.type[1]), a.state) ELSE Fail(-7777702)
                  [] lex.l = "=" -> [a EXCEPT !.state = "failed", !.status = "thrown"]
                  [] lex.l = "," -> Add(a.name)
                  [] OTHER -> Fail(-7777701)

\* The last argument; void stands alone.
LastArgument(has_space, a) ==
    CASE a.state = "failed" -> a
      [] a.state # "failed" /\ a.type = <<>> -> [a EXCEPT !.status = "crashed"]
      [] a.state # "failed" /\ a.type # <<>> ->
            IF a.type[1].prop # "void"
            THEN IF a.state \in {"wait_delimiter", "wait_name"}
                 THEN [a EXCEPT !.args = Append(@, [name |-> IF a.state = "wait_name" THEN "" ELSE a.name, type |-> a.type[1]])]
                 ELSE a
            ELSE IF a.args = <<>> THEN a
            ELSE [a EXCEPT !.errors = Append(@, -7770701), !.status = IF has_space THEN @ ELSE "thrown"]

NoArguments == [state |-> "wait_type", type |-> <<>>, name |-> "", const |-> FALSE, args |-> <<>>,
                errors |-> <<>>, status |-> "run"]

ParseArgunentDefinition(u, s, has_space, text) ==
    LastArgument(has_space,
        FoldLeft(LAMBDA a, lex : ArgumentStep(has_space, a, lex, TryLexenForType(u, s, SourcePtr(<<lex>>)).type),
                 NoArguments, text))

\* The overload that CreateFunction declared last or found: its place.
Place(s, f, o) == [space |-> s, fun |-> f, overload |-> o]

\* The overload with the same mangled arguments, or a new one.
WithOverload(function, overload, exist) ==
    IF exist = 0 THEN [function EXCEPT !.overloads = Append(@, overload)] ELSE function

AddOverload(u, s, funs, f, function, overload) ==
    LET exist == SelectInSeq(function.overloads, LAMBDA o : o.mangle = overload.mangle)
    IN  [unit |-> [u EXCEPT !.spaces[s].funs = SubSeq(funs, 1, f - 1) \o <<WithOverload(function, overload, exist)>>
                                               \o SubSeq(funs, f + 1, Len(funs))],
         at |-> Place(s, f, IF exist = 0 THEN Len(function.overloads) + 1 ELSE exist)]

\* A function gets its type from the first declaration of its name.
RegisterFunction(u, s, type, name, overload, known) ==
    AddOverload(u, s, u.spaces[s].funs, IF known = 0 THEN Len(u.spaces[s].funs) + 1 ELSE known,
               IF known = 0 THEN [name |-> name, type |-> type, overloads |-> <<>>] ELSE u.spaces[s].funs[known],
               overload)

CreateFunctionWith(u, s, type, name, storage, a) ==
    RegisterFunction(Ended(Errors(u, a.errors), a.status), s, type, name,
        [args |-> a.args, mangle |-> MangleArguments(a.args), storage |-> storage, space |-> 0, code |-> <<>>],
        SelectInSeq(u.spaces[s].funs, LAMBDA f : f.name = name))

CreateFunction(u, s, type, name, text, storage) ==
    CreateFunctionWith(u, s, type, name, storage,
                       IF text = <<>> THEN NoArguments ELSE ParseArgunentDefinition(u, s, FALSE, text))

OverloadAt(u, at) == u.spaces[at.space].funs[at.fun].overloads[at.overload]
FunctionAt(u, at) == u.spaces[at.space].funs[at.fun]

\* function_overload_t::Parse up to the statements: the body gets a space,
\* whose statements are parsed now or, in a structure, kept for later.
ParseFunction(u, parent, at, statements) ==
    LET space == Len(u.spaces) + 1
        owner == [args |-> OverloadAt(u, at).args, type |-> FunctionAt(u, at).type, space |-> space]
        later == u.spaces[parent].no_parse_methods_body
        Put(o) == [o EXCEPT !.space = space, !.code = IF later THEN <<statements>> ELSE <<>>]
        known == IF OverloadAt(u, at).space # 0 THEN CreateError(u, -7777721) ELSE u
    IN  [unit |-> [known EXCEPT !.spaces =
                    Append([@ EXCEPT ![at.space].funs[at.fun].overloads[at.overload] = Put(@)],
                           Space("function", parent, <<owner>>))],
         body |-> IF later THEN <<>> ELSE <<[space |-> space, statements |-> statements]>>]

\* Does an overload take these values?  The first one that it does not take
\* tells; "crashed" when there are too many.
Verdict(args, value, k) ==
    CASE k > Len(args) -> "crashed"
      [] k <= Len(args) /\ args[k].type = Ellipsis -> "yes"
      [] k <= Len(args) /\ args[k].type # Ellipsis -> CompareTypes(args[k].type, value.type, TRUE, value.zero)

Taken(verdict) == CASE verdict = "endless" -> "crashed" [] OTHER -> verdict

Takes(args, values) ==
    LET verdicts == [k \in DOMAIN values |-> Verdict(args, values[k], k)] \o <<"yes">>
    IN  Taken(SelectSeq(verdicts, LAMBDA v : v \notin {"same", "cast"})[1])

\* The first overload that takes the values.  One without arguments is not
\* taken for values, but stays the choice if it is the last.
Choice(overloads, values) ==
    [k \in DOMAIN overloads |->
        IF overloads[k].args # <<>> THEN Takes(overloads[k].args, values)
        ELSE IF values = <<>> \/ k = Len(overloads) THEN "yes" ELSE "no"]

Best(u, function, choice, k) ==
    CASE k = 0 -> CreateError(u, -7778899)
      [] k # 0 /\ choice[k] # "yes" -> Ended(u, choice[k])
      [] k # 0 /\ choice[k] = "yes" ->
            Leaf(u, [l |-> "call", name |-> function.name, as |-> function.overloads[k].args])

BestOf(u, function, choice) == Best(u, function, choice, SelectInSeq(choice, LAMBDA v : v # "no"))
FindBestFunctionOverload(u, function, values) == BestOf(u, function, Choice(function.overloads, values))
=============================================================================
