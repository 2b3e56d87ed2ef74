------------------------------- MODULE Names --------------------------------
(***************************************************************************)
(* Expressions, as far as the names in them are resolved: the nodes that   *)
(* CreateNode makes of operands, calls, scopes and members.  How operators *)
(* of all priorities are put in order is the module Expressions; here an   *)
(* expression is operands joined by "+", with an assignment in front.      *)
(*                                                                         *)
(* A built expression is a unit and a node, if one was made: its type, and *)
(* whether it is a constant and zero.                                      *)
(***************************************************************************)
EXTENDS Spaces

Node(type) == <<[type |-> type, constant |-> FALSE, zero |-> FALSE]>>
Literal(v) == <<[type |-> int, constant |-> TRUE, zero |-> v = "0"]>>
StringLiteral == <<[type |-> pointer_t(const_t(Type("signed", "char", 8))), constant |-> TRUE, zero |-> FALSE]>>
Built(u, node) == [unit |-> u, node |-> node]
Failed(u, code) == Built(CreateError(u, code), <<>>)
Fatal(u, how) == Built(Ended(u, how), <<>>)

Kind(text, k) == IF k \in DOMAIN text THEN text[k].l ELSE "end"
PositionOf(text, l) == SelectInSeq(text, LAMBDA lexeme : lexeme.l = l)

\* The arguments of a call, between commas.
RECURSIVE SplitAt(_, _)
SplitAt(text, l) ==
    LET k == PositionOf(text, l)
    IN  IF text = <<>> THEN <<>>
        ELSE IF k = 0 THEN <<text>>
        ELSE <<SubSeq(text, 1, k - 1)>> \o SplitAt(SubSeq(text, k + 1, Len(text)), l)

\* A call leaves its mark behind those of its arguments.
Called(u, function, values) ==
    Built(FindBestFunctionOverload(u, function, values), Node(function.type))

Enumerated(u, s, name) == name \in Range(u.spaces[s].enums)

RECURSIVE EnumerationValue(_, _, _)
EnumerationValue(u, s, name) ==
    s # 0 /\ (Enumerated(u, s, name) \/ EnumerationValue(u, u.spaces[s].parent, name))

Used(u, entity) ==
    IF entity.type.prop = "throw" THEN Fatal(u, "thrown")
    ELSE Built(Leaf(u, [l |-> "name", name |-> entity.name, as |-> entity.type]), Node(entity.type))

\* A word is a function anywhere in scope before it is a variable.
WordNode(u, s, name, no_parent_check, function, variable, item) ==
    CASE Known(function) -> Called(u, function[1], <<>>)
      [] function = <<>> /\ Known(variable) -> Used(u, variable[1])
      [] function = <<>> /\ variable = <<>> /\ no_parent_check ->
            IF Known(item) THEN Used(u, [item[1] EXCEPT !.type = IF @.prop = "throw" THEN @ ELSE int])
            ELSE Failed(u, -77716721)
      [] function = <<>> /\ variable = <<>> /\ ~no_parent_check ->
            IF EnumerationValue(u, s, name) THEN Used(u, [name |-> name, type |-> int, space |-> s]) ELSE Built(u, <<>>)

CheckWord(u, s, name, no_parent_check) ==
    WordNode(u, s, name, no_parent_check,
             IF no_parent_check THEN FindFunctionInSpace(u, s, name) ELSE FindFunction(u, s, name),
             IF no_parent_check THEN FindVariableInspace(u, s, name) ELSE FindVariable(u, s, name),
             EnumeratorOf(u, s, name))

Missing(built, code) == IF built.node = <<>> THEN Failed(built.unit, code) ELSE built

Word(u, s, name) == Missing(CheckWord(u, s, name, FALSE), -77716921)

\* The space that the words before the last "::" name.
RECURSIVE GetSpace(_, _, _)
GetSpace(u, s, names) ==
    IF names = <<>> THEN <<1>>
    ELSE IF Len(names) = 1 THEN FindNamespace(u, s, names[1])
    ELSE LET outer == GetSpace(u, s, Front(names))
         IN  IF Known(outer) THEN FindNamespaceInSpace(u, outer[1], Last(names)) ELSE <<>>

\* lt_namescope: without the space there is no node, and no error for it
\* unless a space within a space is missed.
Missed(u, s, names) == Cardinality({k \in 1 .. Len(names) - 2 : GetSpace(u, s, SubSeq(names, 1, k)) = <<>>})

ScopedIn(u, s, names, space) ==
    IF Known(space) THEN CheckWord(u, space[1], Last(names), TRUE)
    ELSE Built(Errors(u, [k \in 1 .. Missed(u, s, names) |-> -7776666]), <<>>)

ScopedNames(u, s, names) == ScopedIn(u, s, names, GetSpace(u, s, Front(names)))

Scoped(u, s, text) ==
    LET words == SelectSeq(text, LAMBDA lexeme : lexeme.l = "word")
    IN  ScopedNames(u, s, [k \in DOMAIN words |-> words[k].v])

\* A call by name; through a variable only a pointer to a function would do.
CallOf(u, function, variable, values) ==
    CASE Known(function) -> Called(u, function[1], values)
      [] function = <<>> /\ variable = <<>> -> Failed(u, -77716721)
      [] function = <<>> /\ variable # <<>> ->
            Fatal(u, IF variable[1].type.prop \in {"pointer", "unsigned"} THEN "crashed" ELSE "thrown")

CallNode(args, s, name) ==
    CallOf(args.unit, FindFunction(args.unit, s, name), FindVariable(args.unit, s, name), args.values)

RECURSIVE Bare(_)
Bare(type) == IF type.prop = "typedef" THEN Bare(Under(type)) ELSE type

\* The left side of "." : a variable of a compound type.
Owner(variable) == IF Known(variable) /\ Bare(variable[1].type).prop = "compound" THEN variable ELSE <<>>
Marked(u, owner) == Leaf(u, [l |-> "name", name |-> owner[1].name, as |-> owner[1].type])

\* A member that is not a call.
MemberOf(u, owner, member) ==
    IF owner = <<>> THEN Built(Errors(u, <<-77716721, -77716721, -77716122>>), <<>>)
    ELSE Missing(CheckWord(Marked(u, owner), Bare(owner[1].type).space, member, TRUE), -77716122)

MemberNode(u, s, name, member) == MemberOf(u, Owner(FindVariable(u, s, name)), member)

\* A method that the type does not have is looked for in the scope around.
NotFound(u) == Built(Errors(u, <<-77716721, -77716122>>), <<>>)
NoOwner(plain) == IF plain.node = <<>> THEN Fatal(plain.unit, "crashed") ELSE NotFound(plain.unit)

MethodOf(u, values, method, outer) ==
    CASE Known(method) -> Called(u, method[1], values)
      [] method = <<>> /\ Known(outer) -> Called(CreateError(u, -77716721), outer[1], values)
      [] method = <<>> /\ outer = <<>> -> NotFound(u)

MethodFor(u, s, values, name, member, owner) ==
    CASE owner = <<>> -> NoOwner(Word(CreateError(u, -77716721), s, name))
      [] owner # <<>> /\ owner[1].type.prop = "typedef" -> NotFound(Marked(u, owner))
      [] owner # <<>> /\ owner[1].type.prop # "typedef" ->
            MethodOf(Marked(u, owner), values, FindFunctionInSpace(u, owner[1].type.space, member),
                     FindFunction(u, u.spaces[s].parent, member))

MethodNode(args, s, name, member) ==
    MethodFor(args.unit, s, args.values, name, member, Owner(FindVariable(args.unit, s, name)))

\* No argument may fail.
Applied(args, Node1(_)) == IF args.failed THEN Fatal(args.unit, "crashed") ELSE Node1(args)
Unary(operand) == IF operand.node = <<>> THEN Failed(operand.unit, -77770707)
                  ELSE [operand EXCEPT !.node = Node(@[1].type)]

RECURSIVE Sum(_, _, _), Arguments(_, _, _)

\* An operand: the forms of it that name something.
Operand(u, s, text) ==
    CASE Kind(text, 1) = "integer" -> Built(u, Literal(text[1].v))
      [] Kind(text, 1) = "string" -> Built(u, StringLiteral)
      [] Kind(text, 1) = "(" -> Sum(u, s, text[1].s)
      [] Kind(text, 1) = "++" -> Unary(Sum(u, s, Tail(text)))
      [] Kind(text, 1) = "::" \/ (Kind(text, 1) = "word" /\ Kind(text, 2) = "::") -> Scoped(u, s, text)
      [] Kind(text, 1) = "word" /\ Len(text) = 1 -> Word(u, s, text[1].v)
      [] Kind(text, 1) = "word" /\ Kind(text, 2) = "(" ->
            Applied(Arguments(u, s, text[2].s), LAMBDA args : CallNode(args, s, text[1].v))
      [] Kind(text, 1) = "word" /\ Kind(text, 2) = "." /\ Len(text) = 3 -> MemberNode(u, s, text[1].v, text[3].v)
      [] Kind(text, 1) = "word" /\ Kind(text, 2) = "." /\ Len(text) = 4 ->
            Applied(Arguments(u, s, text[4].s), LAMBDA args : MethodNode(args, s, text[1].v, text[3].v))

\* A sum needs its left operand to have a node, for its type.
Nothing == Node(NoType)
Joined(left, right) ==
    CASE left.node = Nothing -> right
      [] left.node = <<>> -> Fatal(right.unit, "crashed")
      [] OTHER -> [right EXCEPT !.node = Node(left.node[1].type)]

Sum(u, s, text) ==
    FoldLeft(LAMBDA left, term : Joined(left, Operand(left.unit, s, term)), Built(u, Nothing), SplitAt(text, "+"))

\* The arguments that stand in a call: an argument without a node fails.
Argument(all, arg) ==
    [unit |-> arg.unit, values |-> all.values \o arg.node, failed |-> all.failed \/ arg.node = <<>>]

Arguments(u, s, text) ==
    FoldLeft(LAMBDA all, arg : Argument(all, Sum(all.unit, s, arg)), [unit |-> u, values |-> <<>>, failed |-> FALSE],
             SplitAt(text, ","))

Assigned(left, right) ==
    CASE left.node = Nothing -> right
      [] left.node # Nothing /\ (left.node = <<>> \/ right.node = <<>>) -> Failed(right.unit, -77771432)
      [] OTHER -> IF left.node[1].constant /\ right.node[1].constant THEN Fatal(right.unit, "thrown")
                  ELSE [right EXCEPT !.node = Node(left.node[1].type)]

Assignment(u, s, text) ==
    IF text = <<>> THEN Fatal(u, "crashed")
    ELSE FoldLeft(LAMBDA left, side : Assigned(left, Sum(left.unit, s, side)), Built(u, Nothing), SplitAt(text, "="))

\* ParseExpression reads up to the next ";" or "," and leaves it there.
Parsed1(built, src) == [unit |-> built.unit, node |-> built.node, src |-> src]

ParseExpression(u, s, src) ==
    LET Stops(p) == p > Len(src.text) \/ src.text[p].l \in {";", ","}
        stop == CHOOSE p \in src.pos .. Len(src.text) + 1 : Stops(p) /\ \A q \in src.pos .. p - 1 : ~Stops(q)
    IN  Parsed1(Assignment(u, s, SubSeq(src.text, src.pos, stop - 1)), Skip(src, stop - src.pos))

\* Arguments of a call statement: the first that has no node ends them.
CallArgument(all, arg) ==
    IF arg.node = <<>> THEN [all EXCEPT !.unit = arg.unit, !.src = Finish(arg.src)]
    ELSE [unit |-> arg.unit, values |-> all.values \o arg.node,
          src |-> IF At(arg.src, {","}) THEN Advance(arg.src) ELSE arg.src]

RECURSIVE CallArguments(_, _)
CallArguments(s, all) ==
    IF AtEnd(all.src) \/ all.unit.status # "run" THEN all
    ELSE CallArguments(s, CallArgument(all, ParseExpression(all.unit, s, all.src)))

CallWith(args, function) ==
    IF args.unit.status # "run" THEN args.unit ELSE FindBestFunctionOverload(args.unit, function, args.values)

TryCallFunction(u, s, function, text) ==
    CallWith(CallArguments(s, [unit |-> u, values |-> <<>>, src |-> SourcePtr(text)]), function)
=============================================================================
