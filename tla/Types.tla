-------------------------------- MODULE Types --------------------------------
(***************************************************************************)
(* The types of the parsed program: what CompareTypes allows to be stored  *)
(* where, and how MangleArguments names a list of arguments.               *)
(*                                                                         *)
(* A type has a property, a name, a size in bits and, if it is made from   *)
(* another type, that type.  Structures are told apart by their space,     *)
(* enumerations by the space and the items they were declared with.        *)
(***************************************************************************)
EXTENDS Integers, Sequences, SequencesExt, TLC

Type(prop, name, bits) == [prop |-> prop, name |-> name, bits |-> bits, of |-> <<>>, space |-> 0, items |-> <<>>]
Derived(prop, name, bits, type) == [Type(prop, name, bits) EXCEPT !.of = <<type>>]

builtin_types ==
    [auto |-> <<"auto", 0>>, void |-> <<"void", 0>>, bool |-> <<"unsigned", 32>>,
     int |-> <<"signed", 32>>, uint |-> <<"unsigned", 32>>, char |-> <<"signed", 8>>, uchar |-> <<"unsigned", 8>>,
     short |-> <<"signed", 16>>, ushort |-> <<"unsigned", 16>>, long |-> <<"signed", 32>>, ulong |-> <<"unsigned", 32>>,
     llong |-> <<"signed", 64>>, ullong |-> <<"unsigned", 64>>, float |-> <<"float", 32>>, double |-> <<"float", 64>>]

Builtin(name) == Type(builtin_types[name][1], name, builtin_types[name][2])
NoType == Type("none", "", 0)   \* a null pointer
int == Type("signed", "int", 32)
void == Type("void", "void", 0)

pointer_t(type) == Derived("pointer", "*", 32, type)
address_t(type) == Derived("pointer", "&", 32, type)
const_t(type) == Derived("const", "const", type.bits, type)
typedef_t(name, type) == Derived("typedef", name, type.bits, type)
array_t(type, n) == [Derived("array", "[]", IF n = 0 THEN 32 ELSE n * type.bits, type) EXCEPT !.items = <<n>>]
structure_t(name, space) == [Type("compound", name, 0) EXCEPT !.space = space]
enumeration_t(name, space, items) == [Type("enum", name, 32) EXCEPT !.space = space, !.items = items]

Under(type) == type.of[1]

RECURSIVE Unconst(_)
Unconst(type) == IF type.prop = "const" THEN Unconst(Under(type)) ELSE type

\* const is taken off, and then one typedef.
Plain(type) == IF Unconst(type).prop = "typedef" THEN Under(Unconst(type)) ELSE Unconst(type)

\* May a value of another property be stored?
CompareOthers(l, r, zero_rvalue, Targets) ==
    CASE l.prop = "signed" -> IF r.prop = "unsigned" THEN "cast" ELSE "no"
      [] l.prop = "unsigned" -> IF r.prop = "signed" THEN "cast" ELSE "no"
      [] l.prop \in {"float", "enum"} -> IF r.prop \in {"signed", "unsigned"} THEN "cast" ELSE "no"
      [] l.prop = "void" -> "no"
      [] l.prop = "pointer" -> CASE zero_rvalue -> "cast"
                                 [] ~zero_rvalue /\ r.prop # "array" -> "no"
                                 [] ~zero_rvalue /\ r.prop = "array" -> IF Under(l).prop = "void" THEN "same" ELSE Targets
      [] OTHER -> "thrown"

Compare(ltype, rtype, l, r, arg_mode, zero_rvalue, Targets) ==
    CASE ltype = rtype -> "same"
      [] ltype # rtype /\ l.prop # r.prop -> CompareOthers(l, r, zero_rvalue, Targets)
      [] ltype # rtype /\ l.prop = r.prop ->
            IF ~arg_mode /\ ltype.prop = "const" /\ rtype.prop # "const" THEN "no"
            ELSE IF l.prop = "pointer"
            THEN IF zero_rvalue THEN "same" ELSE IF Under(l).prop = "void" THEN "cast" ELSE Targets
            ELSE IF l.prop \in {"compound", "enum"} THEN IF l = r THEN "same" ELSE "endless"
            ELSE IF l.bits = r.bits THEN "same" ELSE IF l.bits > r.bits THEN "cast" ELSE "thrown"

\* May a value of type rtype be stored in ltype?  "thrown" ends the program;
\* "endless" is a recursion on the same two types.
RECURSIVE CompareTypes(_, _, _, _)
CompareTypes(ltype, rtype, arg_mode, zero_rvalue) ==
    Compare(ltype, rtype, Plain(ltype), Plain(rtype), arg_mode, zero_rvalue,
            CompareTypes(Under(Plain(ltype)), Under(Plain(rtype)), TRUE, FALSE))

\* Mutant: pointers and const are not written.
RECURSIVE MangleTypeByName(_, _)
MangleTypeByName(type, mangle) ==
    IF type.prop \in {"pointer", "const"} THEN MangleTypeByName(Under(type), mangle)
    ELSE [mangle EXCEPT !.names = Append(@, type.name)]

\* MangleType writes "*" and "const" in front of all that was written so far
\* and the name behind it.
RECURSIVE MangleType(_, _)
MangleType(type, mangle) ==
    IF type.prop \in {"pointer", "const"}
    THEN MangleType(Under(type), [mangle EXCEPT !.front = <<type.prop>> \o @])
    ELSE [mangle EXCEPT !.names = Append(@, type.name)]

Ellipsis == Type("ellipsis", "...", 0)

MangleArguments(args) ==
    FoldLeft(LAMBDA mangle, arg : MangleType(arg.type, mangle), [front |-> <<>>, names |-> <<>>], args)
=============================================================================
