----------------------------- MODULE TokenWriter -----------------------------
(***************************************************************************)
(* append_lexem in the mode that writes the lexeme file: the words of a    *)
(* built-in type are collected in lex_queue until another lexeme follows   *)
(* and are then written as one type; struct, class, enum and union wait    *)
(* for the name or the brace that follows.                                 *)
(*                                                                         *)
(* A token is one of the words of built-in types, "const", a word that     *)
(* opens a user type, another keyword, a name, or punctuation.             *)
(***************************************************************************)
EXTENDS Integers, Sequences, SequencesExt, FiniteSets

CONSTANTS
    Names,       \* words that are not reserved
    Keywords,    \* reserved words other than those below and "const"
    Punctuation, \* lexemes that are not words, the brace "{" among them
    Tags,        \* struct, class, enum, union
    MaxTokens, MaxLine

Specifiers == {"bool", "char", "double", "float", "short", "int", "long", "signed", "unsigned"}

Brace == "{"

Words == Names \union Keywords \union Tags \union Specifiers \union {"const"}

VARIABLES
    read,           \* the tokens given to append_lexem, with their lines
    queue,          \* lex_queue
    postfix_const,
    prev_lexem,     \* a tag, or "none" for any other lexeme
    out,            \* what was written, each lexeme under the last "@" line
    status

vars == <<read, queue, postfix_const, prev_lexem, out, status>>

Init ==
    /\ read = <<>>
    /\ queue = <<>>
    /\ postfix_const = FALSE
    /\ prev_lexem = "none"
    /\ out = <<>>
    /\ status = "run"

Count(q, w) == Cardinality({k \in DOMAIN q : q[k] = w})

\* Mutant: char does not exclude long.
TranslateLongChar(q) ==
    LET n == [w \in Specifiers |-> Count(q, w)]
    IN  CASE n["char"] > 0 -> IF n["unsigned"] > 0 THEN "uchar" ELSE "char"
          [] n["bool"] > 0 -> IF Len(q) = 1 THEN "bool" ELSE "error"
          [] n["double"] > 0 -> "double"
          [] n["float"] > 0 -> "float"
          [] n["short"] > 0 -> "short"
          [] OTHER -> "int"

\* translate_builtin_types: the type the collected words stand for.
Translate(q) ==
    LET n == [w \in Specifiers |-> Count(q, w)]
        U(unsigned, signed) == IF n["unsigned"] > 0 THEN unsigned ELSE signed
    IN  CASE n["bool"] > 0 -> IF Len(q) = 1 THEN "bool" ELSE "error"
          [] n["bool"] = 0 /\ n["signed"] > 0 /\ n["unsigned"] > 0 -> "error"
          [] n["bool"] = 0 /\ ~(n["signed"] > 0 /\ n["unsigned"] > 0) ->
             IF n["int"] > 1 THEN "error"
             ELSE IF n["double"] > 0
             THEN IF n["signed"] + n["unsigned"] + n["char"] + n["short"] + n["int"] + n["float"] > 0
                     \/ n["double"] > 1 \/ n["long"] > 1 THEN "error" ELSE "double"
             ELSE IF n["float"] > 0
             THEN IF n["signed"] + n["unsigned"] + n["char"] + n["short"] + n["int"] + n["long"] > 0
                     \/ n["float"] > 1 THEN "error" ELSE "float"
             ELSE IF n["char"] > 0
             THEN IF n["short"] + n["int"] + n["long"] > 0 \/ n["char"] > 1 THEN "error"
                  ELSE U("uchar", "char")
             ELSE IF n["short"] > 0
             THEN IF n["long"] > 0 \/ n["short"] > 1 THEN "error" ELSE U("ushort", "short")
             ELSE CASE n["long"] = 0 -> U("uint", "int")
                    [] n["long"] = 1 -> U("ulong", "long")
                    [] n["long"] = 2 -> U("ullong", "llong")
                    [] OTHER -> "error"

\* What the file holds for a lexeme: its number, with the text of a word.
Word(text) == [lexeme |-> "word", text |-> text]
Number(lexeme) == [lexeme |-> lexeme, text |-> ""]
Tagged(tag, name) == [lexeme |-> tag, text |-> name]

Under(lexemes, line) == [k \in DOMAIN lexemes |-> [written |-> lexemes[k], line |-> line]]

\* Each lexeme is written under the line of the token that is handled.
Write(lexemes, line) == out' = out \o Under(lexemes, line)

\* A word of a built-in type is collected.
Collect(token) ==
    /\ token \in Specifiers
    /\ queue # <<>> \/ prev_lexem = "none"
    /\ queue' = Append(queue, token)
    /\ UNCHANGED <<postfix_const, prev_lexem, out, status>>

PostfixConst(token) ==
    /\ token = "const" /\ queue # <<>>
    /\ postfix_const' = TRUE
    /\ UNCHANGED <<queue, prev_lexem, out, status>>

\* Mutant: the words are not taken out of the queue.
CloseKeeping(token, line) ==
    /\ queue # <<>> /\ token \notin Specifiers \union {"const"}
    /\ Write(<<Number(Translate(queue)),
               IF token \in Words THEN Word(token) ELSE Number(token)>>, line)
    /\ UNCHANGED <<queue, postfix_const, prev_lexem, status>>

\* Any other lexeme ends a built-in type.  It is written as it came, without
\* a look at the reserved words.
Close(token, line) ==
    /\ queue # <<>> /\ token \notin Specifiers \union {"const"}
    /\ IF Translate(queue) = "error"
       THEN status' = "thrown" /\ UNCHANGED <<out, postfix_const>>
       ELSE /\ Write(<<Number(Translate(queue))>>
                        \o (IF postfix_const THEN <<Number("const")>> ELSE <<>>)
                        \o <<IF token \in Words THEN Word(token) ELSE Number(token)>>, line)
            /\ postfix_const' = FALSE
            /\ UNCHANGED status
    /\ queue' = <<>>
    /\ prev_lexem' = "none"

\* struct and its like wait for what follows.
Defer(token) ==
    /\ queue = <<>> /\ prev_lexem = "none" /\ token \in Tags
    /\ prev_lexem' = token
    /\ UNCHANGED <<queue, postfix_const, out, status>>

\* What follows is a word or a brace; anything else is lost with the tag.
TagFollowed(token, line) ==
    /\ queue = <<>> /\ prev_lexem # "none"
    /\ Write(CASE token \in Words -> <<Tagged(prev_lexem, token)>>
               [] token = Brace -> <<Tagged(prev_lexem, ""), Number(Brace)>>
               [] OTHER -> <<>>, line)
    /\ prev_lexem' = "none"
    /\ UNCHANGED <<queue, postfix_const, status>>

\* Any lexeme outside of a type.
Plain(token, line) ==
    /\ queue = <<>> /\ prev_lexem = "none"
    /\ token \notin Specifiers \union Tags
    /\ Write(<<IF token \in Names THEN Word(token) ELSE Number(token)>>, line)
    /\ UNCHANGED <<queue, postfix_const, prev_lexem, status>>

\* One call of append_lexem, with the line the token is on.
append_lexem(token, line) ==
    /\ read' = Append(read, [token |-> token, line |-> line])
    /\ \/ Collect(token) \/ PostfixConst(token) \/ Close(token, line)
       \/ Defer(token) \/ TagFollowed(token, line) \/ Plain(token, line)

LastLine == IF read = <<>> THEN 1 ELSE Last(read).line

Next ==
    /\ status = "run" /\ Len(read) < MaxTokens
    /\ \E token \in Words \union Punctuation, line \in LastLine .. MaxLine :
           append_lexem(token, line)

Spec == Init /\ [][Next]_vars
-----------------------------------------------------------------------------
\* The built-in types of C as the words that must and may stand for them; of
\* long, which alone may be repeated, the number.  Primula has no long double.
CTypes ==
    LET sign == {"signed", "unsigned"}
        T(must, may, long, u, s) == [must |-> must, may |-> may, long |-> long, u |-> u, s |-> s]
    IN  {T({"bool"}, {}, 0, "bool", "bool"), T({"float"}, {}, 0, "float", "float"),
         T({"double"}, {}, 0, "double", "double"), T({"double"}, {}, 1, "double", "double"),
         T({"char"}, sign, 0, "uchar", "char"), T({"short"}, sign \union {"int"}, 0, "ushort", "short"),
         T({}, sign \union {"int"}, 0, "uint", "int"), T({}, sign \union {"int"}, 1, "ulong", "long"),
         T({}, sign \union {"int"}, 2, "ullong", "llong")}

\* The words of q, long aside.
Present(q) == {w \in Specifiers \ {"long"} : Count(q, w) > 0}

\* The row t is the type that the words of q, in whatever order, stand for.
Stands(t, q) ==
    /\ t.must \subseteq Present(q) /\ Present(q) \subseteq t.must \union t.may
    /\ t.long = Count(q, "long")
    /\ ~({"signed", "unsigned"} \subseteq Present(q))

\* The type C gives the words of q.
CType(q) ==
    IF (\A t \in CTypes : ~Stands(t, q)) \/ \E w \in Present(q) : Count(q, w) > 1 THEN "error"
    ELSE LET t == CHOOSE t \in CTypes : Stands(t, q)
         IN  IF "unsigned" \in Present(q) THEN t.u ELSE t.s

\* translate_builtin_types gives each combination of words, in each order, the
\* type it has in C, and refuses those that have none; only a repeated signed
\* or unsigned is let through.
TypesAsInC ==
    queue # <<>> /\ Count(queue, "signed") <= 1 /\ Count(queue, "unsigned") <= 1
        => Translate(queue) = CType(queue)

\* The k-th token of r belongs to a built-in type: it is one of its words, or
\* const behind one.
InType(r, k) ==
    \E b \in 1 .. k :
        /\ r[b].token \in Specifiers
        /\ \A m \in b .. k : r[m].token \in Specifiers \union {"const"}

Tokens(r) == [k \in DOMAIN r |-> r[k].token]

\* The words of the built-in type that ends with the k-th token.
Run(r, k) ==
    LET begin == CHOOSE b \in 1 .. k : (\A m \in b .. k : InType(r, m)) /\ ~InType(r, b - 1)
    IN  SubSeq(Tokens(r), begin, k)

Type(r, k) ==
    <<Number(CType(Run(r, k)))>>
        \o (IF Contains(Run(r, k), "const") THEN <<Number("const")>> ELSE <<>>)

Tag(r, k) == k \in DOMAIN r /\ r[k].token \in Tags

\* What the k-th token of r stands for.
Lexemes(r, k) ==
    LET token == r[k].token
    IN  IF InType(r, k) THEN (IF k # Len(r) /\ ~InType(r, k + 1) THEN Type(r, k) ELSE <<>>)
        ELSE IF Tag(r, k) THEN <<>>
        ELSE IF Tag(r, k - 1)
        THEN (IF token \in Names THEN <<Tagged(r[k - 1].token, token)>>
              ELSE <<Tagged(r[k - 1].token, ""), Number(Brace)>>)
        ELSE <<IF token \in Names THEN Word(token) ELSE Number(token)>>

\* What the tokens stand for, each with the line it is on: a built-in type on
\* the line of its last word.
Meant(r) == FlattenSeq([k \in DOMAIN r |-> Under(Lexemes(r, k), r[k].line)])

Written(lexemes) == [k \in DOMAIN lexemes |-> lexemes[k].written]

\* What follows a tag is a name or a brace, and no word of sign is repeated.
WellFormed(r) ==
    /\ \A k \in 1 .. Len(r) - 1 : Tag(r, k) => r[k + 1].token \in Names \union {Brace}
    /\ \A w \in {"signed", "unsigned"} : Count(Tokens(r), w) <= 1

\* No keyword but const stands right behind a built-in type.
NamesFollowTypes(r) ==
    \A k \in 1 .. Len(r) - 1 : InType(r, k) => r[k + 1].token \notin Keywords \union Tags

\* What follows a type stands on the line of the type's last word.
TypesEndInLine(r) == \A k \in 1 .. Len(r) - 1 : InType(r, k) => r[k + 1].line = r[k].line

\* The file holds the lexemes the tokens stand for, in their order, nothing
\* that was put off being lost or doubled; and each lexeme stands under the
\* line it is on, if no line ends right behind a type.
LexemesKept ==
    status = "run" /\ WellFormed(read) /\ NamesFollowTypes(read) =>
        /\ Written(out) = Written(Meant(read))
        /\ TypesEndInLine(read) => out = Meant(read)
=============================================================================
