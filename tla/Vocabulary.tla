----------------------------- MODULE Vocabulary -----------------------------
(***************************************************************************)
(* The table of ReservedWords beside the TokenWriter, which is given the   *)
(* words the table is for.                                                 *)
(***************************************************************************)
EXTENDS ReservedWords

CONSTANTS Names, Keywords, Punctuation, Tags, MaxTokens, MaxLine

VARIABLES read, queue, postfix_const, prev_lexem, out, status

written == <<read, queue, postfix_const, prev_lexem, out, status>>

W == INSTANCE TokenWriter

\* A token is of one kind, and no tag is called "none".
ASSUME TokenAssumption ==
    LET fixed == W!Specifiers \union {"const", W!Brace}
    IN  /\ Names \intersect (Keywords \union Tags \union fixed) = {}
        /\ Keywords \intersect (Tags \union fixed) = {}
        /\ Tags \intersect (fixed \union {"none"}) = {}

\* Each combination of the words of built-in types, in each order, becomes the
\* type it has in C, and those that have none are refused.
TypesAsInC == W!TypesAsInC

\* The file holds the lexemes that were read, in their order, nothing put off
\* being lost or doubled, and each under its line but behind a type.
LexemesKept == W!LexemesKept
=============================================================================
