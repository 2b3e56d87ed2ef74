------------------------------- MODULE MCLexer -------------------------------
(* Lexer over all short texts in chosen alphabets, with the lexemes and     *)
(* directives C finds in a text as a reference.                             *)
EXTENDS Lexer

Text(chars, length) == [chars |-> chars, length |-> length]

Macro(call, payload) == [call |-> call, payload |-> payload]
NoMacros == [w \in {} |-> Macro(FALSE, <<>>)]
MCMacros == <<"m">> :> Macro(TRUE, <<"p", " ", "p">>) @@ <<"n">> :> Macro(TRUE, <<>>)
            @@ <<"o">> :> Macro(FALSE, <<"m">>) @@ <<"o", "o">> :> Macro(FALSE, <<".", ".">>)

Plain ==
    {Text({"a", "+", "=", "/", "*", "nl"}, 6), Text({"a", "-", ">", "*", ".", "nl"}, 6),
     Text({"a", "<", ":", "%", "nl"}, 5), Text({"a", "quote", "bslash", "nl", ";"}, 6),
     Text({"a", "apost", "bslash", "nl"}, 6), Text({"0", "x", "a", ".", "nl"}, 6),
     Text({"0", "x", "f", "F", ".", " ", "nl"}, 5), Text({"a", "#", "/", "*", "nl"}, 7),
     Text({"a", "#", "bslash", "/", "nl", " "}, 6), Text({"a", "@", "/", "cr", "nl"}, 6),
     Text({"a", "quote", "#", "/", "nl"}, 7)}
Calls ==
    {Text({"m", "(", ")", "a", "nl"}, 7), Text({"o", "(", ")", "a", "nl"}, 7),
     Text({"m", "n", "o", "(", ")", ",", "nl"}, 6), Text({"o", ".", "/", "*", "nl"}, 6),
     Text({"m", "o", "(", ")", "apost", "nl"}, 6), Text({"m", "(", ")", "0", "+", "a"}, 6)}
MCAlphabets == Plain \union Calls
Comments == {Text({"#", "/", "*", "nl"}, 10)}

From(s, k) == SubSeq(s, k, Len(s))
Upto(s, k) == SubSeq(s, 1, k)

\* The length of the longest prefix of s made of the characters given.
Run(s, chars) == CHOOSE n \in 0 .. Len(s) :
    (\A k \in 1 .. n : s[k] \in chars) /\ (n = Len(s) \/ s[n + 1] \notin chars)

\* The first place at or behind k where s has the text t, or 0.
Place(s, k, t) ==
    LET at == {n \in k .. Len(s) - Len(t) + 1 : SubSeq(s, n, n + Len(t) - 1) = t}
    IN  IF at = {} THEN 0 ELSE CHOOSE n \in at : \A m \in at : n <= m

\* The text with its spliced lines put together.
IsSplice(t, k) == k \in 1 .. Len(t) - 1 /\ t[k] = "bslash" /\ t[k + 1] = "nl"
Spliced(t) ==
    LET kept == SelectSeq([k \in 1 .. Len(t) |-> k], LAMBDA k : ~IsSplice(t, k) /\ ~IsSplice(t, k - 1))
    IN  [k \in 1 .. Len(kept) |-> t[kept[k]]]

\* What s is without the comment it begins with.
PastComment(s) ==
    LET end == IF s[2] = "/" THEN Place(s, 2, <<"nl">>) ELSE Place(s, 3, <<"*", "/">>)
    IN  IF end = 0 THEN <<>> ELSE From(s, IF s[2] = "/" THEN end ELSE end + 2)

BeginsComment(s) == Len(s) > 1 /\ s[1] = "/" /\ s[2] \in {"/", "*"}

\* The end of the literal that s begins with, on its line, or 0.
Closed(s) ==
    LET Escaped(k) == LET n == CHOOSE n \in 0 .. k - 1 :
                              (\A m \in k - n .. k - 1 : s[m] = "bslash") /\ s[k - n - 1] # "bslash"
                      IN  n % 2 = 1
        ends == {k \in 2 .. Len(s) :
                    s[k] = s[1] /\ ~Escaped(k) /\ \A m \in 2 .. k : s[m] # "nl"}
    IN  IF s = <<>> \/ s[1] \notin {"quote", "apost"} \/ ends = {} THEN 0
        ELSE CHOOSE k \in ends : \A m \in ends : k <= m

\* The directive s begins with: its text but for comments and blanks, and what
\* follows it.
RECURSIVE DirectiveOf(_, _)
DirectiveOf(s, text) ==
    LET literal == Closed(s)
    IN  CASE s = <<>> -> <<text, <<>>>>
          [] s # <<>> /\ s[1] = "nl" -> <<text, From(s, 2)>>
          [] BeginsComment(s) -> DirectiveOf(PastComment(s), text)
          [] literal > 0 -> DirectiveOf(From(s, literal + 1), text \o Upto(s, literal))
          [] literal = 0 /\ s # <<>> /\ s[1] # "nl" /\ ~BeginsComment(s) ->
               DirectiveOf(From(s, 2), IF s[1] = " " THEN text ELSE Append(text, s[1]))

\* Numbers of C, without exponents and the suffixes of integers.
IsNumber(s) ==
    LET hex == Len(s) > 1 /\ s[1] = "0" /\ s[2] = "x"
        digits == IF hex THEN 2 + Run(From(s, 3), Digits \union {"a", "b", "e", "f", "F"}) ELSE Run(s, Digits)
        point == ~hex /\ digits < Len(s) /\ s[digits + 1] = "."
        whole == IF point THEN digits + 1 + Run(From(s, digits + 2), Digits) ELSE digits
    IN  /\ IF hex THEN digits > 2 ELSE whole > (IF point THEN 1 ELSE 0)
        /\ From(s, whole + 1) \in IF point THEN {<<>>, <<"f">>, <<"F">>} ELSE {<<>>}

Triples == {<<".", ".", ".">>, <<"-", ">", "*">>}
Digraphs == {<<"<", ":">>, <<":", ">">>, <<"<", "%">>, <<"%", ">">>, <<"%", ":">>}
Munch(s) ==
    CASE Len(s) > 2 /\ Upto(s, 3) \in Triples -> 3
      [] Len(s) > 1 /\ Upto(s, 2) \in Pairs \union Digraphs \union {<<"/", "=">>, <<".", "*">>} -> 2
      [] OTHER -> 1

Bad == <<[type |-> "bad", text |-> <<>>]>>

\* The lexemes and directives of s in C, without the lexemes Primula does not
\* have; "other" is a character that is no lexeme of C, "bad" a number or a
\* literal that is none.  start: no lexeme stands before s on its line.
RECURSIVE Items(_, _)
Items(s, start) ==
    LET c == s[1]
        Item(type, n) == Lexeme(type, Upto(s, n)) \o Items(From(s, n + 1), FALSE)
        pp == Run(s, Letters \union Digits \union {"."})
        IsNumeral == c \in Digits \/ (c = "." /\ Len(s) > 1 /\ s[2] \in Digits)
    IN  CASE s = <<>> -> <<>>
          [] s # <<>> /\ c \in {" ", "cr"} -> Items(From(s, 2), start)
          [] s # <<>> /\ c = "nl" -> Items(From(s, 2), TRUE)
          [] BeginsComment(s) -> Items(PastComment(s), start)
          [] s # <<>> /\ c = "#" /\ start ->
               LET d == DirectiveOf(From(s, 2), <<>>)
               IN  Lexeme("directive", d[1]) \o Items(d[2], TRUE)
          [] s # <<>> /\ (c \in {"bslash", "@"} \/ (c = "#" /\ ~start)) -> Item("other", 1)
          [] s # <<>> /\ c \in Letters -> Item("word", Run(s, Letters \union Digits))
          [] s # <<>> /\ IsNumeral ->
               IF ~IsNumber(Upto(s, pp)) THEN Bad
               ELSE Item(IF Contains(Upto(s, pp), ".") THEN "float" ELSE "integer", pp)
          [] s # <<>> /\ c \in {"quote", "apost"} ->
               LET end == Closed(s)
                   text == SubSeq(s, 2, end - 1)
               IN  IF end = 0 \/ (c = "apost" /\ text = <<>>) THEN Bad
                   ELSE Lexeme(IF c = "quote" THEN "string" ELSE "character", text)
                        \o Items(From(s, end + 1), FALSE)
          [] s # <<>> /\ ~BeginsComment(s) /\ ~IsNumeral
                /\ c \in Singles \union Openers \union {"/", "."} -> Item("operator", Munch(s))

\* Neighbouring strings are one.
Joined(items) ==
    FoldLeft(LAMBDA done, item :
        IF done # <<>> /\ item.type = "string" /\ Last(done).type = "string"
        THEN [done EXCEPT ![Len(done)].text = @ \o item.text] ELSE Append(done, item), <<>>, items)

\* Floating numbers are compared without their suffix.
Unsuffixed(items) ==
    [k \in DOMAIN items |->
        IF items[k].type = "float"
        THEN [items[k] EXCEPT !.text = SelectSeq(@, LAMBDA c : c \notin {"f", "F"})] ELSE items[k]]

Meant(t) == Joined(Items(Spliced(t), TRUE))
Has(t, types) == SelectSeq(Meant(t), LAMBDA i : i.type \in types) # <<>>
AtLineEnd == read # <<>> /\ Last(read) = "nl" /\ pending = <<>>

IsDirective(item) == item.type = "directive"
Texts(items) == [k \in DOMAIN items |-> items[k].text]
NoBlanks(texts) == [k \in DOMAIN texts |-> SelectSeq(texts[k], LAMBDA c : c # " ")]
Holds(t, part) == Place(t, 1, part) # 0
-----------------------------------------------------------------------------
(* Where the scanner departs from C.                                       *)

\* A word that may be a macro: MacroExpansion compares these with C.
Replaced(t) == ToSet(t) \intersect {"m", "n", "o"} # {}

\* A comment stands before a '#' on its line, or a string that no lexeme
\* follows before it: the '#' stops the scanner.
Odd(t) ==
    \E k \in 1 .. Len(t), m \in 1 .. Len(t) :
        /\ m < k /\ t[k] = "#"
        /\ \/ t[m] = "/" /\ ~Contains(SubSeq(t, m, k), "nl")
           \/ t[m] = "quote" /\ ToSet(SubSeq(t, m + 1, k - 1)) \subseteq {" ", "nl"}

\* Within a comment a line ends behind an asterisk, and the next one begins
\* with a slash: the comment ends.
StarAtLineEnd(t) ==
    \E k \in 1 .. Len(t), m \in 1 .. Len(t) :
        /\ k + 1 < m /\ t[k] = "*" /\ t[m - 1] = "nl" /\ t[m] = "/"
        /\ ToSet(SubSeq(t, k, m - 1)) \subseteq {"*", "nl"}

\* A line is continued that is no directive, or behind a slash: the scanner
\* knows continued lines in the text of directives only.
SplicedCode(t) ==
    \E k \in 1 .. Len(t) :
        /\ IsSplice(t, k)
        /\ LET starts == {m \in 1 .. k : (m = 1 \/ t[m - 1] = "nl") /\ ~IsSplice(t, m - 2)}
               line == SubSeq(t, CHOOSE m \in starts : \A n \in starts : n <= m, k)
               blanks == Run(line, {" "})
           IN  line[blanks + 1] # "#" \/ Contains(line, "/")

\* A number begins with its point; it is scanned as an operator and a number.
LeadingPoint(t) == \E i \in ToSet(Meant(t)) : i.type = "float" /\ i.text[1] = "."

\* A character constant of several characters: -8.
SeveralCharacters(t) ==
    \E i \in ToSet(Meant(t)) :
        i.type = "character" /\ Len(i.text) > (IF i.text[1] = "bslash" THEN 2 ELSE 1)

\* Two points that no third one follows: -9.
TwoPoints(t) ==
    \E k \in 1 .. Len(t) :
        /\ t[k] = "." /\ (k = 1 \/ t[k - 1] # ".")
        /\ Run(From(t, k), {"."}) % 3 = 2

\* Other spellings of brackets and of '#', which the scanner does not have.
Digraph(t) == \E d \in Digraphs : Holds(t, d)

\* In a directive a backslash stands before something else than a line feed:
\* both are taken into its text, even the slash of a comment or another
\* backslash.
BackslashInDirective(t) == Contains(t, "#") /\ \E c \in {"/", "bslash"} : Holds(t, <<"bslash", c>>)

\* In a directive a literal holds what looks like a comment.
CommentInLiteral(t) ==
    \E i \in ToSet(Meant(t)) : IsDirective(i) /\ Contains(i.text, "quote") /\ Contains(i.text, "/")

\* A comment in skipped text ends with an asterisk that another one precedes:
\* it never ends.
StarsInSkipped(t) == skipped /\ Holds(t, <<"*", "*">>)

\* In skipped text a '#' stands behind something else on its line, or a '#' or
\* a slash in a literal: both are taken for what they are elsewhere.
OddInSkipped(t) ==
    skipped /\ \E i \in ToSet(Meant(t)) :
        \/ i.type = "other"
        \/ i.type \in {"string", "character"} /\ ToSet(i.text) \intersect {"#", "/"} # {}
-----------------------------------------------------------------------------
NotLexemes(t) == Has(t, {"bad", "other"})

\* At the end of a line that is not in the middle of a comment or of strings
\* the lexemes of C have been emitted.
LexemesSeen ==
    AtLineEnd /\ status = "run" /\ global_state = "expression" =>
        \/ NotLexemes(read)
        \/ Unsuffixed(out) = Unsuffixed(SelectSeq(Meant(read), LAMBDA i : ~IsDirective(i)))

Departs(t) ==
    \/ Replaced(t) \/ Odd(t) \/ StarAtLineEnd(t) \/ SplicedCode(t) \/ LeadingPoint(t)
    \/ SeveralCharacters(t) \/ TwoPoints(t) \/ Digraph(t) \/ BackslashInDirective(t)
    \/ CommentInLiteral(t)

\* Text that is not skipped is taken apart as in C, comments left out and
\* operators as long as possible, up to the departures named above, and a text
\* in which the scanner stopped is not of C, whatever character comes next.
LexemesExact ==
    ~skipped =>
        /\ LexemesSeen \/ Departs(read)
        /\ status # "run" =>
             \A t \in {read} \union {Append(read, c) : c \in alphabet.chars} : NotLexemes(t) \/ Departs(t)

\* Directives are handed over one by one, each with its text, whether the
\* line was continued or had comments in it and whether text was skipped.
DirectivesSeen ==
    AtLineEnd /\ status = "run" /\ global_state \in {"expression", "skip_preprocessor"} =>
        \/ Has(read, {"bad"})
        \/ NoBlanks(directives) = Texts(SelectSeq(Meant(read), IsDirective))

\* The directives of C, up to the departures named above.
DirectivesExact ==
    \/ DirectivesSeen \/ Departs(read) \/ StarsInSkipped(read) \/ OddInSkipped(read)

\* In skipped text a '#' is found, or not found for being in a comment, as in
\* text that is not skipped ("Keep parser consistent on # inside comments",
\* lexic.cc:862).
SkippedConsistent == DirectivesSeen \/ Odd(read) \/ StarAtLineEnd(read) \/ OddInSkipped(read)
=============================================================================
