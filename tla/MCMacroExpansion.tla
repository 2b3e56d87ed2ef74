-------------------------- MODULE MCMacroExpansion --------------------------
(***************************************************************************)
(* MacroExpansion over chosen macro tables and all short texts, with the   *)
(* expansion C prescribes as a reference; and Substitution, which does     *)
(* what MacroExpansion's Substituted stands for, with two parameters over  *)
(* all short calls and bodies.  Either of them runs while the other rests. *)
(***************************************************************************)
EXTENDS MacroProcessing

CONSTANTS TextLength, CallLength, BodyLength

MCParms == <<"x", "y">>
MCCalls ==
    UNION {[1 .. n -> {"a", ",", "(", ")"}] : n \in 0 .. CallLength}
        \union {<<"a", ",", "b">>, <<"quote", ",", "quote", ",", "b">>}
MCBodies == UNION {[1 .. n -> {"x", "y", "c", " ", "(", "*", "#", "@"}] : n \in 0 .. BodyLength}

MCLetter == {"A", "F", "x", "p"}

Object(replacement) == [call |-> FALSE, payload |-> replacement]
Function(replacement) == [call |-> TRUE, payload |-> replacement]

A == <<"A">>
F == <<"F">>
AF(a, f) == [w \in {A, F} |-> IF w = A THEN a ELSE f]

\* No macro leads back to itself.
Acyclic ==
    {AF(Object(a), Function(f)) :
        a \in {<<>>, <<"x">>, <<"x", ";">>, <<"F">>, <<"F", "(">>, <<"F", "(", "x", ")">>},
        f \in {<<>>, <<"p">>, <<"(", "p", " ", "x", ")">>}}
    \union {AF(Object(<<"x">>), Function(<<"A", " ", "p">>))}

\* The replacement ends in the macro itself, directly or by way of another.
TailCyclic ==
    {[w \in {A} |-> Object(a)] : a \in {<<"A">>, <<"x", " ", "A">>}}
    \union {[w \in {A, F} |-> Object(IF w = A THEN <<"F">> ELSE <<";", "A">>)]}

\* The macro occurs in its own replacement, followed by something else.
InnerCyclic == {[w \in {A} |-> Object(<<"(", "A", ")">>)]}

MCTables == Acyclic \union TailCyclic

MCTexts ==
    {Append(t, ";") : t \in UNION {[1 .. n -> {"A", "F", "x", "(", ")", ",", " "}] : n \in 0 .. TextLength}}

\* Nothing is substituted.
Resting ==
    /\ call = <<>> /\ payload = <<>> /\ args = <<>> /\ i = 1
    /\ buff = <<>> /\ str = <<>> /\ next_state = "no" /\ substitution = "rest"

\* Nothing is left to expand.
Nothing == [w \in {A} |-> Object(<<>>)]
Ended ==
    /\ table = Nothing /\ text = <<>> /\ stack = <<Replay("file", <<>>, "none")>>
    /\ mode = "lexem" /\ word = <<>> /\ def = <<>> /\ def_indirection = 0
    /\ recursion = 0 /\ out = <<>> /\ status = "done"

MCInit == (Init /\ Resting) \/ (Ended /\ Subst!Init)

MCNext ==
    \/ Next /\ UNCHANGED replacing
    \/ Subst!Next /\ UNCHANGED vars

MCSpec == MCInit /\ [][MCNext]_<<vars, replacing>>

Word(s) ==
    LET Letters(n) == \A k \in 1 .. n : s[k] \in Letter
    IN  SubSeq(s, 1, CHOOSE n \in 0 .. Len(s) :
                        Letters(n) /\ (n = Len(s) \/ s[n + 1] \notin Letter))

Blanks(s) == CHOOSE n \in 0 .. Len(s) :
                 (\A k \in 1 .. n : s[k] = " ") /\ (n = Len(s) \/ s[n + 1] # " ")

\* The place of the bracket that closes the call s begins with, or none.
Closing(s) ==
    {k \in DOMAIN s :
        LET Count(m, c) == Cardinality({j \in 1 .. m : s[j] = c})
        IN  /\ s[k] = ")" /\ Count(k, "(") = Count(k, ")")
            /\ \A m \in 1 .. k - 1 : Count(m, "(") # Count(m, ")")}

\* The lexemes of text s with all macros expanded, what an expansion yields
\* being scanned with what follows; "bad" stands for a text with a macro that
\* takes arguments and is given none, too many, or no closing bracket.
RECURSIVE Expansion(_)
Expansion(s) ==
    LET w == Word(s)
        r == SubSeq(s, Len(w) + 1, Len(s))
        behind == SubSeq(r, Blanks(r) + 1, Len(r))
    IN  IF s = <<>> THEN <<>>
        ELSE IF s[1] = " " THEN Expansion(Tail(s))
        ELSE IF w = <<>> THEN << <<s[1]>> >> \o Expansion(Tail(s))
        ELSE IF ~IsMacro(w) THEN <<w>> \o Expansion(r)
        ELSE IF ~table[w].call THEN Expansion(table[w].payload \o r)
        ELSE IF behind = <<>> THEN <<"bad">>
        ELSE IF behind[1] # "(" \/ Closing(behind) = {} THEN <<"bad">>
        ELSE LET k == CHOOSE k \in Closing(behind) : TRUE
                 arg == SubSeq(behind, 2, k - 1)
             IN  IF TwoArguments(arg) /\ table[w].payload # <<>> THEN <<"bad">>
                 ELSE Expansion(Substituted(table[w].payload, arg)
                                    \o <<" ">> \o SubSeq(behind, k + 1, Len(behind)))

Expanded ==
    status = "done" /\ table \in Acyclic /\ ~Contains(Expansion(text), "bad")
        => out = Expansion(text)

\* A letter stands right behind a closing bracket.
Glued(s) == \E k \in 1 .. Len(s) - 1 : s[k] = ")" /\ s[k + 1] \in Letter

\* Scanning a text yields what C prescribes, calls within calls, calls that
\* begin in a replacement and end behind it and blanks before the bracket
\* included, if no word stands right behind a call.
ExpansionExact == Glued(text) \/ Expanded
=============================================================================
