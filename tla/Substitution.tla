---------------------------- MODULE Substitution ----------------------------
(***************************************************************************)
(* substitute_def_expression: the text between the parentheses of a macro  *)
(* call is split into arguments, the argument list of the macro into       *)
(* parameters, and the replacement is copied with its parameters replaced. *)
(*                                                                         *)
(* A text is a sequence of symbols: names of one character, blanks,        *)
(* brackets, commas, quotes, '#', '@', and operators.  One step copies one *)
(* character of the replacement.                                           *)
(***************************************************************************)
EXTENDS Integers, Sequences, SequencesExt, FiniteSets

CONSTANTS
    Parms,   \* the parameters of the macro, a sequence of different names
    Calls,   \* texts between the parentheses of a call
    Bodies   \* replacements

VARIABLES
    call, payload,   \* what is substituted into what
    args,            \* the arguments split from the call
    i, buff, str,    \* position, the word being read, the result
    next_state,      \* which of #, #@ and ## was read
    status           \* "copy", "done", or the failure that ended it

vars == <<call, payload, args, i, buff, str, next_state, status>>

\* Mutant: brackets do not protect commas.
SplitEverywhere(text) ==
    FoldLeft(LAMBDA s, c : IF c = "," THEN Append(s, <<>>)
                           ELSE [s EXCEPT ![Len(s)] = Append(@, c)], << <<>> >>, text)

\* One turn of the split loop.  Its state: the arguments so far, the last of
\* them open, whether a string is open, and the depth of brackets, which count
\* even in a string.
Turn(s, c) ==
    LET sc == IF c = "quote" THEN ~s.sc ELSE s.sc
        depth == s.depth + (IF c = "(" THEN 1 ELSE IF c = ")" THEN -1 ELSE 0)
    IN  [sc |-> sc, depth |-> depth,
         args |-> IF depth # 0 \/ sc \/ c # ","
                  THEN [s.args EXCEPT ![Len(s.args)] = Append(@, c)]
                  ELSE Append(s.args, <<>>)]

Split(text) ==
    LET after[k \in 0 .. Len(text)] ==
            IF k = 0 THEN [sc |-> FALSE, depth |-> 0, args |-> << <<>> >>]
            ELSE Turn(after[k - 1], text[k])
    IN  after[Len(text)].args

Init ==
    /\ call \in Calls
    /\ payload \in Bodies
    /\ args = Split(call)
    /\ i = 1
    /\ buff = <<>>
    /\ str = <<>>
    /\ next_state = "no"
    /\ status = IF Len(Split(call)) = Len(Parms) THEN "copy" ELSE "-950"

\* The character at position k; the string ends with a zero.
At(k) == IF k <= Len(payload) THEN payload[k] ELSE "zero"

Delimiters == {"(", ")", ",", " "}

\* The characters that do not end a word are collected, operators included.
Collect ==
    /\ At(i) \notin Delimiters \union {"#", "zero"}
    /\ buff' = Append(buff, At(i))
    /\ i' = i + 1
    /\ UNCHANGED <<str, next_state, status>>

\* What '#' announces depends on the character behind it.
Announced ==
    IF At(i) # "#" THEN next_state
    ELSE CASE At(i + 1) = "#" -> "merg"
           [] At(i + 1) = "@" -> "chr"
           [] OTHER -> "txt"

\* Mutant: a character is lost behind every parameter.
SkipAlways(mark) == IF mark = "no" THEN 1 ELSE 2

\* How many characters are skipped once a parameter was replaced.
Skip(mark) == CASE mark = "txt" -> 1 [] mark \in {"chr", "merg"} -> 2 [] OTHER -> 0

Replaced(mark, arg) ==
    CASE mark = "txt" -> <<"quote">> \o arg \o <<"quote">>
      [] mark = "chr" -> IF arg = <<>> THEN <<"quote">> ELSE <<"quote", arg[1], "quote">>
      [] OTHER -> arg

\* The character at position k as the code reads it: what lies behind the end
\* of the string is a zero or left over from an older definition.
Read(k) == IF k <= Len(payload) + 1 THEN {At(k)} ELSE {"zero", "stale"}

\* The text a word adds to the result: the word or its argument, and the
\* character behind it unless a mark still waits for its parameter.
Output(word, mark, c) ==
    IF mark \in {"no", "merg"} /\ c # "zero" THEN Append(word, c) ELSE word

\* The word that ends is a parameter.
EndParameter ==
    \E k \in DOMAIN Parms :
        LET at == i + Skip(Announced)
        IN  /\ buff = <<Parms[k]>>
            /\ \E c \in Read(at) : str' = str \o Output(Replaced(Announced, args[k]), "no", c)
            /\ i' = at + 1
            /\ next_state' = "no"
            /\ status' = CASE At(i) = "zero" -> "done"
                           [] At(i) # "zero" /\ at > Len(payload) -> "overrun"
                           [] OTHER -> "copy"

\* The word that ends is none, or there is no word.
EndOther ==
    /\ \A k \in DOMAIN Parms : buff # <<Parms[k]>>
    /\ str' = str \o Output(buff, Announced, At(i))
    /\ i' = i + 1
    /\ next_state' = Announced
    /\ status' = IF At(i) = "zero" THEN "done" ELSE "copy"

\* A delimiter, a '#' or the end of the replacement ends a word.  The skip
\* behind a replaced parameter may pass the end of the string, and the loop
\* then reads on in what follows it in memory.
EndWord ==
    /\ At(i) \in Delimiters \union {"#", "zero"}
    /\ buff' = <<>>
    /\ EndParameter \/ EndOther

Next ==
    /\ status = "copy"
    /\ Collect \/ EndWord
    /\ UNCHANGED <<call, payload, args>>

Spec == Init /\ [][Next]_vars
-----------------------------------------------------------------------------
\* What the replacement of a parameter by its argument is in C.
Meant(text) ==
    FlattenSeq([k \in DOMAIN text |->
        IF \E p \in DOMAIN Parms : text[k] = Parms[p]
        THEN args[CHOOSE p \in DOMAIN Parms : text[k] = Parms[p]]
        ELSE <<text[k]>>])

Has(text, c) == \E k \in DOMAIN text : text[k] = c

IsName(c) == c \notin Delimiters \union {"#", "@", "quote", "zero", "*"}

\* Every name of the replacement stands between delimiters.
Delimited(text) ==
    /\ \A c \in {"#", "@"} : ~Has(text, c)
    /\ \A k \in 1 .. Len(text) - 1 :
          /\ IsName(text[k]) => text[k + 1] \in Delimiters
          /\ IsName(text[k + 1]) => text[k] \in Delimiters

\* The depth of brackets in text behind position k.
Depth(text, k) ==
    Cardinality({j \in 1 .. k : text[j] = "("}) - Cardinality({j \in 1 .. k : text[j] = ")"})

\* The arguments of a call are what its commas outside brackets separate:
\* joined by commas they are the call again, none has a comma of its own
\* outside brackets, and brackets balance in each but the last.
SplitsAtOuterCommas ==
    ~Has(call, "quote") =>
        /\ FlattenSeq([k \in DOMAIN args |->
               IF k = Len(args) THEN args[k] ELSE Append(args[k], ",")]) = call
        /\ \A k \in DOMAIN args, c \in 1 .. Len(call) :
               c \in DOMAIN args[k] /\ args[k][c] = "," => Depth(args[k], c) # 0
        /\ \A k \in 1 .. Len(args) - 1 : Depth(args[k], Len(args[k])) = 0

\* A replacement whose names stand between delimiters is copied with every
\* parameter replaced, the last word included, and nothing else changed.
DelimitedReplaced == status = "done" /\ Delimited(payload) => str = Meant(payload)

\* Only a '#' in the replacement can make the loop read past its end.
OnlyMarksOverrun == status = "overrun" => Has(payload, "#")
=============================================================================
