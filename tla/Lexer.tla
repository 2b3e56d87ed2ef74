-------------------------------- MODULE Lexer --------------------------------
(***************************************************************************)
(* global_state_machine as a scanner: one step reads one character and     *)
(* moves flow->global_state.  What a directive does is left to             *)
(* Conditionals: here its handler answers either that scanning goes on or  *)
(* that text is to be skipped.  The macros are given; the replacement of   *)
(* one is scanned character by character before the text goes on.          *)
(* MacroExpansion has the nesting of these replays as a stack of calls and *)
(* the counter that stops 50 of them; here they lie flat in "pending".     *)
(*                                                                         *)
(* Characters: one-letter strings stand for themselves; "nl", "cr",        *)
(* "quote", "apost" and "bslash" for line feed, carriage return, '"',      *)
(* an apostrophe and a backslash.  Suffixes U and L of numbers are left    *)
(* out.                                                                    *)
(***************************************************************************)
EXTENDS MacroCalls

CONSTANTS
    Alphabets,   \* the characters a text is written in, with its length
    Macros       \* the macros: functions from words to [call, payload]

\* What ends a replay in "pending": one of a macro with arguments, or of one
\* without together with the character that ended its name.
Marks == {"endcall", "endobject"}

\* A replacement stands on one line.
ASSUME CharacterAssumption ==
    /\ \A a \in Alphabets : \A c \in a.chars : c \in STRING \ Marks
    /\ \A w \in DOMAIN Macros :
          /\ Macros[w].call \in BOOLEAN
          /\ Macros[w].payload \in Seq(STRING \ (Marks \union {"nl"}))

\* No macro leads back to itself, and tails do not nest up to the counter.
ASSUME NestingAssumption ==
    LET Within(v, w) == \E k, n \in DOMAIN Macros[w].payload : SubSeq(Macros[w].payload, k, n) = v
        N == Cardinality(DOMAIN Macros)
    IN  /\ N < 50
        /\ \E rank \in [DOMAIN Macros -> 1 .. N] :
              \A v, w \in DOMAIN Macros : Within(v, w) => rank[v] < rank[w]

Letters == {"a", "b", "e", "f", "x", "F", "m", "n", "o", "p"}
Digits == {"0", "1"}
Singles == {"{", "}", "(", ")", ";", "[", "]", ",", "?", "~"}

\* Operators of two characters, but for those that begin with '.' or '/'.
Pairs ==
    {<<c, "=">> : c \in {"=", "*", "!", "+", "-", ">", "<", "&", "^", "|", "%"}}
    \union {<<c, c>> : c \in {":", "+", "-", ">", "<", "&", "|"}} \union {<<"-", ">">>}
Openers == {":", "=", "*", "!", "+", "-", ">", "<", "&", "^", "|", "%"}

VARIABLES
    alphabet, read,   \* the text so far
    pending,          \* what the replays in progress are still to scan
    def, def_indirection,   \* the macro whose call is read, its open brackets
    lost,             \* see Forgets: never reset
    global_state,
    current_lexem, number_type,
    line_number,
    preprocessor_buffer, directives,   \* the directive that is read, and all before
    status_quo,       \* what the skipped text is in the middle of
    out,              \* lexemes given to append_lexem
    skipped,          \* text was skipped: the answer of some directive
    status            \* "run", an error code, or "thrown"

scan == <<global_state, current_lexem, number_type, line_number, out, status>>
prep == <<preprocessor_buffer, directives, skipped>>
calls == <<def, def_indirection>>
vars == <<alphabet, read, pending, calls, lost, scan, prep, status_quo>>

Init ==
    /\ alphabet \in Alphabets
    /\ read = <<>>
    /\ pending = <<>>
    /\ def = <<>>
    /\ def_indirection = 0
    /\ lost = FALSE
    /\ global_state = "expression"
    /\ current_lexem = <<>>
    /\ number_type = "decimal"
    /\ line_number = 1
    /\ preprocessor_buffer = <<>>
    /\ directives = <<>>
    /\ status_quo = "normal_skip"
    /\ out = <<>>
    /\ skipped = FALSE
    /\ status = "run"

Lexeme(type, text) == <<[type |-> type, text |-> text]>>
Operator(text) == Lexeme("operator", text)

\* The step leaves everything but the mode, and emits what is given.
Enter(state, lexemes) ==
    /\ global_state' = state
    /\ out' = out \o lexemes
    /\ current_lexem' = <<>>
    /\ UNCHANGED <<number_type, line_number, status>>

Keep(state, text) ==
    /\ global_state' = state
    /\ current_lexem' = text
    /\ UNCHANGED <<number_type, line_number, out, status>>

Stop(code) ==
    /\ status' = code
    /\ UNCHANGED <<global_state, current_lexem, number_type, line_number, out>>

NewLine(state) ==
    /\ global_state' = state
    /\ line_number' = line_number + 1
    /\ UNCHANGED <<current_lexem, number_type, out, status>>

\* "reparse": the lexemes given are emitted and ch begins a new one.
Begin(ch, lexemes) ==
    LET Goto(state) == Enter(state, lexemes)
    IN  \/ /\ ch \in Letters \union Digits
           /\ global_state' = (IF ch \in Digits THEN "numeric" ELSE "inside_lexem")
           /\ number_type' = (IF ch \in Digits THEN "decimal" ELSE number_type)
           /\ current_lexem' = <<ch>>
           /\ out' = out \o lexemes
           /\ UNCHANGED <<line_number, status>>
        \/ ch \in {" ", "cr"} /\ Goto("delimiter")
        \/ /\ ch = "nl"
           /\ global_state' = "expression"
           /\ line_number' = line_number + 1
           /\ current_lexem' = <<>>
           /\ out' = out \o lexemes
           /\ UNCHANGED <<number_type, status>>
        \/ ch \in Singles /\ Enter("lexem", lexemes \o Operator(<<ch>>))
        \/ /\ ch \in Openers
           /\ global_state' = "operator"
           /\ current_lexem' = <<ch>>
           /\ out' = out \o lexemes
           /\ UNCHANGED <<number_type, line_number, status>>
        \/ ch = "/" /\ Goto("parse_slash")
        \/ ch = "." /\ Goto("dot")
        \/ ch = "quote" /\ Goto("string")
        \/ ch = "apost" /\ Goto("apost_begin")
        \/ ch = "@" /\ Goto("linear_comment")
        \/ /\ ch \in {"#", "bslash"}
           /\ status' = "thrown"
           /\ out' = out \o lexemes
           /\ current_lexem' = <<>>
           /\ UNCHANGED <<global_state, number_type, line_number>>

\* The beginning of a line; '#' is in Directive.
Expression(ch) ==
    /\ global_state = "expression"
    /\ \/ ch = "/" /\ Enter("parse_slash", <<>>)
       \/ ch = "nl" /\ NewLine("expression")
       \/ ch = " " /\ Enter("expression", <<>>)
       \/ ch \notin {"/", "nl", "#", " "} /\ Begin(ch, <<>>)

\* Nothing waits, or a letter takes the place of what a macro left waiting.
Delimiter(ch) ==
    /\ global_state \in {"lexem", "delimiter"}
    /\ current_lexem = <<>> \/ ch \in Letters
    /\ Begin(ch, <<>>)

\* A digit goes on with what a macro left.
AppendDigit(ch) ==
    /\ global_state = "lexem" /\ current_lexem # <<>> /\ ch \in Digits
    /\ global_state' = "numeric"
    /\ number_type' = "decimal"
    /\ current_lexem' = Append(current_lexem, ch)
    /\ UNCHANGED <<line_number, out, status>>

InsideLexem(ch) ==
    /\ global_state = "inside_lexem" /\ ch \in Letters \union Digits
    /\ Keep("inside_lexem", Append(current_lexem, ch))

\* A word has ended; what the replay of a macro left behind counts as one.
WordEnds(ch) ==
    /\ global_state \in {"lexem", "inside_lexem"}
    /\ current_lexem # <<>> /\ ch \notin Letters \union Digits

PlainWord(ch) ==
    /\ WordEnds(ch) /\ current_lexem \notin DOMAIN Macros
    /\ Begin(ch, Lexeme("word", current_lexem))

\* Mutant: "++" is two lexemes.
SecondApart(ch) ==
    /\ global_state = "operator"
    /\ IF ch = "=" THEN Enter("lexem", Operator(<<current_lexem[1], ch>>))
       ELSE Begin(ch, Operator(<<current_lexem[1]>>))

\* The second character of an operator; the code has a mode for each first one.
Second(ch) ==
    /\ global_state = "operator"
    /\ LET op == <<current_lexem[1], ch>>
       IN  CASE op = <<"-", ">">> -> Enter("check_ptr_to_member", <<>>)
             [] op # <<"-", ">">> /\ op \in Pairs -> Enter("lexem", Operator(op))
             [] OTHER -> Begin(ch, Operator(<<current_lexem[1]>>))

PointerToMember(ch) ==
    /\ global_state = "check_ptr_to_member"
    /\ IF ch = "*" THEN Enter("lexem", Operator(<<"-", ">", "*">>))
       ELSE Begin(ch, Operator(<<"-", ">">>))

Dot(ch) ==
    \/ /\ global_state = "dot"
       /\ CASE ch = "." -> Enter("two_dots", <<>>)
            [] ch = "*" -> Enter("lexem", Operator(<<".", "*">>))
            [] OTHER -> Begin(ch, Operator(<<".">>))
    \/ /\ global_state = "two_dots"
       /\ IF ch = "." THEN Enter("lexem", Operator(<<".", ".", ".">>)) ELSE Stop("-9")

Apostrophe(ch) ==
    \/ /\ global_state = "apost_begin"
       /\ CASE ch = "apost" /\ current_lexem = <<>> -> Stop("-7")
            [] ch = "bslash" /\ current_lexem = <<>> -> Keep("apost_begin", <<ch>>)
            [] OTHER -> Keep("apost_end", Append(current_lexem, ch))
    \/ /\ global_state = "apost_end"
       /\ IF ch = "apost" THEN Enter("lexem", Lexeme("character", current_lexem)) ELSE Stop("-8")

String(ch) ==
    \/ /\ global_state = "string"
       /\ CASE ch = "quote" -> Keep("try_concatenate_strings", current_lexem)
            [] ch = "bslash" -> Keep("screening", Append(current_lexem, ch))
            [] OTHER -> Keep("string", Append(current_lexem, ch))
    \/ /\ global_state = "screening"
       /\ Keep("string", Append(current_lexem, ch))

\* Behind a string: another string is appended to it.
Concatenate(ch) ==
    /\ global_state = "try_concatenate_strings"
    /\ CASE ch \in {" ", "cr", "nl"} -> Keep("try_concatenate_strings", current_lexem)
         [] ch = "quote" -> Keep("string", current_lexem)
         [] OTHER -> Begin(ch, Lexeme("string", current_lexem))

\* A number and its letters.  A capital A to F belongs to every number, a
\* small one only to one that began with a digit and x.
Numeric(ch) ==
    LET Digit == \/ ch \in Digits \union {"F"}
                 \/ number_type = "hexadecimal" /\ ch \in {"a", "b", "e", "f"}
        Grow(type) == /\ current_lexem' = Append(current_lexem, ch)
                      /\ number_type' = type
                      /\ UNCHANGED <<global_state, line_number, out, status>>
        Ended == Lexeme(IF number_type = "float" THEN "float" ELSE "integer", current_lexem)
    IN  /\ global_state = "numeric"
        /\ CASE Digit -> Grow(number_type)
             [] ch = "x" /\ Len(current_lexem) = 1 -> Grow("hexadecimal")
             [] ch = "." /\ number_type = "decimal" -> Grow("float")
             [] ch = "f" /\ number_type # "hexadecimal" -> Enter("delimiter", Ended)
             [] OTHER -> Begin(ch, Ended)

Slash(ch) ==
    /\ global_state = "parse_slash"
    /\ CASE ch = "=" -> Enter("lexem", Operator(<<"/", "=">>))
         [] ch = "/" -> Enter("linear_comment", <<>>)
         [] ch = "*" -> Enter("inside_comment", <<>>)
         [] OTHER -> Begin(ch, Operator(<<"/">>))

\* Mutant: a second asterisk is taken for the inside of the comment.
CommentOfPairs(ch) ==
    \/ /\ global_state = "inside_comment"
       /\ CASE ch = "nl" -> NewLine("inside_comment")
            [] ch = "*" -> Enter("checking_comment", <<>>)
            [] OTHER -> Enter("inside_comment", <<>>)
    \/ /\ global_state = "checking_comment"
       /\ IF ch = "/" THEN Enter("lexem", <<>>) ELSE Enter("inside_comment", <<>>)

\* A comment, up to an asterisk and a slash; a line feed may come between.
Comment(ch) ==
    \/ /\ global_state = "inside_comment"
       /\ CASE ch = "nl" -> NewLine("inside_comment")
            [] ch = "*" -> Enter("checking_comment", <<>>)
            [] OTHER -> Enter("inside_comment", <<>>)
    \/ /\ global_state = "checking_comment"
       /\ CASE ch = "/" -> Enter("lexem", <<>>)
            [] ch = "nl" -> NewLine("checking_comment")
            [] ch = "*" -> Enter("checking_comment", <<>>)
            [] OTHER -> Enter("inside_comment", <<>>)

LinearComment(ch) ==
    \/ /\ global_state = "linear_comment"
       /\ CASE ch = "cr" -> Enter("caret_feed", <<>>)
            [] ch = "nl" -> NewLine("expression")
            [] OTHER -> Enter("linear_comment", <<>>)
    \/ /\ global_state = "caret_feed"
       /\ IF ch = "nl" THEN NewLine("expression") ELSE Enter("caret_feed", <<>>)

Scan(ch) ==
    /\ \/ Expression(ch) \/ Delimiter(ch) \/ AppendDigit(ch) \/ InsideLexem(ch)
       \/ PlainWord(ch) \/ Second(ch)
       \/ PointerToMember(ch) \/ Dot(ch) \/ Apostrophe(ch) \/ String(ch)
       \/ Concatenate(ch) \/ Numeric(ch) \/ Slash(ch) \/ Comment(ch) \/ LinearComment(ch)
    /\ UNCHANGED <<prep, status_quo>>

\* "do_preprocessor": ch belongs to the directive text, or ends it.
DoPreprocessor(ch, text) ==
    CASE ch = "/" -> /\ Enter("is_preprocessor_comment", <<>>)
                     /\ preprocessor_buffer' = text
                     /\ UNCHANGED <<directives, skipped>>
      [] ch = "bslash" -> /\ Enter("do_screen_preprocessor", <<>>)
                          /\ preprocessor_buffer' = text
                          /\ UNCHANGED <<directives, skipped>>
      [] ch = "nl" -> /\ \E state \in {"expression", "skip_preprocessor"} :
                           /\ NewLine(state)
                           /\ skipped' = (skipped \/ state = "skip_preprocessor")
                      /\ directives' = Append(directives, text)
                      /\ preprocessor_buffer' = <<>>
      [] OTHER -> /\ Enter("do_preprocessor", <<>>)
                  /\ preprocessor_buffer' = Append(text, ch)
                  /\ UNCHANGED <<directives, skipped>>

Collected(state) == Enter(state, <<>>) /\ UNCHANGED prep

DirectiveComment(ch) ==
    \/ /\ global_state = "is_preprocessor_comment"
       /\ CASE ch = "/" -> Collected("prep_line_comment")
            [] ch = "*" -> Collected("prep_block_comment")
            [] OTHER -> DoPreprocessor(ch, Append(preprocessor_buffer, "/"))
    \/ /\ global_state = "prep_line_comment"
       /\ IF ch = "nl" THEN DoPreprocessor(ch, preprocessor_buffer)
          ELSE Collected("prep_line_comment")
    \/ /\ global_state = "prep_block_comment"
       /\ CASE ch = "nl" -> NewLine("prep_block_comment") /\ UNCHANGED prep
            [] ch = "*" -> Collected("prep_check_comment")
            [] OTHER -> Collected("prep_block_comment")
    \/ /\ global_state = "prep_check_comment"
       /\ CASE ch = "/" -> Collected("do_preprocessor")
            [] ch = "nl" -> NewLine("prep_check_comment") /\ UNCHANGED prep
            [] ch = "*" -> Collected("prep_check_comment")
            [] OTHER -> Collected("prep_block_comment")

\* Behind a backslash: a line feed continues the directive.
ScreenPreprocessor(ch) ==
    /\ global_state = "do_screen_preprocessor"
    /\ CASE ch = "cr" -> Collected("do_screen_preprocessor")
         [] ch = "nl" -> NewLine("do_preprocessor") /\ UNCHANGED prep
         [] OTHER -> /\ Enter("do_preprocessor", <<>>)
                     /\ preprocessor_buffer' = preprocessor_buffer \o <<"bslash", ch>>
                     /\ UNCHANGED <<directives, skipped>>

Hash(ch) ==
    /\ global_state = "expression" /\ ch = "#"
    /\ Enter("do_preprocessor", <<>>)
    /\ preprocessor_buffer' = <<>>
    /\ UNCHANGED <<directives, skipped>>

Directive(ch) ==
    /\ \/ Hash(ch)
       \/ global_state = "do_preprocessor" /\ DoPreprocessor(ch, preprocessor_buffer)
       \/ DirectiveComment(ch) \/ ScreenPreprocessor(ch)
    /\ UNCHANGED status_quo

\* Mutant: a line comment never ends.
SkippingLines(ch) ==
    CASE status_quo = "normal_skip" /\ ch = "/" -> "is_comment"
      [] status_quo = "is_comment" ->
           (CASE ch = "/" -> "line_comment" [] ch = "*" -> "block_comment" [] OTHER -> "normal_skip")
      [] status_quo = "block_comment" /\ ch = "*" -> "term_comment"
      [] status_quo = "term_comment" -> IF ch = "/" THEN "normal_skip" ELSE "block_comment"
      [] OTHER -> status_quo

\* What the skipped text is in the middle of, behind ch.
Skipping(ch) ==
    CASE status_quo = "normal_skip" /\ ch = "/" -> "is_comment"
      [] status_quo = "is_comment" ->
           (CASE ch = "/" -> "line_comment" [] ch = "*" -> "block_comment" [] OTHER -> "normal_skip")
      [] status_quo = "line_comment" /\ ch = "nl" -> "normal_skip"
      [] status_quo = "block_comment" /\ ch = "*" -> "term_comment"
      [] status_quo = "term_comment" -> IF ch = "/" THEN "normal_skip" ELSE "block_comment"
      [] OTHER -> status_quo

\* Text is skipped up to a '#' that is in no comment.
SkipPreprocessor(ch) ==
    /\ global_state = "skip_preprocessor"
    /\ IF ch = "#" /\ status_quo = "normal_skip"
       THEN Enter("do_preprocessor", <<>>) /\ UNCHANGED status_quo
       ELSE /\ IF ch = "nl" THEN NewLine("skip_preprocessor") ELSE Enter("skip_preprocessor", <<>>)
            /\ status_quo' = Skipping(ch)
    /\ UNCHANGED prep

\* Behind the name of a macro with arguments; line feeds are passed over.
EnterDef(ch) ==
    \/ ch \in {" ", "cr", "nl"} /\ Keep("enter_def_expression", current_lexem)
    \/ ch = "(" /\ Keep("parse_def_expression", <<>>)
    \/ /\ ch \notin {" ", "cr", "nl", "("}
       /\ status' = "-10"
       /\ global_state' = "enter_def_expression"
       /\ UNCHANGED <<current_lexem, number_type, line_number, out>>

\* The word that ch ended is a macro.
ReadMacro(ch, rest) ==
    /\ WordEnds(ch) /\ current_lexem \in DOMAIN Macros
    /\ UNCHANGED def_indirection
    /\ \/ /\ Macros[current_lexem].call
          /\ EnterDef(ch)
          /\ def' = current_lexem
          /\ pending' = rest
       \/ /\ ~Macros[current_lexem].call
          /\ Keep("lexem", <<>>)
          /\ pending' = Macros[current_lexem].payload \o <<ch, "endobject">> \o rest
          /\ UNCHANGED def

ReadEnterDef(ch, rest) ==
    /\ global_state = "enter_def_expression"
    /\ EnterDef(ch)
    /\ pending' = rest
    /\ UNCHANGED calls

Closes(ch) == ch = ")" /\ def_indirection = 0

\* A character of a call is collected, whatever it is.
ReadArgument(ch, rest) ==
    /\ global_state = "parse_def_expression" /\ ~Closes(ch)
    /\ Keep("parse_def_expression", Append(current_lexem, ch))
    /\ def_indirection' = def_indirection + (IF ch = "(" THEN 1 ELSE IF ch = ")" THEN -1 ELSE 0)
    /\ pending' = rest
    /\ UNCHANGED def

\* The call is complete; a macro without replacement leaves nothing of it.
ReadEndOfCall(ch, rest) ==
    LET payload == Macros[def].payload
    IN  /\ global_state = "parse_def_expression" /\ Closes(ch)
        /\ \/ /\ payload # <<>> /\ TwoArguments(current_lexem)
              /\ status' = "-950"
              /\ current_lexem' = <<>>
              /\ pending' = rest
              /\ UNCHANGED <<global_state, number_type, line_number, out>>
           \/ /\ payload # <<>> /\ ~TwoArguments(current_lexem)
              /\ Keep("lexem", <<>>)
              /\ pending' = Substituted(payload, current_lexem) \o <<"endcall">> \o rest
           \/ /\ payload = <<>>
              /\ Keep("lexem", <<>>)
              /\ pending' = rest
        /\ UNCHANGED calls

Call(ch, rest) ==
    /\ \/ ReadMacro(ch, rest) \/ ReadEnterDef(ch, rest)
       \/ ReadArgument(ch, rest) \/ ReadEndOfCall(ch, rest)
    /\ UNCHANGED <<prep, status_quo>>

\* A replay ends.  That of a macro with arguments sets the mode, whatever the
\* replacement was in the middle of; its lexeme stays.
EndCall ==
    /\ pending # <<>> /\ Head(pending) = "endcall"
    /\ pending' = Tail(pending)
    /\ global_state' = "lexem"
    /\ current_lexem' = IF global_state = "operator" THEN <<>> ELSE current_lexem
    /\ UNCHANGED <<read, calls, lost, number_type, line_number, out, status, prep, status_quo>>

EndObject ==
    /\ pending # <<>> /\ Head(pending) = "endobject"
    /\ pending' = Tail(pending)
    /\ UNCHANGED <<read, calls, lost, scan, prep, status_quo>>

\* One character is scanned, rest is pending behind it.
Step(ch, rest) ==
    \/ /\ Scan(ch) \/ Directive(ch) \/ SkipPreprocessor(ch)
       /\ pending' = rest
       /\ UNCHANGED calls
    \/ Call(ch, rest)

\* ch is a line feed or an apostrophe that a call takes, an apostrophe that
\* ends the name of a macro, or a line feed that ends a call with an error.
Forgets(ch) ==
    \/ ch \in {"nl", "apost"} /\ global_state' \in {"enter_def_expression", "parse_def_expression"}
    \/ ch = "apost" /\ pending' # <<>>
    \/ ch = "nl" /\ status' # "run"

ReadText ==
    /\ pending = <<>> /\ Len(read) < alphabet.length
    /\ \E ch \in alphabet.chars :
           /\ read' = Append(read, ch)
           /\ Step(ch, <<>>)
           /\ lost' = (lost \/ Forgets(ch))

ReadReplacement ==
    /\ pending # <<>> /\ Head(pending) \notin Marks
    /\ Step(Head(pending), Tail(pending))
    /\ lost' = (lost \/ Forgets(Head(pending)))
    /\ UNCHANGED read

\* A negative return.  The replay of a macro with arguments returns it as well,
\* that of a macro without does not look at it.
Ignore ==
    LET Marked(m) == {k \in DOMAIN pending : pending[k] = m}
    IN  /\ status \notin {"run", "thrown"}
        /\ status' = "run"
        /\ \E first \in Marked("endobject"), k \in {0} \union Marked("endcall") :
              /\ \A m \in Marked("endobject") : first <= m
              /\ k < first
              /\ \A m \in Marked("endcall") : m < first => m <= k
              /\ pending' = SubSeq(pending, k + 1, Len(pending))
        /\ UNCHANGED <<read, calls, lost, global_state, current_lexem, number_type, line_number, out,
                       prep, status_quo>>

Next ==
    /\ \/ status = "run" /\ (ReadText \/ ReadReplacement \/ EndCall \/ EndObject)
       \/ Ignore
    /\ UNCHANGED alphabet

Spec == Init /\ [][Next]_vars
-----------------------------------------------------------------------------
LineFeeds == {k \in 1 .. Len(read) : read[k] = "nl"}

\* A line feed stands right behind an apostrophe, or a backslash behind one.
Quoted(k) ==
    \/ k > 1 /\ read[k - 1] = "apost"
    \/ k > 2 /\ read[k - 2] = "apost" /\ read[k - 1] = "bslash"

\* No quote stands in the text or in a replacement, and no apostrophe in a
\* replacement.
NoQuotes == \A k \in 1 .. Len(read) : read[k] # "quote"
NoneReplaced ==
    \A w \in DOMAIN Macros : \A k \in DOMAIN Macros[w].payload :
        Macros[w].payload[k] \notin {"quote", "apost"}

\* The line number of the "@" lines counts every line feed read, those in
\* comments, in continued directives, in skipped text and behind macros as
\* well, whether the text is C or not; only in strings, behind them, where the
\* next string is looked for, between apostrophes and in the calls of macros
\* with arguments some are not counted, or counted where they are replayed.
LinesExact ==
    /\ status = "run" /\ pending = <<>>
    /\ ~lost
    /\ NoQuotes /\ NoneReplaced
    /\ \A k \in LineFeeds : ~Quoted(k)
    => line_number = 1 + Cardinality(LineFeeds)
=============================================================================
