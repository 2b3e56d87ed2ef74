--------------------------- MODULE MacroExpansion ---------------------------
(***************************************************************************)
(* How the scanner expands macros: global_state_machine looks every word   *)
(* up and, when it is a macro, calls itself for every character of the     *)
(* replacement.  The calls in progress are the frames of a stack.  A frame *)
(* replays the text "rest"; the frame of a macro without arguments then    *)
(* scans once more the character that ended the word (phase "tail"), and   *)
(* only during that scan the static counter "recursion" is raised.         *)
(*                                                                         *)
(* Characters are letters, the blank, brackets, the comma, and ";" for     *)
(* any one-character lexeme.  Numbers, strings and comments are left out.  *)
(***************************************************************************)
EXTENDS MacroCalls

CONSTANTS
    Letter,          \* the characters words are made of
    Tables,          \* macro tables: functions from words to [call, payload]
    Texts,           \* texts to scan
    RecursionLimit,  \* 50 in the code
    MaxDepth         \* calls of itself that fit on the C stack

ASSUME LimitAssumption == RecursionLimit \in Nat \ {0} /\ MaxDepth \in Nat \ {0}
ASSUME TextAssumption ==
    /\ \A text \in Texts : text \in Seq(STRING)
    /\ \A table \in Tables : \A w \in DOMAIN table :
          w \in Seq(STRING) /\ table[w].call \in BOOLEAN /\ table[w].payload \in Seq(STRING)

VARIABLES
    table, text,     \* what is scanned under which macros
    stack,           \* the calls in progress, the innermost last
    mode,            \* flow->global_state
    word,            \* current_lexem
    def,             \* the macro whose call is read
    def_indirection, \* brackets open within the call that is read
    recursion,       \* depth of the tails
    out,             \* lexemes emitted
    status           \* "run", "done", "overflow", "thrown" or an error code

vars == <<table, text, stack, mode, word, def, def_indirection, recursion, out, status>>

Frame(kind, rest, ch, phase) == [kind |-> kind, rest |-> rest, ch |-> ch, phase |-> phase]
Replay(kind, rest, ch) == Frame(kind, rest, ch, "replay")

Init ==
    /\ table \in Tables
    /\ text \in Texts
    /\ stack = <<Replay("file", text, "none")>>
    /\ mode = "lexem"
    /\ word = <<>>
    /\ def = <<>>
    /\ def_indirection = 0
    /\ recursion = 0
    /\ out = <<>>
    /\ status = "run"

Top == stack[Len(stack)]

\* The stack once its innermost call has read a character.
Fed == [stack EXCEPT ![Len(stack)] = Frame(@.kind, Tail(@.rest), @.ch, @.phase)]

\* There is a word, and check_for_preprocessor_define finds it.
IsMacro(w) == w # <<>> /\ w \in DOMAIN table

\* The replay of a replacement begins: the machine calls itself.
Call(frame) ==
    /\ word' = <<>>
    /\ mode' = "lexem"
    /\ IF Len(stack) < MaxDepth
       THEN stack' = Append(Fed, frame) /\ status' = status
       ELSE stack' = Fed /\ status' = "overflow"

\* A negative return.  The replay of a macro with arguments returns it, that
\* of a macro without does not look at it and reads on.
Fail(code) ==
    LET objects == {k \in DOMAIN stack : stack[k].kind = "object"}
    IN  \/ objects = {} /\ stack' = Fed /\ status' = code
        \/ \E k \in objects :
              /\ \A m \in objects : m <= k
              /\ stack' = SubSeq(Fed, 1, k)
              /\ status' = status

\* A call of a macro with arguments begins; blanks may come first.
EnterDef(ch) ==
    CASE ch = " " -> /\ mode' = "enter_def"
                     /\ stack' = Fed
                     /\ UNCHANGED <<word, status>>
      [] ch = "(" -> /\ mode' = "parse_def"
                     /\ stack' = Fed
                     /\ word' = <<>>
                     /\ UNCHANGED status
      [] OTHER -> mode' = "enter_def" /\ Fail("-10") /\ UNCHANGED word

ReadLetter(ch) ==
    /\ mode \in {"lexem", "inside_lexem"}
    /\ ch \in Letter
    /\ word' = IF mode = "lexem" THEN <<ch>> ELSE Append(word, ch)
    /\ mode' = "inside_lexem"
    /\ stack' = Fed
    /\ UNCHANGED <<def, def_indirection, out, status>>

Emitted(ch) == IF ch = " " THEN <<>> ELSE << <<ch>> >>

\* A character that is no part of a word, after a word that is no macro.
ReadDelimiter(ch) ==
    /\ mode \in {"lexem", "inside_lexem"}
    /\ ch \notin Letter
    /\ ~IsMacro(word)
    /\ out' = out \o (IF word = <<>> THEN <<>> ELSE <<word>>) \o Emitted(ch)
    /\ word' = <<>>
    /\ mode' = "lexem"
    /\ def' = IF word = <<>> THEN def ELSE <<>>
    /\ stack' = Fed
    /\ UNCHANGED <<def_indirection, status>>

\* The word is a macro.
ReadMacro(ch) ==
    /\ mode \in {"lexem", "inside_lexem"}
    /\ ch \notin Letter
    /\ IsMacro(word)
    /\ def' = word
    /\ IF table[word].call THEN EnterDef(ch)
       ELSE Call(Replay("object", table[word].payload, ch))
    /\ UNCHANGED <<def_indirection, out>>

ReadEnterDef(ch) ==
    /\ mode = "enter_def"
    /\ EnterDef(ch)
    /\ UNCHANGED <<def, def_indirection, out>>

\* Mutant: the first closing bracket ends the call.
ClosesFirst(ch) == ch = ")"

\* The bracket that ends the call.
Closes(ch) == ch = ")" /\ def_indirection = 0

\* A character of the call is collected, brackets counted.
ReadArgument(ch) ==
    /\ mode = "parse_def"
    /\ ~Closes(ch)
    /\ word' = Append(word, ch)
    /\ def_indirection' = def_indirection
         + (CASE ch = "(" -> 1 [] ch = ")" -> -1 [] OTHER -> 0)
    /\ stack' = Fed
    /\ UNCHANGED <<mode, def, out, status>>

ReadEndOfCall(ch) ==
    /\ mode = "parse_def"
    /\ Closes(ch)
    /\ LET payload == table[def].payload
       IN  IF payload = <<>>
           THEN /\ mode' = "lexem" /\ word' = <<>> /\ def' = <<>>
                /\ stack' = Fed
                /\ UNCHANGED status
           ELSE IF TwoArguments(word)
           THEN mode' = mode /\ word' = <<>> /\ Fail("-950") /\ UNCHANGED def
           ELSE Call(Replay("function", Substituted(payload, word), "none")) /\ UNCHANGED def
    /\ UNCHANGED <<def_indirection, out>>

\* One call of the machine for the next character of the innermost text.
Read ==
    /\ Top.rest # <<>>
    /\ LET ch == Head(Top.rest)
       IN  \/ ReadLetter(ch) \/ ReadDelimiter(ch) \/ ReadMacro(ch)
           \/ ReadEnterDef(ch) \/ ReadArgument(ch) \/ ReadEndOfCall(ch)
    /\ UNCHANGED recursion

\* Mutant: the counter is raised and never tested.
EmitsNever == FALSE

\* The tail is as deep as tails may be: the word stays what it is.
Emits == recursion + 1 >= RecursionLimit

\* A macro without arguments is replayed: the character behind its name is
\* scanned again.  Too deep, the word that is waiting is emitted as it is.
EndObject ==
    /\ Top.kind = "object" /\ Top.phase = "replay" /\ Top.rest = <<>>
    /\ recursion' = recursion + 1
    /\ stack' = [stack EXCEPT ![Len(stack)] = Frame(@.kind, <<@.ch>>, @.ch, "tail")]
    /\ IF ~Emits THEN UNCHANGED <<out, word, status>>
       ELSE IF word = <<>> THEN status' = "thrown" /\ UNCHANGED <<out, word>>
       ELSE out' = Append(out, word) /\ word' = <<>> /\ UNCHANGED status
    /\ UNCHANGED <<mode, def, def_indirection>>

\* Mutant: the counter stays up.
ReturnCounting ==
    /\ Top.kind = "object" /\ Top.phase = "tail" /\ Top.rest = <<>>
    /\ stack' = Front(stack)
    /\ UNCHANGED <<recursion, mode, word, def, def_indirection, out, status>>

ReturnObject ==
    /\ Top.kind = "object" /\ Top.phase = "tail" /\ Top.rest = <<>>
    /\ stack' = Front(stack)
    /\ recursion' = recursion - 1
    /\ UNCHANGED <<mode, word, def, def_indirection, out, status>>

\* The replay of a macro with arguments ends; a word it left waiting still
\* waits, but a letter that follows will take its place.
ReturnFunction ==
    /\ Top.kind = "function" /\ Top.rest = <<>>
    /\ stack' = Front(stack)
    /\ def' = <<>>
    /\ mode' = "lexem"
    /\ UNCHANGED <<word, def_indirection, recursion, out, status>>

EndOfText ==
    /\ Top.kind = "file" /\ Top.rest = <<>>
    /\ status' = "done"
    /\ UNCHANGED <<stack, mode, word, def, def_indirection, recursion, out>>

Next ==
    /\ status = "run"
    /\ Read \/ EndObject \/ ReturnObject \/ ReturnFunction \/ EndOfText
    /\ UNCHANGED <<table, text>>

Spec == Init /\ [][Next]_vars
-----------------------------------------------------------------------------
\* The static counter is the number of tails in progress, whatever errors and
\* nested calls happened: it never leaks from one expansion to the next.
RecursionCountsTails ==
    recursion = Cardinality({k \in DOMAIN stack : stack[k].phase = "tail"})

\* A macro whose replacement ends in a macro is caught by the counter before
\* the C stack is used up ("trick to catch something like #define FOO FOO",
\* lexic.cc:204).
NoStackOverflow == status # "overflow"
=============================================================================
