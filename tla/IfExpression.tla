---------------------------- MODULE IfExpression ----------------------------
(***************************************************************************)
(* parse_preprocessor_if: the value of the condition of #if and #elif.     *)
(*                                                                         *)
(* local_fsm takes the condition to items, one character at a time, and    *)
(* calls itself for every character of a macro's replacement;              *)
(* parse_local_ex sorts the items into values and operators, by priority;  *)
(* execute_expression computes the value.  What these functions work on is *)
(* static: a condition that fails leaves it as it is to the next one,      *)
(* which does come, because #elif takes a failure for true.                *)
(*                                                                         *)
(* Characters are letters, digits, blanks, the operators' and the          *)
(* brackets', and "zero", which ends a text.  "defined" is one letter.     *)
(***************************************************************************)
EXTENDS MacroCalls

CONSTANTS
    Letter,          \* the characters of words, digits apart
    Digits,          \* the digits, a function to their values
    Tables,          \* macro tables: functions from words to [call, payload]
    Inputs,          \* sequences of conditions
    Spelling(_),     \* the characters of a condition
    BufferSize,      \* of lbuff, 256 in the code
    MaxDepth         \* of calls of local_fsm within each other: C's stack

\* parse_definition keeps two slots free: one of them is what is found under an
\* empty name, a macro without arguments or replacement.
ASSUME FreeSlot ==
    \A t \in Tables : <<>> \in DOMAIN t /\ t[<<>>] = [call |-> FALSE, payload |-> <<>>]

\* C's stack takes more calls than a table has macros.
ASSUME DepthAssumption == \A t \in Tables : Cardinality(DOMAIN t) < MaxDepth

VARIABLES
    table,
    conditions,      \* the conditions to evaluate, one after the other
    phase,           \* "scan", "parse", "execute", or how it ended
    stack,           \* texts that local_fsm reads, the innermost last
    state,           \* of local_fsm; an operator's first character is a state
    lbuff, i,        \* the word that is read, and its length
    bra_cnt,         \* brackets open behind "defined"
    gdp,             \* the macro whose arguments are read
    items,           \* item_queue
    ops,             \* op_queue; during execution the stack of results
    values,          \* value_queue, as far as its head leads to it
    value_tail,      \* value_queue_tail is not null
    answers          \* the values of the conditions before, "-944", "-949"

Digit == DOMAIN Digits

scanner == <<state, lbuff, i, bra_cnt, gdp>>
queues == <<items, ops, values, value_tail>>
vars == <<table, conditions, phase, stack, scanner, queues, answers>>

\* A text that is read, a macro's together with the character that ended the
\* name.
Text(text, pos, alias, ch) == [text |-> text, pos |-> pos, alias |-> alias, ch |-> ch]
Line(text) == Text(text, 1, FALSE, "none")
Replay(text, ch) == Text(text, 1, FALSE, ch)

\* The text is what stands in lbuff, which local_fsm writes at the same time.
ReplayBuffer(ch) == Text(<<>>, 1, TRUE, ch)

Init ==
    /\ table \in Tables
    /\ conditions \in Inputs
    /\ phase = "scan"
    /\ stack = <<Line(Spelling(conditions[1]))>>
    /\ state = "clear"
    /\ lbuff = [k \in 1 .. BufferSize |-> "zero"]
    /\ i = 0
    /\ bra_cnt = 0
    /\ gdp = <<>>
    /\ items = <<>> /\ ops = <<>> /\ values = <<>> /\ value_tail = FALSE
    /\ answers = <<>>

Top == stack[Len(stack)]
Fed == [stack EXCEPT ![Len(stack)] = Text(@.text, @.pos + 1, @.alias, @.ch)]

\* The character that is read; nothing is known of what lies behind a text.
Read ==
    IF Top.alias THEN lbuff[Top.pos]
    ELSE IF Top.pos <= Len(Top.text) THEN Top.text[Top.pos] ELSE "zero"
Overrun == Top.pos > (IF Top.alias THEN BufferSize ELSE Len(Top.text) + 1) \/ i >= BufferSize

\* The string in a buffer, and the value atoi gives it.
String(buffer) ==
    LET ends == {k \in DOMAIN buffer : buffer[k] = "zero"}
    IN  IF ends = {} THEN buffer
        ELSE SubSeq(buffer, 1, (CHOOSE k \in ends : \A m \in ends : k <= m) - 1)

atoi(word) ==
    FoldLeft(LAMBDA r, c : IF r.in /\ c \in Digit THEN [n |-> r.n * 10 + Digits[c], in |-> TRUE]
                           ELSE [r EXCEPT !.in = FALSE], [n |-> 0, in |-> TRUE], word).n

Word == String([lbuff EXCEPT ![i + 1] = "zero"])
Stored(c) == [lbuff EXCEPT ![i + 1] = c]

Op(type) == [type |-> type, word |-> <<>>, n |-> 0]
Val(word) == [type |-> "val", word |-> word, n |-> atoi(word)]
Num(n) == [type |-> "dig", word |-> <<>>, n |-> n]
Truth(b) == IF b THEN 1 ELSE 0
-----------------------------------------------------------------------------
\* local_fsm returns 1: the text has ended.  The replacement of a macro whose
\* name ended its own text ends that text as well; otherwise the text around
\* goes on behind the character that ended the name.
Return(queue) ==
    LET open == {k \in 2 .. Len(stack) : stack[k].ch # "zero"}
    IN  /\ items' = queue
        /\ state' = "clear"
        /\ \/ open = {} /\ phase' = "parse" /\ stack' = <<>>
           \/ \E k \in open :
                 /\ \A m \in open : m <= k
                 /\ stack' = SubSeq(stack, 1, k - 1)
                 /\ UNCHANGED phase

\* The next condition comes, on the statics as they are.
Answer(a) ==
    /\ answers' = Append(answers, a)
    /\ state' = "clear"
    /\ IF Len(answers) + 1 = Len(conditions) THEN phase' = "ended" /\ stack' = <<>>
       ELSE phase' = "scan" /\ stack' = <<Line(Spelling(conditions[Len(answers) + 2]))>>

Operators == {"=", "!", ">", "<", "&", "|", "/"}

\* A character outside of words, read into the given buffer; queue is what
\* the items have become before.  Characters the machine does not know are
\* passed over.
Clear(c, queue, buffer, k) ==
    IF c = "zero" THEN Return(queue) /\ lbuff' = buffer /\ i' = k
    ELSE /\ stack' = Fed
         /\ IF c \in Letter \union Digit
            THEN lbuff' = [buffer EXCEPT ![k + 1] = c] /\ i' = k + 1
            ELSE lbuff' = buffer /\ i' = k
         /\ state' = IF c \in Letter THEN "item" ELSE IF c \in Digit THEN "digit"
                     ELSE IF c \in Operators THEN c ELSE "clear"
         /\ items' = IF c \in {"(", ")", "+", "-"} THEN Append(queue, Op(c)) ELSE queue
         /\ UNCHANGED phase

ClearSpaces(c) ==
    /\ state = "clear"
    /\ Clear(c, items, lbuff, i)
    /\ UNCHANGED <<bra_cnt, gdp, answers>>

\* A letter or a digit of a word.
Collect(c) ==
    /\ \/ state \in {"item", "defined"} /\ c \in Letter \union Digit
       \/ state = "digit" /\ c \in Digit
    /\ lbuff' = Stored(c)
    /\ i' = i + 1
    /\ stack' = Fed
    /\ UNCHANGED <<state, bra_cnt, gdp, items, phase, answers>>

\* The operand of "defined": blanks are passed over, within the name as well.
Operand(c, queue, buffer, k) ==
    IF c = " " \/ (c = "(" /\ bra_cnt = 0)
    THEN /\ state' = "defined" /\ items' = queue /\ lbuff' = buffer /\ i' = k
         /\ bra_cnt' = IF c = "(" THEN 1 ELSE bra_cnt
         /\ stack' = Fed
         /\ UNCHANGED <<gdp, phase, answers>>
    ELSE IF c = "("
    THEN Answer("-944") /\ items' = queue /\ lbuff' = buffer /\ i' = k /\ UNCHANGED <<bra_cnt, gdp>>
    ELSE LET ended == [buffer EXCEPT ![k + 1] = "zero"]
             named == Append(queue, Val(String(ended)))
         IN  /\ IF c = ")" /\ bra_cnt = 1
                THEN /\ stack' = Fed /\ state' = "clear" /\ bra_cnt' = 0
                     /\ items' = named /\ lbuff' = ended /\ i' = 0
                     /\ UNCHANGED phase
                ELSE Clear(c, named, ended, 0) /\ UNCHANGED bra_cnt
             /\ UNCHANGED <<gdp, answers>>

Defined(c) ==
    /\ state = "defined" /\ c \notin Letter \union Digit
    /\ Operand(c, items, lbuff, i)

\* The argument of macro g: what stands there but blanks and opening brackets.
\* The bracket that closes it has the text of g replayed, out of the buffer
\* that held the argument; i is not taken back.
Parameter(c, g, buffer, k) ==
    /\ gdp' = g
    /\ UNCHANGED bra_cnt
    /\ IF c # ")"
       THEN /\ state' = "param" /\ stack' = Fed
            /\ IF c \in {" ", "("} THEN lbuff' = buffer /\ i' = k
               ELSE lbuff' = [buffer EXCEPT ![k + 1] = c] /\ i' = k + 1
            /\ UNCHANGED <<items, phase, answers>>
       ELSE LET ended == [buffer EXCEPT ![k + 1] = "zero"]
                arg == String(ended)
                text == Append(Substituted(table[g].payload, arg), "zero")
            IN  /\ i' = k /\ UNCHANGED items
                /\ IF Contains(arg, ",") THEN Answer("-950") /\ lbuff' = ended
                   ELSE /\ lbuff' = [m \in DOMAIN lbuff |->
                                        IF m <= Len(text) THEN text[m] ELSE ended[m]]
                        /\ state' = "clear"
                        /\ stack' = Append(Fed, ReplayBuffer(c))
                        /\ UNCHANGED <<phase, answers>>

ReadParameter(c) == state = "param" /\ Parameter(c, gdp, lbuff, i)

\* A name has ended: it is "defined", no macro, a macro with arguments, or one
\* without replacement, which ends the text; or the macro's text is read now.
EndItem(c) ==
    /\ state = "item" /\ c \notin Letter \union Digit
    /\ LET w == Word
           ended == Stored("zero")
           Is(kind) == kind = (IF w = <<"defined">> THEN "defined"
                               ELSE IF w \notin DOMAIN table THEN "none"
                               ELSE IF table[w].call THEN "call"
                               ELSE IF table[w].payload = <<>> THEN "empty" ELSE "object")
       IN  \/ /\ Is("defined")
              /\ Operand(c, Append(items, Op("defined")), ended, 0)
           \/ /\ Is("call")
              /\ Parameter(c, w, ended, 0)
           \/ /\ Is("none")
              /\ Clear(c, Append(items, Val(w)), ended, 0)
              /\ UNCHANGED <<bra_cnt, gdp, answers>>
           \/ /\ Is("empty")
              /\ Return(Append(items, Val(w)))
              /\ lbuff' = ended /\ i' = 0
              /\ UNCHANGED <<bra_cnt, gdp, answers>>
           \/ /\ Is("object")
              /\ stack' = Append(Fed, Replay(table[w].payload, c))
              /\ state' = "clear"
              /\ lbuff' = ended /\ i' = 0
              /\ UNCHANGED <<items, phase, bra_cnt, gdp, answers>>

\* A number has ended; the letter "L" belongs to it.
EndDigit(c) ==
    /\ state = "digit" /\ c \notin Digit
    /\ LET with == IF c = "L" THEN Stored(c) ELSE lbuff
           k == IF c = "L" THEN i + 1 ELSE i
           ended == [with EXCEPT ![k + 1] = "zero"]
           queue == Append(items, Num(atoi(String(ended))))
       IN  IF c = "L"
           THEN /\ stack' = Fed /\ state' = "clear" /\ items' = queue
                /\ lbuff' = ended /\ i' = 0
                /\ UNCHANGED phase
           ELSE Clear(c, queue, ended, 0)
    /\ UNCHANGED <<bra_cnt, gdp, answers>>

Doubled ==
    [pair \in {<<"=", "=">>, <<"!", "=">>, <<">", "=">>, <<"<", "=">>, <<"&", "&">>, <<"|", "|">>} |->
        CASE pair[1] = "=" -> "==" [] pair[1] = "!" -> "!=" [] pair[1] = ">" -> ">="
          [] pair[1] = "<" -> "<=" [] pair[1] = "&" -> "&&" [] pair[1] = "|" -> "||"]

\* The second character of an operator, or the one behind an operator of one.
EndOperator(c) ==
    /\ state \in Operators \ {"/"}
    /\ UNCHANGED <<bra_cnt, gdp>>
    /\ IF <<state, c>> \in DOMAIN Doubled
       THEN /\ items' = Append(items, Op(Doubled[<<state, c>>]))
            /\ state' = "clear" /\ stack' = Fed
            /\ UNCHANGED <<lbuff, i, phase, answers>>
       ELSE IF state \in {"=", "&", "|"}
       THEN Answer("-944") /\ UNCHANGED <<lbuff, i, items>>
       ELSE Clear(c, Append(items, Op(state)), lbuff, i) /\ UNCHANGED answers

\* A comment goes to the end of the text; a division ends the program.
Divide(c) ==
    /\ state \in {"/", "comment"}
    /\ IF state = "comment" /\ c = "zero" THEN Return(items)
       ELSE /\ state' = "comment" /\ stack' = Fed
            /\ phase' = IF state = "comment" \/ c = "/" THEN phase ELSE "thrown"
            /\ UNCHANGED items
    /\ UNCHANGED <<lbuff, i, bra_cnt, gdp, answers>>

\* Nothing counts the calls of local_fsm within each other.
Overflow == Len(stack) > MaxDepth

\* One call of local_fsm for a character of the innermost text.
local_fsm ==
    /\ phase = "scan"
    /\ IF Overrun \/ Overflow
       THEN /\ phase' = IF Overflow THEN "overflow" ELSE "overrun"
            /\ UNCHANGED <<stack, scanner, items, answers>>
       ELSE LET c == Read
            IN  \/ ClearSpaces(c) \/ Collect(c) \/ Defined(c) \/ ReadParameter(c)
                \/ EndItem(c) \/ EndDigit(c) \/ EndOperator(c) \/ Divide(c)
    /\ UNCHANGED <<table, conditions, ops, values, value_tail>>
-----------------------------------------------------------------------------
\* Mutant: comparisons for equality bind like the others.
PrioOfCompare(type) ==
    CASE type = "defined" -> 100 [] type = "!" -> 80
      [] type \in {"+", "-"} -> 40 [] type \in {"<", ">", "<=", ">=", "==", "!="} -> 30
      [] type = "&&" -> 14 [] type = "||" -> 12
      [] OTHER -> 0

Prio(type) ==
    CASE type = "defined" -> 100 [] type = "!" -> 80
      [] type \in {"+", "-"} -> 40 [] type \in {"<", ">", "<=", ">="} -> 30
      [] type \in {"==", "!="} -> 20 [] type = "&&" -> 14 [] type = "||" -> 12
      [] OTHER -> 0

IsValue(item) == item.type \in {"val", "dig"}

\* A value goes to the queue of values; it is lost when the queue has a tail
\* and no head.
Queued(v) == IF value_tail /\ values = <<>> THEN <<>> ELSE Append(values, v)

\* How many operators stay on the stack when op comes: all below those of its
\* own priority or a higher one.
Kept(op) ==
    LET lower == {k \in DOMAIN ops : Prio(ops[k].type) < Prio(op.type)}
    IN  IF op.type = "(" THEN Len(ops)
        ELSE CHOOSE n \in 0 .. Len(ops) :
                /\ \A k \in n + 1 .. Len(ops) : k \notin lower
                /\ n = 0 \/ n \in lower

\* The operators above the n-th, in the order they are taken off.
Above(n) == Reverse(SubSeq(ops, n + 1, Len(ops)))

\* move_lexem of an operator, the queue of values being vs.
MoveOperator(op, vs, tail) ==
    LET n == Kept(op)
    IN  /\ ops' = Append(SubSeq(ops, 1, n), op)
        /\ values' = vs \o Above(n)
        /\ value_tail' = (tail \/ n < Len(ops))

\* Operators taken off in other places do not make a head for the queue.
Closed(n) == IF values = <<>> THEN <<>> ELSE values \o Above(n)

\* Mutant: the value is taken but stays among the items.
ParseValueAgain(item) ==
    /\ IsValue(item)
    /\ values' = IF values = <<>> THEN Queued(item) ELSE values
    /\ value_tail' = TRUE
    /\ UNCHANGED <<ops, items, phase>>

ParseValue(item) ==
    /\ IsValue(item)
    /\ values' = Queued(item)
    /\ value_tail' = TRUE
    /\ items' = Tail(items)
    /\ UNCHANGED <<ops, phase>>

ParseOperator(item) ==
    /\ ~IsValue(item) /\ item.type \notin {")", "defined"}
    /\ MoveOperator(item, values, value_tail)
    /\ items' = Tail(items)
    /\ UNCHANGED phase

on_close_braket(item) ==
    /\ item.type = ")"
    /\ LET open == {k \in DOMAIN ops : ops[k].type = "("}
           n == IF open = {} THEN 0 ELSE CHOOSE k \in open : \A m \in open : m <= k
       IN  /\ phase' = IF open = {} THEN "thrown" ELSE phase
           /\ values' = Closed(n)
           /\ value_tail' = (value_tail \/ n < Len(ops))
           /\ ops' = SubSeq(ops, 1, n - 1)
    /\ items' = Tail(items)

Parse(item) ==
    /\ ParseValue(item) \/ ParseOperator(item) \/ on_close_braket(item)
    /\ UNCHANGED <<stack, state, answers>>

\* "defined" and its operand, which local_fsm has made a name.  Only behind a
\* condition that failed can a bracket follow; the case that nothing follows
\* the name in it changes nothing, so that it is met for ever.
parse_word_defined(item) ==
    /\ item.type = "defined"
    /\ LET Type(k) == IF k <= Len(items) THEN items[k].type ELSE "none"
           Take(k, n) == /\ MoveOperator(item, Queued(items[k]), TRUE)
                         /\ items' = SubSeq(items, n + 1, Len(items))
                         /\ UNCHANGED <<phase, stack, state, answers>>
       IN  IF Type(2) = "val" THEN Take(2, 2)
           ELSE IF Type(2) = "(" /\ Type(3) = "val" /\ Type(4) = ")" THEN Take(3, 4)
           ELSE IF Type(2) = "(" /\ Type(3) = "val" /\ Type(4) = "none"
           THEN UNCHANGED <<phase, stack, state, queues, answers>>
           ELSE Answer("-949") /\ UNCHANGED queues

\* All items are sorted: the operators that are left join the values.
Sorted ==
    /\ items = <<>>
    /\ phase' = IF ops # <<>> /\ ~value_tail THEN "crashed" ELSE "execute"
    /\ values' = Closed(0)
    /\ ops' = <<>>
    /\ value_tail' = (values' # <<>>)
    /\ UNCHANGED <<stack, state, items, answers>>

parse_local_ex ==
    /\ phase = "parse"
    /\ \/ Sorted
       \/ items # <<>> /\ (Parse(Head(items)) \/ parse_word_defined(Head(items)))
    /\ UNCHANGED <<table, conditions, lbuff, i, bra_cnt, gdp>>
-----------------------------------------------------------------------------
\* During execution the last of ops is the result computed last.
Result(k) == ops[Len(ops) + 1 - k]
Results(n, v) == Append(SubSeq(ops, 1, Len(ops) - n), v)
Ends(how) == phase' = how /\ UNCHANGED ops
Yields(n, v) == ops' = Results(n, v) /\ UNCHANGED phase

ExecuteValue(op) ==
    /\ IsValue(op)
    /\ Yields(0, op)

is_defined(op) ==
    /\ op.type = "defined"
    /\ IF ops = <<>> THEN Ends("crashed")
       ELSE IF Result(1).type # "val" THEN Ends("thrown")
       ELSE Yields(1, Num(Truth(Result(1).word \in DOMAIN table)))

do_negate(op) ==
    /\ op.type = "!"
    /\ IF ops = <<>> THEN Ends("thrown")
       ELSE Yields(1, Num(Truth(IF Result(1).type = "dig" THEN Result(1).n = 0
                                ELSE Result(1).word \notin DOMAIN table)))

\* The number an operand stands for; a macro without replacement has none.
get_value(v) ==
    IF v.type = "val" THEN IF v.word \in DOMAIN table THEN atoi(table[v.word].payload) ELSE 0
    ELSE v.n

Blank(v) == v.type = "val" /\ v.word \in DOMAIN table /\ table[v.word].payload = <<>>

Applied(type, a, b) ==
    CASE type = "==" -> Truth(a = b) [] type = "!=" -> Truth(a # b)
      [] type = "<" -> Truth(a < b) [] type = ">" -> Truth(a > b)
      [] type = "<=" -> Truth(a <= b) [] type = ">=" -> Truth(a >= b)
      [] type = "&&" -> Truth(a # 0 /\ b # 0) [] type = "||" -> Truth(a # 0 \/ b # 0)
      [] type = "+" -> a + b [] type = "-" -> a - b

\* An operator that has not got two operands is passed over.
do_operation(op) ==
    /\ ~IsValue(op) /\ op.type \notin {"defined", "!", "(", ")"}
    /\ IF Len(ops) < 2 THEN UNCHANGED <<ops, phase>>
       ELSE IF Blank(Result(1)) \/ Blank(Result(2)) THEN Ends("crashed")
       ELSE Yields(2, Num(Applied(op.type, get_value(Result(2)), get_value(Result(1)))))

\* A bracket that was not closed.
LeftBracket(op) == op.type \in {"(", ")"} /\ Ends("thrown")

Execute ==
    /\ values # <<>>
    /\ LET op == Head(values)
       IN  ExecuteValue(op) \/ is_defined(op) \/ do_negate(op) \/ do_operation(op) \/ LeftBracket(op)
    /\ values' = Tail(values)
    /\ UNCHANGED <<stack, state, items, value_tail, answers>>

\* Mutant: the results stay on the stack.
FinishKeeping ==
    /\ values = <<>>
    /\ Answer(IF ops = <<>> THEN "-944" ELSE ToString(Result(1).n))
    /\ value_tail' = FALSE
    /\ UNCHANGED <<items, values, ops>>

\* The condition has a value, the last result; others are forgotten.
Finish ==
    /\ values = <<>>
    /\ Answer(IF ops = <<>> THEN "-944" ELSE ToString(Result(1).n))
    /\ ops' = <<>>
    /\ value_tail' = FALSE
    /\ UNCHANGED <<items, values>>

execute_expression ==
    /\ phase = "execute"
    /\ Execute \/ Finish
    /\ UNCHANGED <<table, conditions, lbuff, i, bra_cnt, gdp>>

Next == local_fsm \/ parse_local_ex \/ execute_expression

Spec == Init /\ [][Next]_vars /\ WF_vars(Next)
-----------------------------------------------------------------------------
Failed(a) == a \in {"-944", "-949", "-950"}
NoFailure == \A k \in DOMAIN answers : ~Failed(answers[k])

\* A condition that got a value leaves nothing on the static queues to the
\* next one, whatever it was; nor in the buffer, if no macro had arguments.
NothingLeft ==
    (phase = "ended" \/ (phase = "scan" /\ Len(stack) = 1 /\ Top.pos = 1)) /\ NoFailure =>
        /\ items = <<>> /\ ops = <<>> /\ values = <<>> /\ ~value_tail
        /\ gdp = <<>> => i = 0

\* The macro w leads to one that leads back to itself: a set of macros each
\* of which has one of them in its replacement.
Circular(w) ==
    LET Names(u) == {v \in DOMAIN table \ {<<>>} :
                        \E k, n \in DOMAIN table[u].payload : SubSeq(table[u].payload, k, n) = v}
    IN  \E S \in SUBSET DOMAIN table : w \in S /\ \A u \in S : Names(u) \intersect S # {}

\* The evaluation of each condition ends, with a value, with an error or with
\* the program, as long as no condition before it failed; C's stack is used up
\* only if a macro leads back to itself, when nothing stops the replays.
Answered ==
    /\ <>(phase \notin {"scan", "parse", "execute"} \/ ~NoFailure)
    /\ [](phase = "overflow" => \E w \in DOMAIN table : Circular(w))
=============================================================================
