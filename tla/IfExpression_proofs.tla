------------------------- MODULE IfExpression_proofs -------------------------
(***************************************************************************)
(* Proof about IfExpression for all tables, conditions and sizes of the    *)
(* buffer: conditions that get a value leave the statics as they found     *)
(* them.  The argument: the queues of values and operators are touched     *)
(* only behind the scan, and execution begins when no item is left, so the *)
(* step that answers finds items and values empty and empties the rest;    *)
(* the word's length is not zero only while a word is read.                *)
(***************************************************************************)
EXTENDS IfExpression, TLAPS

IsSeq(s) == Len(s) \in Nat /\ s = [k \in 1 .. Len(s) |-> s[k]]

\* The line at the bottom of the stack is at its first character only while
\* it is alone and nothing of it has been read.
IsText(f) == f = Text(f.text, f.pos, f.alias, f.ch) /\ f.pos \in Nat \ {0}
Started(s) == s[1].pos # 1
IsStack(s) ==
    /\ IsSeq(s) /\ Len(s) # 0
    /\ \A k \in 1 .. Len(s) : IsText(s[k])
    /\ Len(s) # 1 => Started(s)

Fresh == ops = <<>> /\ values = <<>> /\ ~value_tail
Begins == Started(stack) \/ (items = <<>> /\ state = "clear")
WordEnded == gdp = <<>> /\ state \notin {"item", "digit", "defined"} => i = 0

IInv ==
    /\ table \in Tables
    /\ IsSeq(answers)
    /\ phase = "scan" => IsStack(stack)
    /\ NoFailure =>
        /\ phase = "scan" => Begins /\ Fresh
        /\ phase \in {"parse", "execute", "ended"} => state = "clear"
        /\ phase \in {"execute", "ended"} => items = <<>>
        /\ phase = "ended" => Fresh
        /\ state = "param" => gdp # <<>>
        /\ WordEnded
-----------------------------------------------------------------------------
(* Sequences, whatever their elements are.                                 *)

LEMMA Appended ==
    ASSUME NEW s, IsSeq(s), NEW e
    PROVE  /\ IsSeq(Append(s, e)) /\ Len(Append(s, e)) = Len(s) + 1
           /\ \A k \in 1 .. Len(s) : Append(s, e)[k] = s[k]
           /\ Append(s, e)[Len(s) + 1] = e
<1> DEFINE S == {s[k] : k \in 1 .. Len(s)} \union {e}
           t == Append(s, e)
<1>1. s \in Seq(S) /\ e \in S
  BY DEF IsSeq
<1> HIDE DEF S
<1>2. t \in Seq(S) /\ Len(t) = Len(s) + 1 /\ Len(s) \in Nat
  BY <1>1
<1>3. \A k \in 1 .. Len(s) : t[k] = s[k]
  BY <1>1
<1>4. t[Len(s) + 1] = e
  BY <1>1
<1>5. IsSeq(t)
  <2> HIDE DEF t
  <2> QED BY <1>2 DEF IsSeq
<1> QED BY <1>2, <1>3, <1>4, <1>5

LEMMA Replaced ==
    ASSUME NEW s, IsSeq(s), Len(s) # 0, NEW e
    PROVE  LET t == [s EXCEPT ![Len(s)] = e]
           IN  /\ IsSeq(t) /\ Len(t) = Len(s)
               /\ \A k \in 1 .. Len(s) : k # Len(s) => t[k] = s[k]
               /\ t[Len(s)] = e
<1> DEFINE S == {s[k] : k \in 1 .. Len(s)} \union {e}
           t == [s EXCEPT ![Len(s)] = e]
<1>1. s \in Seq(S) /\ e \in S /\ Len(s) \in 1 .. Len(s)
  BY DEF IsSeq
<1> HIDE DEF S
<1>2. t \in Seq(S) /\ Len(t) = Len(s) /\ Len(s) \in Nat
  BY <1>1
<1>3. \A k \in 1 .. Len(s) : k # Len(s) => t[k] = s[k]
  BY <1>1
<1>4. t[Len(s)] = e
  BY <1>1
<1>5. IsSeq(t)
  <2> HIDE DEF t
  <2> QED BY <1>2 DEF IsSeq
<1> QED BY <1>2, <1>3, <1>4, <1>5

LEMMA Initial ==
    ASSUME NEW s, IsSeq(s), NEW n \in 1 .. Len(s)
    PROVE  /\ IsSeq(SubSeq(s, 1, n)) /\ Len(SubSeq(s, 1, n)) = n
           /\ \A k \in 1 .. n : SubSeq(s, 1, n)[k] = s[k]
BY DEF IsSeq

-----------------------------------------------------------------------------
(* The stack of texts.                                                     *)

\* A line that has just been given is a stack.
LEMMA LineStack ==
    ASSUME NEW text
    PROVE  IsStack(<<Line(text)>>) /\ Len(<<Line(text)>>) = 1
<1> DEFINE s == <<Line(text)>>
<1>1. IsSeq(s) /\ Len(s) = 1 /\ s[1] = Line(text)
  BY DEF IsSeq
<1>2. IsText(Line(text))
  BY DEF IsText, Line, Text
<1>3. IsStack(s)
  <2> HIDE DEF s
  <2> QED BY <1>1, <1>2 DEF IsStack
<1> QED BY <1>1, <1>3

\* A character read from the top leaves a stack that has been started.
LEMMA FedStack ==
    ASSUME IsStack(stack)
    PROVE  IsStack(Fed) /\ Started(Fed)
<1>1. Len(stack) \in Nat \ {0} /\ IsSeq(stack)
  BY DEF IsStack, IsSeq
<1>2. /\ IsSeq(Fed) /\ Len(Fed) = Len(stack)
      /\ \A k \in 1 .. Len(stack) : k # Len(stack) => Fed[k] = stack[k]
  BY <1>1, Replaced DEF Fed
<1>3. Fed[Len(stack)] = Text(stack[Len(stack)].text, stack[Len(stack)].pos + 1,
                             stack[Len(stack)].alias, stack[Len(stack)].ch)
  BY <1>1, Replaced DEF Fed
<1>4. IsText(Fed[Len(stack)]) /\ Fed[Len(stack)].pos = stack[Len(stack)].pos + 1
  BY <1>3 DEF IsStack, IsSeq, IsText, Text
<1>5. \A k \in 1 .. Len(stack) : IsText(Fed[k])
  BY <1>2, <1>4 DEF IsStack
<1>6. Started(Fed)
  <2>1. CASE Len(stack) = 1
    BY <2>1, <1>4 DEF IsStack, IsText, Started
  <2>2. CASE Len(stack) # 1
    BY <2>2, <1>2 DEF IsStack, IsSeq, Started
  <2> QED BY <2>1, <2>2
<1> QED BY <1>1, <1>2, <1>5, <1>6 DEF IsStack

\* So does one that has a text put on top.
LEMMA PushedStack ==
    ASSUME NEW s, IsStack(s), Started(s), NEW f, IsText(f)
    PROVE  IsStack(Append(s, f)) /\ Started(Append(s, f))
<1>1. /\ IsSeq(Append(s, f)) /\ Len(Append(s, f)) = Len(s) + 1
      /\ \A k \in 1 .. Len(s) : Append(s, f)[k] = s[k]
      /\ Append(s, f)[Len(s) + 1] = f
  BY Appended DEF IsStack
<1>2. Started(Append(s, f))
  BY <1>1 DEF IsStack, IsSeq, Started
<1> QED BY <1>1, <1>2 DEF IsStack, IsSeq

\* A text that ends takes the texts above an open one with it.
LEMMA ReturnedStack ==
    ASSUME IsStack(stack), phase = "scan", NEW queue, Return(queue)
    PROVE  /\ state' = "clear" /\ items' = queue
           /\ phase' = "parse" \/ (phase' = "scan" /\ IsStack(stack') /\ Started(stack'))
<1> DEFINE open == {k \in 2 .. Len(stack) : stack[k].ch # "zero"}
<1>1. CASE phase' = "parse"
  BY <1>1 DEF Return
<1>2. CASE phase' # "parse"
  <2>1. PICK k \in open : phase' = phase /\ stack' = SubSeq(stack, 1, k - 1)
    BY <1>2 DEF Return
  <2>2. Len(stack) \in Nat /\ k \in 2 .. Len(stack)
    BY DEF IsStack, IsSeq
  <2>3. k - 1 \in 1 .. Len(stack) /\ Len(stack) # 1
    BY <2>2
  <2>4. /\ IsSeq(stack') /\ Len(stack') = k - 1
        /\ \A m \in 1 .. k - 1 : stack'[m] = stack[m]
    BY <2>1, <2>3, Initial DEF IsStack
  <2>5. Started(stack')
    BY <2>3, <2>4 DEF IsStack, Started
  <2>6. IsStack(stack')
    BY <2>2, <2>3, <2>4, <2>5 DEF IsStack
  <2> QED BY <2>1, <2>5, <2>6 DEF Return
<1> QED BY <1>1, <1>2
-----------------------------------------------------------------------------
(* The end of a condition.                                                 *)

\* The next condition begins on a stack of its own, and what failed before it
\* has failed behind it.
LEMMA Answering ==
    ASSUME IsSeq(answers), NEW a, Answer(a)
    PROVE  /\ IsSeq(answers')
           /\ NoFailure' => NoFailure /\ ~Failed(a)
           /\ state' = "clear"
           /\ phase' \in {"ended", "scan"}
           /\ phase' = "scan" => IsStack(stack')
<1>1. /\ IsSeq(answers') /\ Len(answers') = Len(answers) + 1
      /\ \A k \in 1 .. Len(answers) : answers'[k] = answers[k]
      /\ answers'[Len(answers) + 1] = a
  BY Appended DEF Answer
<1>2. DOMAIN answers = 1 .. Len(answers) /\ DOMAIN answers' = 1 .. Len(answers')
  BY <1>1 DEF IsSeq
<1>3. NoFailure' => NoFailure /\ ~Failed(a)
  BY <1>1, <1>2 DEF NoFailure, IsSeq
<1>4. phase' = "scan" => IsStack(stack')
  BY LineStack DEF Answer
<1> QED BY <1>1, <1>3, <1>4 DEF Answer

\* A condition that fails: nothing is promised behind it.
LEMMA Failing ==
    ASSUME IInv, NEW a, Failed(a), Answer(a), table' = table
    PROVE  IInv'
<1>1. IsSeq(answers') /\ ~NoFailure' /\ (phase' = "scan" => IsStack(stack'))
  BY Answering DEF IInv
<1> QED BY <1>1 DEF IInv

-----------------------------------------------------------------------------
(* The scan.                                                               *)

\* What a step of the scan has to keep, if it does not fail.
LEMMA Scanning ==
    ASSUME IInv, phase = "scan",
           UNCHANGED <<table, ops, values, value_tail, answers>>,
           phase' \in {"scan", "parse", "thrown", "overrun", "overflow"},
           phase' = "scan" => IsStack(stack') /\ Started(stack'),
           phase' = "parse" => state' = "clear",
           NoFailure => (state' = "param" => gdp' # <<>>) /\ WordEnded'
    PROVE  IInv'
<1>1. NoFailure' <=> NoFailure
  BY DEF NoFailure
<1>2. NoFailure' => (phase' = "scan" => Begins' /\ Fresh')
  BY <1>1 DEF IInv, Begins, Fresh
<1> QED BY <1>1, <1>2 DEF IInv

\* A character outside of words leaves a length only if a word begins.
LEMMA Clearing ==
    ASSUME IsStack(stack), phase = "scan", NEW c, NEW queue, NEW buffer, NEW k, Clear(c, queue, buffer, k)
    PROVE  /\ phase' \in {"scan", "parse"}
           /\ phase' = "scan" => IsStack(stack') /\ Started(stack')
           /\ phase' = "parse" => state' = "clear"
           /\ state' # "param"
           /\ state' \notin {"item", "digit", "defined"} => i' = k
<1>1. CASE c = "zero"
  <2>1. Return(queue) /\ i' = k
    BY <1>1 DEF Clear
  <2> QED BY <2>1, ReturnedStack
<1>2. CASE c # "zero"
  <2>1. stack' = Fed /\ phase' = phase
    BY <1>2 DEF Clear
  <2>2. /\ state' \in {"item", "digit", "clear"} \union Operators
        /\ state' \notin {"item", "digit"} => i' = k
    BY <1>2 DEF Clear
  <2> QED BY <2>1, <2>2, FedStack DEF Operators
<1> QED BY <1>1, <1>2

LEMMA ScanStep ==
    ASSUME IInv, local_fsm
    PROVE  IInv'
<1> DEFINE c == Read
<1>1. /\ phase = "scan" /\ IsStack(stack)
      /\ UNCHANGED <<table, conditions, ops, values, value_tail>>
      /\ NoFailure => (state = "param" => gdp # <<>>) /\ WordEnded
  BY DEF local_fsm, IInv
<1>2. CASE Overrun \/ Overflow
  BY <1>1, <1>2, Scanning DEF local_fsm, scanner, WordEnded
<1>3. CASE ClearSpaces(c)
  <2>1. Clear(c, items, lbuff, i) /\ state = "clear" /\ UNCHANGED <<gdp, answers>>
    BY <1>3 DEF ClearSpaces
  <2>2. /\ phase' \in {"scan", "parse"}
        /\ phase' = "scan" => IsStack(stack') /\ Started(stack')
        /\ phase' = "parse" => state' = "clear"
        /\ state' # "param"
        /\ state' \notin {"item", "digit", "defined"} => i' = i
    BY <1>1, <2>1, Clearing
  <2>3. NoFailure => WordEnded'
    BY <1>1, <2>1, <2>2 DEF WordEnded
  <2> QED BY <1>1, <2>1, <2>2, <2>3, Scanning
<1>4. CASE Collect(c)
  <2>1. /\ stack' = Fed /\ state \in {"item", "defined", "digit"}
        /\ UNCHANGED <<state, gdp, answers, phase>>
    BY <1>4 DEF Collect
  <2> QED BY <1>1, <2>1, FedStack, Scanning DEF WordEnded
<1>5. ASSUME NEW queue, NEW buffer, NEW k, Operand(c, queue, buffer, k)
      PROVE  IInv'
  <2>1. CASE c = " " \/ (c = "(" /\ bra_cnt = 0)
    <3>1. state' = "defined" /\ stack' = Fed /\ UNCHANGED <<gdp, phase, answers>>
      BY <1>5, <2>1 DEF Operand
    <3> QED BY <1>1, <3>1, FedStack, Scanning DEF WordEnded
  <2>2. CASE c = "(" /\ bra_cnt # 0
    <3>1. Answer("-944") /\ Failed("-944")
      BY <1>5, <2>2 DEF Operand, Failed
    <3> QED BY <1>1, <3>1, Failing
  <2>3. CASE c \notin {" ", "("}
    <3> DEFINE ended == [buffer EXCEPT ![k + 1] = "zero"]
    <3>1. UNCHANGED <<gdp, answers>>
      BY <1>5, <2>3 DEF Operand
    <3>2. CASE c = ")" /\ bra_cnt = 1
      <4>1. stack' = Fed /\ state' = "clear" /\ i' = 0 /\ phase' = phase
        BY <1>5, <2>3, <3>2 DEF Operand
      <4> QED BY <1>1, <3>1, <4>1, FedStack, Scanning DEF WordEnded
    <3>3. CASE ~(c = ")" /\ bra_cnt = 1)
      <4>1. Clear(c, Append(queue, Val(String(ended))), ended, 0)
        BY <1>5, <2>3, <3>3 DEF Operand
      <4>2. /\ phase' \in {"scan", "parse"}
            /\ phase' = "scan" => IsStack(stack') /\ Started(stack')
            /\ phase' = "parse" => state' = "clear"
            /\ state' # "param"
            /\ state' \notin {"item", "digit", "defined"} => i' = 0
        BY <1>1, <4>1, Clearing
      <4> QED BY <1>1, <3>1, <4>2, Scanning DEF WordEnded
    <3> QED BY <3>2, <3>3
  <2> QED BY <2>1, <2>2, <2>3
<1>6. CASE Defined(c)
  BY <1>5, <1>6 DEF Defined
<1>7. ASSUME NEW g, g # <<>> \/ ~NoFailure, NEW buffer, NEW k, Parameter(c, g, buffer, k)
      PROVE  IInv'
  <2>1. gdp' = g
    BY <1>7 DEF Parameter
  <2>2. CASE c # ")"
    <3>1. state' = "param" /\ stack' = Fed /\ UNCHANGED <<phase, answers>>
      BY <1>7, <2>2 DEF Parameter
    <3> QED BY <1>1, <1>7, <2>1, <3>1, FedStack, Scanning DEF WordEnded
  <2>3. CASE c = ")"
    <3>1. \/ Answer("-950")
          \/ state' = "clear" /\ stack' = Append(Fed, ReplayBuffer(c)) /\ UNCHANGED <<phase, answers>>
      BY <1>7, <2>3 DEF Parameter
    <3>2. Failed("-950")
      BY DEF Failed
    <3>3. IsText(ReplayBuffer(c))
      BY DEF IsText, ReplayBuffer, Text
    <3>4. CASE Answer("-950")
      BY <1>1, <3>2, <3>4, Failing
    <3>5. CASE ~Answer("-950")
      <4>1. IsStack(stack') /\ Started(stack')
        BY <1>1, <3>1, <3>3, <3>5, FedStack, PushedStack
      <4> QED BY <1>1, <1>7, <2>1, <3>1, <3>5, <4>1, Scanning DEF WordEnded
    <3> QED BY <3>4, <3>5
  <2> QED BY <2>2, <2>3
<1>8. CASE ReadParameter(c)
  BY <1>1, <1>7, <1>8 DEF ReadParameter
<1>9. CASE EndItem(c)
  <2> DEFINE w == Word
             ended == Stored("zero")
  <2>1. ~table[<<>>].call
    BY FreeSlot DEF IInv
  <2>2. \/ Operand(c, Append(items, Op("defined")), ended, 0)
        \/ table[w].call /\ Parameter(c, w, ended, 0)
        \/ Clear(c, Append(items, Val(w)), ended, 0) /\ UNCHANGED <<gdp, answers>>
        \/ Return(Append(items, Val(w))) /\ i' = 0 /\ UNCHANGED <<gdp, answers>>
        \/ /\ stack' = Append(Fed, Replay(table[w].payload, c))
           /\ state' = "clear" /\ i' = 0
           /\ UNCHANGED <<phase, gdp, answers>>
    BY <1>9 DEF EndItem
  <2> HIDE DEF w, ended
  <2>3. CASE Operand(c, Append(items, Op("defined")), ended, 0)
    BY <1>5, <2>3
  <2>4. CASE table[w].call /\ Parameter(c, w, ended, 0)
    BY <1>7, <2>1, <2>4
  <2>5. CASE Clear(c, Append(items, Val(w)), ended, 0) /\ UNCHANGED <<gdp, answers>>
    <3>1. /\ phase' \in {"scan", "parse"}
          /\ phase' = "scan" => IsStack(stack') /\ Started(stack')
          /\ phase' = "parse" => state' = "clear"
          /\ state' # "param"
          /\ state' \notin {"item", "digit", "defined"} => i' = 0
      BY <1>1, <2>5, Clearing
    <3> QED BY <1>1, <2>5, <3>1, Scanning DEF WordEnded
  <2>6. CASE Return(Append(items, Val(w))) /\ i' = 0 /\ UNCHANGED <<gdp, answers>>
    BY <1>1, <2>6, ReturnedStack, Scanning DEF WordEnded
  <2>7. CASE /\ stack' = Append(Fed, Replay(table[w].payload, c))
             /\ state' = "clear" /\ i' = 0
             /\ UNCHANGED <<phase, gdp, answers>>
    <3>1. IsText(Replay(table[w].payload, c))
      BY DEF IsText, Replay, Text
    <3>2. IsStack(stack') /\ Started(stack')
      BY <1>1, <2>7, <3>1, FedStack, PushedStack
    <3> QED BY <1>1, <2>7, <3>2, Scanning DEF WordEnded
  <2> QED BY <2>2, <2>3, <2>4, <2>5, <2>6, <2>7
<1>10. CASE EndDigit(c)
  <2>1. PICK queue, buffer :
           /\ UNCHANGED <<gdp, answers>>
           /\ \/ stack' = Fed /\ state' = "clear" /\ i' = 0 /\ phase' = phase
              \/ Clear(c, queue, buffer, 0)
    BY <1>10 DEF EndDigit
  <2>2. CASE stack' = Fed /\ state' = "clear" /\ i' = 0 /\ phase' = phase
    BY <1>1, <2>1, <2>2, FedStack, Scanning DEF WordEnded
  <2>3. CASE Clear(c, queue, buffer, 0)
    <3>1. /\ phase' \in {"scan", "parse"}
          /\ phase' = "scan" => IsStack(stack') /\ Started(stack')
          /\ phase' = "parse" => state' = "clear"
          /\ state' # "param"
          /\ state' \notin {"item", "digit", "defined"} => i' = 0
      BY <1>1, <2>3, Clearing
    <3> QED BY <1>1, <2>1, <3>1, Scanning DEF WordEnded
  <2> QED BY <2>1, <2>2, <2>3
<1>11. CASE EndOperator(c)
  <2>1. /\ state \notin {"item", "digit", "defined", "param"} /\ gdp' = gdp
        /\ \/ state' = "clear" /\ stack' = Fed /\ UNCHANGED <<i, phase, answers>>
           \/ Answer("-944")
           \/ Clear(c, Append(items, Op(state)), lbuff, i) /\ UNCHANGED answers
    BY <1>11 DEF EndOperator, Operators
  <2>2. CASE state' = "clear" /\ stack' = Fed /\ UNCHANGED <<i, phase, answers>>
    BY <1>1, <2>1, <2>2, FedStack, Scanning DEF WordEnded
  <2>3. CASE Answer("-944")
    <3>1. Failed("-944")
      BY DEF Failed
    <3> QED BY <1>1, <2>3, <3>1, Failing
  <2>4. CASE Clear(c, Append(items, Op(state)), lbuff, i) /\ UNCHANGED answers
    <3>1. /\ phase' \in {"scan", "parse"}
          /\ phase' = "scan" => IsStack(stack') /\ Started(stack')
          /\ phase' = "parse" => state' = "clear"
          /\ state' # "param"
          /\ state' \notin {"item", "digit", "defined"} => i' = i
      BY <1>1, <2>4, Clearing
    <3> QED BY <1>1, <2>1, <2>4, <3>1, Scanning DEF WordEnded
  <2> QED BY <2>1, <2>2, <2>3, <2>4
<1>12. CASE Divide(c)
  <2>1. state \in {"/", "comment"} /\ UNCHANGED <<i, gdp, answers>>
    BY <1>12 DEF Divide
  <2>2. CASE state = "comment" /\ c = "zero"
    <3>1. Return(items)
      BY <1>12, <2>2 DEF Divide
    <3> QED BY <1>1, <2>1, <3>1, ReturnedStack, Scanning DEF WordEnded
  <2>3. CASE ~(state = "comment" /\ c = "zero")
    <3>1. state' = "comment" /\ stack' = Fed /\ phase' \in {phase, "thrown"}
      BY <1>12, <2>3 DEF Divide
    <3> QED BY <1>1, <2>1, <3>1, FedStack, Scanning DEF WordEnded
  <2> QED BY <2>2, <2>3
<1> QED BY <1>2, <1>3, <1>4, <1>6, <1>8, <1>9, <1>10, <1>11, <1>12 DEF local_fsm
-----------------------------------------------------------------------------
(* The items sorted, and the value computed.                               *)

LEMMA ParseStep ==
    ASSUME IInv, parse_local_ex
    PROVE  IInv'
<1>1. phase = "parse" /\ UNCHANGED <<table, i, gdp>>
  BY DEF parse_local_ex
<1>2. CASE Sorted
  <2>1. /\ items = <<>> /\ phase' \in {"crashed", "execute"}
        /\ UNCHANGED <<state, items, answers>>
    BY <1>2 DEF Sorted
  <2>2. NoFailure' <=> NoFailure
    BY <2>1 DEF NoFailure
  <2> QED BY <1>1, <2>1, <2>2 DEF IInv, WordEnded
<1>3. CASE Parse(Head(items))
  <2>1. phase' \in {"parse", "thrown"} /\ UNCHANGED <<state, answers>>
    BY <1>1, <1>3 DEF Parse, ParseValue, ParseOperator, on_close_braket
  <2>2. NoFailure' <=> NoFailure
    BY <2>1 DEF NoFailure
  <2> QED BY <1>1, <2>1, <2>2 DEF IInv, WordEnded
<1>4. CASE parse_word_defined(Head(items))
  <2>1. Answer("-949") \/ UNCHANGED <<phase, state, answers>>
    BY <1>4 DEF parse_word_defined
  <2>2. Failed("-949")
    BY DEF Failed
  <2>3. CASE Answer("-949")
    BY <1>1, <2>2, <2>3, Failing
  <2>4. CASE UNCHANGED <<phase, state, answers>>
    <3>1. NoFailure' <=> NoFailure
      BY <2>4 DEF NoFailure
    <3> QED BY <1>1, <2>4, <3>1 DEF IInv, WordEnded
  <2> QED BY <2>1, <2>3, <2>4
<1> QED BY <1>2, <1>3, <1>4 DEF parse_local_ex

LEMMA ExecuteStep ==
    ASSUME IInv, execute_expression
    PROVE  IInv'
<1>1. phase = "execute" /\ UNCHANGED <<table, i, gdp>>
  BY DEF execute_expression
<1>2. CASE Execute
  <2>1. phase' \in {"execute", "crashed", "thrown"} /\ UNCHANGED <<state, items, answers>>
    BY <1>1, <1>2 DEF Execute, ExecuteValue, is_defined, do_negate, do_operation, LeftBracket, Yields, Ends
  <2>2. NoFailure' <=> NoFailure
    BY <2>1 DEF NoFailure
  <2> QED BY <1>1, <2>1, <2>2 DEF IInv, WordEnded
<1>3. CASE Finish
  <2>1. PICK a : Answer(a)
    BY <1>3 DEF Finish
  <2>2. /\ IsSeq(answers') /\ state' = "clear" /\ phase' \in {"ended", "scan"}
        /\ NoFailure' => NoFailure
        /\ phase' = "scan" => IsStack(stack')
    BY <2>1, Answering DEF IInv
  <2>3. Fresh' /\ items' = items
    BY <1>3 DEF Finish, Fresh
  <2>4. NoFailure' => Begins'
    BY <1>1, <2>2, <2>3 DEF IInv, Begins
  <2> QED BY <1>1, <2>2, <2>3, <2>4 DEF IInv, WordEnded
<1> QED BY <1>2, <1>3 DEF execute_expression

\* Conditions that get a value leave nothing to the next one, for all macro
\* tables, all texts of conditions, however many, and all sizes of the buffer.
THEOREM NothingIsLeft == Spec => []NothingLeft
<1>1. Init => IInv
  <2> SUFFICES ASSUME Init PROVE IInv
    OBVIOUS
  <2>1. IsStack(stack) /\ IsSeq(answers)
    BY LineStack DEF Init, IsSeq
  <2> QED BY <2>1 DEF Init, IInv, Begins, Fresh, WordEnded
<1>2. IInv /\ [Next]_vars => IInv'
  <2> SUFFICES ASSUME IInv, [Next]_vars PROVE IInv'
    OBVIOUS
  <2>1. CASE Next
    BY <2>1, ScanStep, ParseStep, ExecuteStep DEF Next
  <2>2. CASE UNCHANGED vars
    <3>1. NoFailure' <=> NoFailure
      BY <2>2 DEF vars, NoFailure
    <3> QED BY <2>2, <3>1 DEF vars, scanner, queues, IInv, Begins, Fresh, WordEnded
  <2> QED BY <2>1, <2>2
<1>3. IInv => NothingLeft
  <2> SUFFICES ASSUME IInv, NoFailure, phase = "ended" \/ (phase = "scan" /\ Len(stack) = 1 /\ Top.pos = 1)
               PROVE  /\ items = <<>> /\ ops = <<>> /\ values = <<>> /\ ~value_tail
                      /\ gdp = <<>> => i = 0
    BY DEF NothingLeft
  <2>1. CASE phase = "ended"
    BY <2>1 DEF IInv, Fresh, WordEnded
  <2>2. CASE phase = "scan" /\ Len(stack) = 1 /\ Top.pos = 1
    <3>1. ~Started(stack)
      BY <2>2 DEF Top, Started
    <3> QED BY <2>2, <3>1 DEF IInv, Begins, Fresh, WordEnded
  <2> QED BY <2>1, <2>2
<1> QED BY <1>1, <1>2, <1>3, PTL DEF Spec
=============================================================================
