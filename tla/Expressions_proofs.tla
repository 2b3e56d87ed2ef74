------------------------- MODULE Expressions_proofs -------------------------
(***************************************************************************)
(* Proof about Expressions for all texts in which operands and operators   *)
(* take turns and brackets are closed: however brackets nest, and whatever *)
(* was taken before, every parser has the operands its operators need.     *)
(***************************************************************************)
EXTENDS Expressions, FiniteSetTheorems, WellFoundedInduction, TLAPS

IsSeq(s) == Len(s) \in Nat /\ s = [k \in 1 .. Len(s) |-> s[k]]

Errors == {"none", "thrown", "undefined"}

FieldNames == {"purpose", "operands", "operators", "prev_was_operand", "arguments", "error"}

IsRecord(p) == p = [x \in FieldNames |-> p[x]]

IsParser(p) ==
    /\ IsRecord(p)
    /\ IsSeq(p.operands) /\ IsSeq(p.operators)
    /\ p.prev_was_operand \in BOOLEAN /\ p.error \in Errors

Binaries(ops) == {k \in DOMAIN ops : ~IsUnary(ops[k])}

\* The operands of a parser are those its operators need, and the one read last.
Agrees(p) ==
    Len(p.operands) = Cardinality(Binaries(p.operators)) + IF p.prev_was_operand THEN 1 ELSE 0
-----------------------------------------------------------------------------
(* Sequences, whatever their elements are.                                 *)

LEMMA Appended ==
    ASSUME NEW s, IsSeq(s), NEW e
    PROVE  /\ IsSeq(Append(s, e)) /\ Len(Append(s, e)) = Len(s) + 1
           /\ \A k \in 1 .. Len(s) : Append(s, e)[k] = s[k]
           /\ Append(s, e)[Len(s) + 1] = e
           /\ Append(s, e) # <<>>
           /\ Last(Append(s, e)) = e
<1> DEFINE S == {s[k] : k \in 1 .. Len(s)} \union {e}
           t == Append(s, e)
<1>1. s \in Seq(S) /\ e \in S
  BY DEF IsSeq
<1> HIDE DEF S
<1>2. t \in Seq(S) /\ Len(t) = Len(s) + 1 /\ Len(s) \in Nat
  BY <1>1
<1>3. \A k \in 1 .. Len(s) : t[k] = s[k]
  BY <1>1
<1>4. t[Len(s) + 1] = e
  BY <1>1
<1>5. t # <<>>
  <2>1. Len(<<>>) = 0
    OBVIOUS
  <2> QED BY <1>2, <2>1
<1> HIDE DEF t
<1>6. IsSeq(t)
  BY <1>2 DEF IsSeq
<1>7. Last(t) = e
  BY <1>2, <1>4 DEF Last
<1> QED BY <1>2, <1>3, <1>4, <1>5, <1>6, <1>7 DEF t

LEMMA Initial ==
    ASSUME NEW s, IsSeq(s), NEW n \in Nat, n <= Len(s), NEW t, t = SubSeq(s, 1, n)
    PROVE  IsSeq(t) /\ Len(t) = n /\ \A k \in 1 .. n : t[k] = s[k]
BY DEF IsSeq

LEMMA Nonempty ==
    ASSUME NEW s, IsSeq(s)
    PROVE  s # <<>> <=> Len(s) > 0
<1>1. CASE Len(s) = 0
  <2>1. s = [k \in 1 .. 0 |-> s[k]]
    BY <1>1 DEF IsSeq
  <2> QED BY <1>1, <2>1
<1>2. CASE Len(s) # 0
  BY <1>2 DEF IsSeq
<1> QED BY <1>1, <1>2

LEMMA FrontOf ==
    ASSUME NEW s, IsSeq(s), Len(s) > 0
    PROVE  /\ IsSeq(Front(s)) /\ Len(Front(s)) = Len(s) - 1
           /\ \A k \in 1 .. Len(s) - 1 : Front(s)[k] = s[k]
           /\ Last(s) = s[Len(s)]
<1>1. Front(s) = SubSeq(s, 1, Len(s) - 1) /\ Len(s) - 1 \in Nat /\ Len(s) - 1 <= Len(s)
  BY DEF Front, IsSeq
<1> QED BY <1>1, Initial DEF Last, IsSeq

Updated(t, s, n, e) == t = [s EXCEPT ![n] = e]

LEMMA ElementReplaced ==
    ASSUME NEW s, IsSeq(s), NEW n \in 1 .. Len(s), NEW e, NEW t, Updated(t, s, n, e)
    PROVE  /\ IsSeq(t) /\ Len(t) = Len(s)
           /\ \A k \in 1 .. Len(s) : k # n => t[k] = s[k]
           /\ t[n] = e
<1> USE DEF Updated
<1> DEFINE S == {s[k] : k \in 1 .. Len(s)} \union {e}
<1>1. s \in Seq(S) /\ e \in S
  BY DEF IsSeq
<1> HIDE DEF S
<1>2. t \in Seq(S) /\ Len(t) = Len(s) /\ Len(s) \in Nat
  BY <1>1
<1>3. \A k \in 1 .. Len(s) : k # n => t[k] = s[k]
  BY <1>1
<1>4. t[n] = e
  BY <1>1
<1>5. IsSeq(t)
  BY <1>2 DEF IsSeq
<1> QED BY <1>2, <1>3, <1>4, <1>5

LEMMA LastReplaced ==
    ASSUME NEW s, IsSeq(s), Len(s) > 0, NEW e
    PROVE  Append(Front(s), e) = [s EXCEPT ![Len(s)] = e]
<1> DEFINE t == Append(Front(s), e)
           u == [s EXCEPT ![Len(s)] = e]
<1>1. Len(s) \in 1 .. Len(s) /\ Len(s) \in Nat
  BY DEF IsSeq
<1>2. /\ IsSeq(t) /\ Len(t) = Len(s) /\ t[Len(s)] = e
      /\ \A k \in 1 .. Len(s) - 1 : t[k] = s[k]
  <2>1. IsSeq(Front(s)) /\ Len(Front(s)) = Len(s) - 1 /\ \A k \in 1 .. Len(s) - 1 : Front(s)[k] = s[k]
    BY FrontOf
  <2> QED BY <1>1, <2>1, Appended
<1>3. /\ IsSeq(u) /\ Len(u) = Len(s) /\ u[Len(s)] = e
      /\ \A k \in 1 .. Len(s) : k # Len(s) => u[k] = s[k]
  <2>1. Updated(u, s, Len(s), e)
    BY DEF Updated
  <2> QED BY <1>1, <2>1, ElementReplaced
<1> HIDE DEF t, u
<1>4. \A k \in 1 .. Len(s) : t[k] = u[k]
  BY <1>1, <1>2, <1>3
<1> QED BY <1>1, <1>2, <1>3, <1>4 DEF IsSeq, t, u
-----------------------------------------------------------------------------
(* Binary operators, and parsers with a field changed.                     *)

LEMMA FiniteBinaries ==
    ASSUME NEW ops, IsSeq(ops)
    PROVE  /\ IsFiniteSet(Binaries(ops)) /\ Cardinality(Binaries(ops)) \in Nat
           /\ DOMAIN ops = 1 .. Len(ops)
<1>1. Len(ops) \in Nat /\ DOMAIN ops = 1 .. Len(ops) /\ Binaries(ops) \subseteq 1 .. Len(ops)
  BY DEF IsSeq, Binaries
<1>2. IsFiniteSet(1 .. Len(ops))
  BY <1>1, FS_Interval
<1> QED BY <1>1, <1>2, FS_Subset, FS_CardinalityType

LEMMA AppendedBinaries ==
    ASSUME NEW ops, IsSeq(ops), NEW op
    PROVE  Cardinality(Binaries(Append(ops, op)))
             = Cardinality(Binaries(ops)) + IF IsUnary(op) THEN 0 ELSE 1
<1> DEFINE longer == Append(ops, op)
           old == Binaries(ops)
           new == Binaries(longer)
<1> PICK n : n = Len(ops)
  OBVIOUS
<1>1. /\ IsSeq(longer) /\ Len(longer) = n + 1 /\ n \in Nat
      /\ \A k \in 1 .. n : longer[k] = ops[k]
      /\ longer[n + 1] = op
  BY Appended DEF IsSeq
<1>2. IsFiniteSet(old) /\ Cardinality(old) \in Nat /\ DOMAIN ops = 1 .. n /\ DOMAIN longer = 1 .. n + 1
  BY <1>1, FiniteBinaries
<1> HIDE DEF longer
<1>3. new = old \union (IF IsUnary(op) THEN {} ELSE {n + 1}) /\ n + 1 \notin old
  BY <1>1, <1>2 DEF Binaries
<1> HIDE DEF old, new
<1>4. Cardinality(new) = Cardinality(old) + IF IsUnary(op) THEN 0 ELSE 1
  <2>1. CASE IsUnary(op)
    BY <1>2, <1>3, <2>1
  <2>2. CASE ~IsUnary(op)
    <3>1. new = old \union {n + 1}
      BY <1>3, <2>2
    <3>2. Cardinality(new) = Cardinality(old) + 1
      BY <1>2, <1>3, <3>1, FS_AddElement
    <3> QED BY <2>2, <3>2
  <2> QED BY <2>1, <2>2
<1> QED BY <1>4 DEF old, new, longer

LEMMA TakenBinaries ==
    ASSUME NEW ops, IsSeq(ops), Len(ops) > 0
    PROVE  Cardinality(Binaries(ops))
             = Cardinality(Binaries(Front(ops))) + IF IsUnary(Last(ops)) THEN 0 ELSE 1
<1> DEFINE n == Len(ops)
           same == [ops EXCEPT ![n] = ops[n]]
<1>1. IsSeq(Front(ops)) /\ Last(ops) = ops[n]
  BY FrontOf
<1>2. n \in 1 .. n
  BY DEF IsSeq
<1>3. IsSeq(same) /\ Len(same) = n /\ \A k \in 1 .. n : same[k] = ops[k]
  <2>1. Updated(same, ops, n, ops[n])
    BY DEF Updated
  <2> QED BY <1>2, <2>1, ElementReplaced
<1>4. same = Append(Front(ops), Last(ops))
  BY <1>1, LastReplaced
<1> HIDE DEF same
<1>5. same = ops
  BY <1>3 DEF IsSeq
<1> HIDE DEF n
<1>6. ops = Append(Front(ops), Last(ops))
  BY <1>4, <1>5
<1> QED BY <1>1, <1>6, AppendedBinaries

\* q is p with other operands, operators and prev_was_operand.
Changed(q, p, operands, operators, prev) ==
    /\ IsParser(q) /\ q.operands = operands /\ q.operators = operators /\ q.prev_was_operand = prev
    /\ q.purpose = p.purpose /\ q.error = p.error

LEMMA Popped ==
    ASSUME NEW p, IsParser(p), NEW operands, IsSeq(operands), NEW operators, IsSeq(operators),
           NEW q, q = [p EXCEPT !.operators = operators, !.operands = operands]
    PROVE  Changed(q, p, operands, operators, p.prev_was_operand)
<1>1. IsRecord(q)
  BY DEF IsParser, IsRecord, FieldNames
<1>2. q.operands = operands /\ q.operators = operators
  BY DEF IsParser, IsRecord, FieldNames
<1>3. q.prev_was_operand = p.prev_was_operand /\ q.purpose = p.purpose /\ q.error = p.error
  BY DEF IsParser, IsRecord, FieldNames
<1> QED BY <1>1, <1>2, <1>3 DEF Changed, IsParser

LEMMA OperandPushed ==
    ASSUME NEW p, IsParser(p), NEW operands, IsSeq(operands), NEW prev \in BOOLEAN,
           NEW q, q = [p EXCEPT !.operands = operands, !.prev_was_operand = prev]
    PROVE  Changed(q, p, operands, p.operators, prev)
<1>1. IsRecord(q)
  BY DEF IsParser, IsRecord, FieldNames
<1>2. q.operands = operands /\ q.operators = p.operators
  BY DEF IsParser, IsRecord, FieldNames
<1>3. q.prev_was_operand = prev /\ q.purpose = p.purpose /\ q.error = p.error
  BY DEF IsParser, IsRecord, FieldNames
<1> QED BY <1>1, <1>2, <1>3 DEF Changed, IsParser

LEMMA OperandsChanged ==
    ASSUME NEW p, IsParser(p), NEW operands, IsSeq(operands),
           NEW q, q = [p EXCEPT !.operands = operands]
    PROVE  Changed(q, p, operands, p.operators, p.prev_was_operand)
<1>1. IsRecord(q)
  BY DEF IsParser, IsRecord, FieldNames
<1>2. q.operands = operands /\ q.operators = p.operators
  BY DEF IsParser, IsRecord, FieldNames
<1>3. q.prev_was_operand = p.prev_was_operand /\ q.purpose = p.purpose /\ q.error = p.error
  BY DEF IsParser, IsRecord, FieldNames
<1> QED BY <1>1, <1>2, <1>3 DEF Changed, IsParser

LEMMA OperatorPushed ==
    ASSUME NEW p, IsParser(p), NEW operators, IsSeq(operators), NEW prev \in BOOLEAN,
           NEW q, q = [p EXCEPT !.operators = operators, !.prev_was_operand = prev]
    PROVE  Changed(q, p, p.operands, operators, prev)
<1>1. IsRecord(q)
  BY DEF IsParser, IsRecord, FieldNames
<1>2. q.operands = p.operands /\ q.operators = operators
  BY DEF IsParser, IsRecord, FieldNames
<1>3. q.prev_was_operand = prev /\ q.purpose = p.purpose /\ q.error = p.error
  BY DEF IsParser, IsRecord, FieldNames
<1> QED BY <1>1, <1>2, <1>3 DEF Changed, IsParser

LEMMA Failed ==
    ASSUME NEW p, IsParser(p), NEW error \in Errors, NEW q, q = [p EXCEPT !.error = error]
    PROVE  /\ IsParser(q) /\ q.error = error /\ q.purpose = p.purpose
           /\ q.prev_was_operand = p.prev_was_operand /\ q.operators = p.operators
<1>1. IsRecord(q)
  BY DEF IsParser, IsRecord, FieldNames
<1>2. q.operands = p.operands /\ q.operators = p.operators
  BY DEF IsParser, IsRecord, FieldNames
<1>3. q.prev_was_operand = p.prev_was_operand /\ q.purpose = p.purpose /\ q.error = error
  BY DEF IsParser, IsRecord, FieldNames
<1> QED BY <1>1, <1>2, <1>3 DEF IsParser

LEMMA NewParser ==
    ASSUME NEW purpose
    PROVE  /\ IsParser(Parser(purpose)) /\ Agrees(Parser(purpose))
           /\ Parser(purpose).purpose = purpose /\ ~Parser(purpose).prev_was_operand
           /\ Parser(purpose).operators = <<>> /\ Parser(purpose).error = "none"
<1> DEFINE p == Parser(purpose)
<1>1. IsRecord(p)
  BY DEF IsRecord, FieldNames, Parser
<1>2. /\ p.purpose = purpose /\ p.operands = <<>> /\ p.operators = <<>>
      /\ p.prev_was_operand = FALSE /\ p.error = "none"
  BY DEF Parser
<1>3. IsSeq(<<>>)
  BY DEF IsSeq
<1> HIDE DEF p
<1>4. IsParser(p)
  BY <1>1, <1>2, <1>3 DEF IsParser, Errors
<1>5. Agrees(p)
  <2>1. Binaries(<<>>) = {} /\ Len(<<>>) = 0 /\ Cardinality({}) = 0
    BY FS_EmptySet DEF Binaries
  <2> QED BY <1>2, <2>1 DEF Agrees
<1> QED BY <1>2, <1>4, <1>5 DEF p
-----------------------------------------------------------------------------
(* Operators take their operands.                                          *)

\* q is what becomes of p when operators take their operands: without an
\* error it agrees, if p does.
Follows(q, p) ==
    /\ IsParser(q) /\ q.purpose = p.purpose /\ q.prev_was_operand = p.prev_was_operand
    /\ q.error = "none" => p.error = "none" /\ (Agrees(p) => Agrees(q))

\* The last operator and as many operands as count have become one of them.
Joined(q, p, count) ==
    \E yard :
        q = [p EXCEPT !.operators = Front(p.operators),
                !.operands = Append(SubSeq(p.operands, 1, Len(p.operands) - count), yard)]

LEMMA OperandsTaken ==
    ASSUME NEW p, IsParser(p), Len(p.operators) > 0,
           NEW count \in {1, 2}, Len(p.operands) >= count,
           count = IF IsUnary(Last(p.operators)) THEN 1 ELSE 2,
           NEW q, Joined(q, p, count)
    PROVE  Follows(q, p) /\ Len(q.operators) = Len(p.operators) - 1
<1> PICK yard :
        q = [p EXCEPT !.operators = Front(p.operators),
                !.operands = Append(SubSeq(p.operands, 1, Len(p.operands) - count), yard)]
  BY DEF Joined
<1> DEFINE n == Len(p.operands)
           rest == SubSeq(p.operands, 1, n - count)
           operands == Append(rest, yard)
           operators == Front(p.operators)
<1>1. IsSeq(p.operands) /\ IsSeq(p.operators) /\ n \in Nat /\ Len(p.operators) \in Nat
  BY DEF IsParser, IsSeq
<1>2. IsSeq(operators) /\ Len(operators) = Len(p.operators) - 1
  BY <1>1, FrontOf
<1>3. IsSeq(rest) /\ Len(rest) = n - count
  <2> DEFINE m == n - count
  <2>1. m \in Nat /\ m <= n
    <3>1. count = 1 \/ count = 2
      OBVIOUS
    <3>2. n >= count
      OBVIOUS
    <3> HIDE DEF n
    <3> QED BY <1>1, <3>1, <3>2
  <2> HIDE DEF m, rest
  <2>2. IsSeq(rest) /\ Len(rest) = m
    <3>1. rest = SubSeq(p.operands, 1, m)
      BY DEF rest, m
    <3> HIDE DEF n
    <3> QED BY <1>1, <2>1, <3>1, Initial DEF n
  <2> QED BY <2>2 DEF m
<1>4. IsSeq(operands) /\ Len(operands) = n - count + 1
  <2> HIDE DEF rest, n
  <2> QED BY <1>1, <1>3, Appended
<1> DEFINE before == Cardinality(Binaries(p.operators))
           after == Cardinality(Binaries(operators))
<1>5. before = after + count - 1 /\ before \in Nat /\ after \in Nat
  <2>1. before = after + IF IsUnary(Last(p.operators)) THEN 0 ELSE 1
    BY <1>1, TakenBinaries
  <2>2. before \in Nat /\ after \in Nat
    BY <1>1, <1>2, FiniteBinaries
  <2> HIDE DEF before, after
  <2> QED BY <2>1, <2>2
<1>6. Changed(q, p, operands, operators, p.prev_was_operand)
  BY <1>2, <1>4, Popped
<1> HIDE DEF n, operands, operators
<1>7. Agrees(p) => Agrees(q)
  <2> HIDE DEF before, after
  <2>1. Agrees(p) <=> n = before + IF p.prev_was_operand THEN 1 ELSE 0
    BY DEF Agrees, n, before
  <2>2. Agrees(q) <=> Len(operands) = after + IF p.prev_was_operand THEN 1 ELSE 0
    BY <1>6 DEF Agrees, Changed, after
  <2> QED BY <1>1, <1>4, <1>5, <2>1, <2>2
<1> QED BY <1>2, <1>6, <1>7 DEF Changed, Follows

LEMMA TakeKeeps ==
    ASSUME NEW p, IsParser(p), Agrees(p), p.error = "none", Len(p.operators) > 0,
           NEW short \in {"thrown", "undefined"}
    PROVE  Follows(Take(p, short), p)
           /\ Len(Take(p, short).operators) >= Len(p.operators) - 1
<1> PICK op, n, q : op = Last(p.operators) /\ n = Len(p.operands) /\ q = Take(p, short)
  OBVIOUS
<1>1. n \in Nat /\ Len(p.operators) \in Nat
  BY DEF IsParser, IsSeq
<1>2. CASE IsUnary(op) /\ n > 0
  <2>1. q = [p EXCEPT !.operators = Front(p.operators),
                !.operands = Append(SubSeq(p.operands, 1, Len(p.operands) - 1),
                                    Yard(op, "", Nil, p.operands[n]))]
    BY <1>1, <1>2 DEF Take
  <2>2. Joined(q, p, 1)
    BY <2>1, Zenon DEF Joined
  <2>3. Follows(q, p) /\ Len(q.operators) = Len(p.operators) - 1
    BY <1>1, <1>2, <2>2, OperandsTaken
  <2> QED BY <1>1, <2>3
<1>3. CASE ~IsUnary(op) /\ n > 1
  <2>1. q = [p EXCEPT !.operators = Front(p.operators),
                !.operands = Append(SubSeq(p.operands, 1, Len(p.operands) - 2),
                                    Yard(op, "", p.operands[n - 1], p.operands[n]))]
    BY <1>1, <1>3 DEF Take
  <2>2. Joined(q, p, 2)
    BY <2>1, Zenon DEF Joined
  <2>3. Follows(q, p) /\ Len(q.operators) = Len(p.operators) - 1
    BY <1>1, <1>3, <2>2, OperandsTaken
  <2> QED BY <1>1, <2>3
<1>4. CASE ~IsUnary(op) /\ n = 0
  <2> DEFINE before == Cardinality(Binaries(Front(p.operators)))
  <2>1. n = before + 1 + IF p.prev_was_operand THEN 1 ELSE 0
    BY <1>4, TakenBinaries DEF IsParser, Agrees
  <2>2. before \in Nat
    BY FiniteBinaries, FrontOf DEF IsParser
  <2> HIDE DEF before
  <2> QED BY <1>4, <2>1, <2>2
<1>5. CASE q = p
  BY <1>1, <1>5 DEF Follows
<1>6. CASE q = [p EXCEPT !.error = IF n = 0 THEN "thrown" ELSE short]
  <2>1. IsParser(q) /\ q.error # "none" /\ q.purpose = p.purpose
        /\ q.prev_was_operand = p.prev_was_operand /\ q.operators = p.operators
    BY <1>6, Failed DEF Errors
  <2> QED BY <1>1, <2>1 DEF Follows
<1> QED
  <2>1. CASE IsUnary(op) /\ n = 0
    BY <1>1, <1>5, <1>6, <2>1 DEF Take, IsUnary
  <2>2. CASE ~IsUnary(op) /\ n = 1
    BY <1>6, <2>2 DEF Take, IsUnary
  <2>3. n = 0 \/ n = 1 \/ n > 1
    <3>1. \A m \in Nat : m = 0 \/ m = 1 \/ m > 1
      OBVIOUS
    <3> QED BY <1>1, <3>1, Zenon
  <2> QED BY <1>2, <1>3, <1>4, <2>1, <2>2, <2>3
-----------------------------------------------------------------------------
(* The loop of takes.  The induction over its turns is an argument about   *)
(* the least turn that fails.                                              *)

LEMMA Least ==
    ASSUME NEW S, S \subseteq Nat, S # {}
    PROVE  \E n \in S : \A m \in S : n <= m
<1> DEFINE I == {0 .. n : n \in S}
<1>1. I \subseteq FiniteSubsetsOf(Nat) /\ I # {}
  <2>1. \A n \in S : IsFiniteSet(0 .. n) /\ 0 .. n \in SUBSET Nat
    BY FS_Interval
  <2> QED BY <2>1 DEF FiniteSubsetsOf
<1>2. PICK x \in I : \A y \in I : <<y, x>> \notin StrictSubsetOrdering(Nat)
  <2> HIDE DEF I
  <2>1. IsWellFoundedOn(StrictSubsetOrdering(Nat), FiniteSubsetsOf(Nat))
    BY FS_StrictSubsetOrderingWellFounded
  <2> QED BY <1>1, <2>1, WFMin
<1>3. PICK n \in S : x = 0 .. n
  OBVIOUS
<1>4. ASSUME NEW m \in S, ~(n <= m) PROVE FALSE
  <2>1. 0 .. m \in I /\ 0 .. m \subseteq 0 .. n /\ n \in 0 .. n /\ n \notin 0 .. m
    BY <1>4
  <2>2. <<0 .. m, 0 .. n>> \in StrictSubsetOrdering(Nat)
    <3>1. <<0 .. m, 0 .. n>> \in (SUBSET Nat) \X (SUBSET Nat)
      BY <2>1
    <3> QED BY <2>1, <3>1 DEF StrictSubsetOrdering
  <2> QED BY <1>2, <1>3, <2>1, <2>2
<1> QED BY <1>4

\* One turn, and f as the parsers after each of n turns.
Turn(q, short) == IF q.error = "none" THEN Take(q, short) ELSE q

Turns(f, p, n, short) == f = [k \in 0 .. n |-> IF k = 0 THEN p ELSE Turn(f[k - 1], short)]

LEMMA TurnsExist ==
    ASSUME NEW p, NEW short, NEW n \in Nat
    PROVE  \E f : Turns(f, p, n, short)
<1> DEFINE S == {m \in Nat : ~\E f : Turns(f, p, m, short)}
<1> SUFFICES ASSUME S # {} PROVE FALSE
  OBVIOUS
<1>1. PICK m \in S : \A l \in S : m <= l
  BY Least
<1>2. CASE m = 0
  <2> DEFINE f == [k \in 0 .. 0 |-> p]
  <2>1. f = [k \in 0 .. 0 |-> IF k = 0 THEN p ELSE Turn(f[k - 1], short)]
    OBVIOUS
  <2> QED BY <1>2, <2>1 DEF Turns
<1>3. CASE m # 0
  <2>1. m \in Nat /\ m - 1 \in Nat /\ ~(m <= m - 1)
    BY <1>3
  <2>2. m - 1 \notin S
    BY <1>1, <2>1
  <2>3. PICK g : Turns(g, p, m - 1, short)
    BY <2>1, <2>2
  <2> DEFINE f == [k \in 0 .. m |-> IF k = 0 THEN p ELSE Turn(g[k - 1], short)]
  <2>4. \A k \in 0 .. m - 1 : f[k] = g[k]
    BY <2>1, <2>3 DEF Turns
  <2>5. f = [k \in 0 .. m |-> IF k = 0 THEN p ELSE Turn(f[k - 1], short)]
    <3>1. \A k \in 0 .. m : k # 0 => k - 1 \in 0 .. m - 1
      BY <2>1
    <3>2. \A k \in 0 .. m : k # 0 => Turn(f[k - 1], short) = Turn(g[k - 1], short)
      BY <2>4, <3>1
    <3> QED BY <3>2
  <2> QED BY <2>5 DEF Turns
<1> QED BY <1>2, <1>3

LEMMA TakeLastTurns ==
    ASSUME NEW p, NEW count \in Nat, NEW short
    PROVE  \E f : Turns(f, p, count, short) /\ TakeLast(p, count, short) = f[count]
<1> DEFINE f == CHOOSE f : f = [k \in 0 .. count |-> IF k = 0 THEN p ELSE Turn(f[k - 1], short)]
<1>1. TakeLast(p, count, short) = f[count]
  BY DEF TakeLast, Turn
<1>2. Turns(f, p, count, short)
  BY TurnsExist DEF Turns
<1> QED BY <1>1, <1>2

LEMMA TakeLastKeeps ==
    ASSUME NEW p, IsParser(p), Agrees(p), NEW count \in Nat, count <= Len(p.operators),
           NEW short \in {"thrown", "undefined"}
    PROVE  Follows(TakeLast(p, count, short), p)
<1> DEFINE n == Len(p.operators)
           Kept(q, k) == Follows(q, p) /\ (q.error = "none" => Len(q.operators) >= n - k)
<1>1. PICK f : Turns(f, p, count, short) /\ TakeLast(p, count, short) = f[count]
  BY TakeLastTurns
<1>2. n \in Nat
  BY DEF IsParser, IsSeq
<1>3. Kept(f[0], 0)
  <2>1. f[0] = p
    BY <1>1 DEF Turns
  <2> QED BY <1>2, <2>1 DEF Follows
<1>4. ASSUME NEW k \in 0 .. count, k # 0, Kept(f[k - 1], k - 1)
      PROVE  Kept(f[k], k)
  <2> PICK q : q = f[k - 1]
    OBVIOUS
  <2>1. f[k] = Turn(q, short) /\ Kept(q, k - 1)
    BY <1>1, <1>4 DEF Turns
  <2>2. k \in Nat /\ k - 1 < n
    BY <1>2, <1>4
  <2>3. CASE q.error # "none"
    BY <2>1, <2>3 DEF Turn
  <2>4. CASE q.error = "none"
    <3>1. IsParser(q) /\ Agrees(q) /\ Len(q.operators) \in Nat /\ Len(q.operators) >= n - (k - 1)
      BY <2>1, <2>4 DEF Follows, IsParser, IsSeq
    <3>2. f[k] = Take(q, short)
      BY <2>1, <2>4 DEF Turn
    <3>3. Len(q.operators) > 0
      BY <1>2, <2>2, <3>1
    <3>4. Follows(f[k], q) /\ Len(f[k].operators) >= Len(q.operators) - 1
      BY <2>4, <3>1, <3>2, <3>3, TakeKeeps
    <3>5. Follows(f[k], p)
      BY <2>1, <3>4 DEF Follows
    <3>6. f[k].error = "none" => Len(f[k].operators) >= n - k
      <4>1. IsParser(f[k])
        BY <3>4 DEF Follows
      <4>2. Len(f[k].operators) \in Nat
        BY <4>1 DEF IsParser, IsSeq
      <4>3. \A i, l, m, j \in Nat : l >= m - 1 /\ m >= j - (i - 1) => l >= j - i
        OBVIOUS
      <4> HIDE DEF n
      <4> QED BY <1>2, <2>2, <3>1, <3>4, <4>2, <4>3
    <3> QED BY <3>5, <3>6
  <2> QED BY <2>3, <2>4
<1> DEFINE S == {k \in 0 .. count : ~Kept(f[k], k)}
<1>5. S = {}
  <2> SUFFICES ASSUME S # {} PROVE FALSE
    OBVIOUS
  <2>1. S \subseteq Nat
    OBVIOUS
  <2>2. PICK k \in S : \A l \in S : k <= l
    BY <2>1, Least
  <2> HIDE DEF Kept
  <2>3. k # 0 /\ k \in 0 .. count
    BY <1>3
  <2>4. k - 1 \in 0 .. count /\ ~(k <= k - 1)
    BY <2>3
  <2>5. k - 1 \notin S
    BY <2>2, <2>4
  <2> QED BY <1>4, <2>3, <2>4, <2>5
<1>6. Kept(f[count], count)
  <2> HIDE DEF Kept
  <2>1. count \in 0 .. count
    OBVIOUS
  <2> QED BY <1>5, <2>1
<1> QED BY <1>1, <1>6

LEMMA PrepareKeeps ==
    ASSUME NEW p, IsParser(p), Agrees(p)
    PROVE  Follows(PrepareExpression(p), p)
<1>1. Len(p.operators) \in Nat
  BY DEF IsParser, IsSeq
<1> QED BY <1>1, TakeLastKeeps DEF PrepareExpression

LEMMA BindingCounts ==
    ASSUME NEW p, IsParser(p), NEW prio
    PROVE  Binding(p, prio) \in Nat /\ Binding(p, prio) <= Len(p.operators)
<1> PICK n : n = Len(p.operators)
  OBVIOUS
<1> DEFINE bound == {i \in DOMAIN p.operators : \A j \in i .. n : Priority(p.operators[j]) <= prio}
<1>1. n \in Nat /\ DOMAIN p.operators = 1 .. n
  BY DEF IsParser, IsSeq
<1>2. bound \in SUBSET (1 .. n)
  BY <1>1
<1>3. Binding(p, prio) = Cardinality(bound)
  BY DEF Binding
<1> HIDE DEF bound
<1>4. IsFiniteSet(1 .. n) /\ Cardinality(1 .. n) = n
  BY <1>1, FS_Interval
<1>5. Cardinality(bound) \in Nat /\ Cardinality(bound) <= n
  BY <1>2, <1>4, FS_Subset, FS_CardinalityType
<1> QED BY <1>3, <1>5

\* A pending :: has its operands if one was read last.
LEMMA ScopedKeeps ==
    ASSUME NEW p, IsParser(p), Agrees(p), Len(p.operators) > 0, Last(p.operators) = "::",
           p.prev_was_operand
    PROVE  Follows(Scoped(p), p)
<1> PICK n : n = Len(p.operands)
  OBVIOUS
<1>1. n \in Nat
  BY DEF IsParser, IsSeq
<1>2. n > 1
  <2> DEFINE before == Cardinality(Binaries(Front(p.operators)))
  <2>1. ~IsUnary("::")
    BY DEF IsUnary
  <2>2. Len(p.operands) = before + 1 + 1
    BY <2>1, TakenBinaries DEF IsParser, Agrees
  <2>3. before \in Nat
    BY FiniteBinaries, FrontOf DEF IsParser
  <2> HIDE DEF before
  <2> QED BY <2>2, <2>3
<1>3. Joined(Scoped(p), p, 2)
  BY DEF Scoped, Joined
<1> QED BY <1>1, <1>2, <1>3, OperandsTaken DEF IsUnary

\* The operator lexem may follow what p has read.
Fits(lexem, p) ==
    /\ IsParser(p) /\ Agrees(p)
    /\ p.prev_was_operand <=> ~IsUnary(lexem)
    /\ p.operators # <<>> /\ Last(p.operators) = "::" => p.prev_was_operand

\* q is what becomes of p when it does.
Extends(q, p, lexem) ==
    /\ IsParser(q) /\ q.purpose = p.purpose /\ q.prev_was_operand = FALSE
    /\ q.operators # <<>> /\ Last(q.operators) = lexem
    /\ q.error = "none" => Agrees(q)

\* The operator is pushed once those before it have their operands.
LEMMA FixKeeps ==
    ASSUME NEW p, NEW lexem, Fits(lexem, p), NEW prio
    PROVE  Extends(FixExpression(p, lexem, prio), p, lexem)
<1> USE DEF Fits
<1>0. PICK q : q = FixExpression(p, lexem, prio)
  OBVIOUS
<1> PICK fixed : fixed = IF p.operators # <<>> /\ Last(p.operators) = "::" THEN Scoped(p)
                         ELSE TakeLast(p, Binding(p, prio), "undefined")
  OBVIOUS
<1>1. Follows(fixed, p)
  <2>1. CASE p.operators # <<>> /\ Last(p.operators) = "::"
    <3>1. Len(p.operators) > 0
      BY <2>1, Nonempty DEF IsParser
    <3> QED BY <2>1, <3>1, ScopedKeeps
  <2>2. CASE ~(p.operators # <<>> /\ Last(p.operators) = "::")
    BY <2>2, BindingCounts, TakeLastKeeps
  <2> QED BY <2>1, <2>2
<1>2. q = [fixed EXCEPT !.operators = Append(fixed.operators, lexem), !.prev_was_operand = FALSE]
  BY <1>0 DEF FixExpression
<1>3. IsParser(fixed) /\ IsSeq(fixed.operators)
  BY <1>1 DEF Follows, IsParser
<1> DEFINE operators == Append(fixed.operators, lexem)
<1>4. IsSeq(operators) /\ operators # <<>> /\ Last(operators) = lexem
  BY <1>3, Appended
<1> HIDE DEF operators
<1>5. Changed(q, fixed, fixed.operands, operators, FALSE)
  BY <1>2, <1>3, <1>4, OperatorPushed DEF operators
<1>6. ASSUME q.error = "none" PROVE p.error = "none" /\ Agrees(q)
  <2>1. p.error = "none" /\ Agrees(fixed) /\ fixed.prev_was_operand = p.prev_was_operand
    BY <1>1, <1>5, <1>6 DEF Follows, Changed
  <2> DEFINE before == Cardinality(Binaries(fixed.operators))
             after == Cardinality(Binaries(operators))
  <2>2. after = before + IF IsUnary(lexem) THEN 0 ELSE 1
    BY <1>3, AppendedBinaries DEF operators
  <2>3. before \in Nat
    BY <1>3, FiniteBinaries
  <2>4. Len(fixed.operands) = before + IF p.prev_was_operand THEN 1 ELSE 0
    BY <2>1 DEF Agrees
  <2>5. Agrees(q) <=> Len(fixed.operands) = after + 0
    BY <1>5 DEF Agrees, Changed
  <2> HIDE DEF before, after
  <2> QED BY <2>1, <2>2, <2>3, <2>4, <2>5
<1> QED BY <1>0, <1>1, <1>4, <1>5, <1>6 DEF Changed, Follows, Extends
-----------------------------------------------------------------------------
(* The texts of the theorem.                                               *)

\* Named, since the encoding for the SMT solver does not take this string.
Comma == ","

\* ends says behind which lexemes an operand has been read.  A word and
\* a bracket that closes end one, but for the bracket behind the type of
\* a cast; prefix operators stand where none has been read and the others
\* where one has; a word follows "::", and "int" stands in casts only.
TakeTurns(ends) ==
    /\ ends \in [0 .. Len(text) -> BOOLEAN]
    /\ ~ends[0]
    /\ \A k \in 1 .. Len(text) :
          /\ text[k] \in Words => ~ends[k - 1] /\ ends[k]
          /\ text[k] = ")" => (ends[k] <=> ~(k > 1 /\ text[k - 1] = "int"))
          /\ text[k] = "]" => ends[k]
          /\ text[k] = "++" => (ends[k] <=> ends[k - 1])
          /\ text[k] = "!" => ~ends[k - 1] /\ ~ends[k]
          /\ text[k] \in DOMAIN PrefixMeaning => ~ends[k]
          /\ text[k] \in (Operators \ (DOMAIN PrefixMeaning \union {"!"})) \union {"?", ":", "[", Comma}
                => ends[k - 1] /\ ~ends[k]
          /\ text[k] = "(" => ~ends[k]
          /\ text[k] = "::" => k < Len(text) /\ text[k + 1] \in Words
          /\ text[k] = "int" =>
                /\ k > 1 /\ k < Len(text)
                /\ text[k - 1] = "(" /\ ~ends[k - 2] /\ text[k + 1] = ")"

\* The brackets that are open behind the k-th lexeme.
Unclosed(k) == Between(Opening, 1, k) - Between(Shutting, 1, k)

Balanced == Unclosed(Len(text)) = 0 /\ \A k \in 0 .. Len(text) : Unclosed(k) >= 0

LEMMA CommaApart == Comma \notin {"(", "[", ")", "]"}
BY Zenon DEF Comma

LEMMA CommaInt == Comma # "int"
BY Zenon DEF Comma

LEMMA Counted ==
    ASSUME NEW lexems, NEW first \in Int, NEW last \in Int
    PROVE  /\ IsFiniteSet({i \in first .. last : text[i] \in lexems})
           /\ Between(lexems, first, last) \in Nat
<1> DEFINE found == {i \in first .. last : text[i] \in lexems}
<1>1. IsFiniteSet(first .. last) /\ found \subseteq first .. last
  BY FS_Interval
<1> QED BY <1>1, FS_Subset, FS_CardinalityType DEF Between

LEMMA CountNext ==
    ASSUME NEW lexems, NEW i \in Nat
    PROVE  Between(lexems, 1, i + 1)
             = Between(lexems, 1, i) + IF text[i + 1] \in lexems THEN 1 ELSE 0
<1> DEFINE old == {k \in 1 .. i : text[k] \in lexems}
           new == {k \in 1 .. i + 1 : text[k] \in lexems}
<1>1. new = old \union (IF text[i + 1] \in lexems THEN {i + 1} ELSE {}) /\ i + 1 \notin old
  OBVIOUS
<1>2. IsFiniteSet(old) /\ Cardinality(old) \in Nat
  <2>1. 1 \in Int /\ i \in Int
    OBVIOUS
  <2> QED BY <2>1, Counted, Zenon DEF Between
<1> HIDE DEF old, new
<1>3. Cardinality(new) = Cardinality(old) + IF text[i + 1] \in lexems THEN 1 ELSE 0
  <2>1. CASE text[i + 1] \in lexems
    <3>1. new = old \union {i + 1}
      BY <1>1, <2>1
    <3>2. Cardinality(new) = Cardinality(old) + 1
      BY <1>1, <1>2, <3>1, FS_AddElement
    <3> QED BY <2>1, <3>2
  <2>2. CASE text[i + 1] \notin lexems
    BY <1>1, <1>2, <2>2
  <2> QED BY <2>1, <2>2
<1> QED BY <1>3 DEF Between, old, new

LEMMA CountSplit ==
    ASSUME NEW lexems, NEW i \in Nat, NEW j \in Nat, i <= j
    PROVE  Between(lexems, 1, j) = Between(lexems, 1, i) + Between(lexems, i + 1, j)
<1> DEFINE low == {k \in 1 .. i : text[k] \in lexems}
           high == {k \in i + 1 .. j : text[k] \in lexems}
           all == {k \in 1 .. j : text[k] \in lexems}
<1>1. all = low \union high /\ low \cap high = {}
  OBVIOUS
<1>2. /\ IsFiniteSet(low) /\ IsFiniteSet(high)
      /\ Cardinality(low) \in Nat /\ Cardinality(high) \in Nat
  <2>1. 1 \in Int /\ i \in Int /\ i + 1 \in Int /\ j \in Int
    OBVIOUS
  <2> QED BY <2>1, Counted, Zenon DEF Between
<1> HIDE DEF low, high, all
<1>3. Cardinality(all) = Cardinality(low) + Cardinality(high) - Cardinality({})
  BY <1>1, <1>2, FS_Union
<1>4. Cardinality(all) = Cardinality(low) + Cardinality(high)
  BY <1>2, <1>3, FS_EmptySet
<1> QED BY <1>4 DEF Between, low, high, all

LEMMA UnclosedNext ==
    ASSUME NEW i \in Nat
    PROVE  /\ Unclosed(i) \in Int
           /\ text[i + 1] \in Opening => Unclosed(i + 1) = Unclosed(i) + 1
           /\ text[i + 1] \in Shutting => Unclosed(i + 1) = Unclosed(i) - 1
           /\ text[i + 1] \notin Opening \union Shutting => Unclosed(i + 1) = Unclosed(i)
<1> DEFINE o == Between(Opening, 1, i)
           oo == Between(Opening, 1, i + 1)
           s == Between(Shutting, 1, i)
           ss == Between(Shutting, 1, i + 1)
<1>1. o \in Nat /\ s \in Nat
  <2>1. 1 \in Int /\ i \in Int
    OBVIOUS
  <2> QED BY <2>1, Counted, Zenon
<1>2. oo = o + IF text[i + 1] \in Opening THEN 1 ELSE 0
  BY CountNext
<1>3. ss = s + IF text[i + 1] \in Shutting THEN 1 ELSE 0
  BY CountNext
<1>4. Unclosed(i) = o - s /\ Unclosed(i + 1) = oo - ss
  BY DEF Unclosed
<1>5. \A l : l \in Opening => l \notin Shutting
  BY DEF Opening, Shutting
<1> HIDE DEF o, oo, s, ss
<1> QED BY <1>1, <1>2, <1>3, <1>4, <1>5

\* The bracket that a comma skips to is the one that closes the innermost
\* open one, and not that of a cast.
LEMMA ClosingCloses ==
    ASSUME text \in Seq(STRING), index \in Nat, index < Len(text), text[index + 1] = Comma,
           Unclosed(index) > 0, Balanced, NEW ends, TakeTurns(ends),
           NEW c, c = Closing
    PROVE  /\ c \in index + 1 .. Len(text) /\ text[c] \in Shutting
           /\ ends[c] /\ Unclosed(c) = Unclosed(index) - 1
<1> PICK n, u : n = Len(text) /\ u = Unclosed(index)
  OBVIOUS
<1> DEFINE Closes(i) == Between(Shutting, index + 1, i) > Between(Opening, index + 1, i)
<1>1. n \in Nat /\ u \in Int
  BY UnclosedNext
<1>2. \A i \in Nat : Unclosed(i) \in Int
  BY UnclosedNext
<1>3. \A i \in index + 1 .. n : Closes(i) <=> Unclosed(i) < u
  <2> TAKE i \in index + 1 .. n
  <2> DEFINE o == Between(Opening, 1, index)
             oo == Between(Opening, 1, i)
             d == Between(Opening, index + 1, i)
             s == Between(Shutting, 1, index)
             ss == Between(Shutting, 1, i)
             e == Between(Shutting, index + 1, i)
  <2>1. i \in Nat /\ index <= i /\ i \in Int /\ index + 1 \in Int /\ 1 \in Int /\ index \in Int
    BY <1>1
  <2>2. oo = o + d /\ ss = s + e
    BY <2>1, CountSplit
  <2>3. o \in Nat /\ d \in Nat /\ s \in Nat /\ e \in Nat
    BY <2>1, Counted, Zenon
  <2>4. u = o - s /\ Unclosed(i) = oo - ss
    BY DEF Unclosed
  <2>5. Closes(i) <=> e > d
    OBVIOUS
  <2> HIDE DEF o, oo, d, s, ss, e, Closes
  <2> QED BY <2>2, <2>3, <2>4, <2>5
<1> DEFINE First(i) == Closes(i) /\ \A j \in index + 1 .. i - 1 : ~Closes(j)
<1>4. c = CHOOSE i \in index + 1 .. n : First(i)
  BY DEF Closing
<1> HIDE DEF Closes
<1>5. \E i \in index + 1 .. n : First(i)
  <2> DEFINE S == {i \in index + 1 .. n : Closes(i)}
  <2>1. S \subseteq Nat
    BY <1>1
  <2>2. n \in S
    <3>1. n \in index + 1 .. n /\ Unclosed(n) = 0
      BY <1>1 DEF Balanced
    <3> QED BY <1>3, <3>1
  <2>3. PICK i \in S : \A j \in S : i <= j
    BY <2>1, <2>2, Least
  <2>4. \A j \in index + 1 .. i - 1 : ~Closes(j)
    <3> TAKE j \in index + 1 .. i - 1
    <3>1. j \in index + 1 .. n /\ ~(i <= j)
      BY <1>1
    <3> QED BY <2>3, <3>1
  <2> QED BY <2>3, <2>4
<1>6. c \in index + 1 .. n /\ First(c)
  BY <1>4, <1>5
<1>7. Unclosed(c) < u /\ \A j \in index + 1 .. c - 1 : Unclosed(j) >= u
  <2>1. \A j \in index + 1 .. c - 1 : j \in index + 1 .. n /\ ~Closes(j)
    BY <1>1, <1>6
  <2>2. \A j \in index + 1 .. c - 1 : Unclosed(j) \in Int /\ ~(Unclosed(j) < u)
    BY <1>2, <1>3, <2>1
  <2> QED BY <1>1, <1>3, <1>6, <2>2
<1> HIDE DEF First
<1>8. Unclosed(index + 1) = u
  BY CommaApart, UnclosedNext DEF Opening, Shutting
<1>9. c \in Nat /\ c > index + 1 /\ c <= n
  <2>1. c # index + 1
    BY <1>1, <1>7, <1>8
  <2> QED BY <1>1, <1>6, <2>1
<1>10. PICK b \in Nat : c = b + 1 /\ b >= index + 1 /\ b \in index + 1 .. c - 1
  BY <1>9
<1>11. text[c] \in Shutting /\ Unclosed(c) = u - 1
  <2>1. Unclosed(b) \in Int /\ Unclosed(b) >= u
    BY <1>2, <1>7, <1>10
  <2>2. /\ text[c] \in Opening => Unclosed(c) = Unclosed(b) + 1
        /\ text[c] \in Shutting => Unclosed(c) = Unclosed(b) - 1
        /\ text[c] \notin Opening \union Shutting => Unclosed(c) = Unclosed(b)
    BY <1>10, UnclosedNext
  <2> QED BY <1>1, <1>7, <2>1, <2>2
<1>12. ~(c > 1 /\ text[c - 1] = "int")
  <2> SUFFICES ASSUME text[b] = "int" PROVE FALSE
    BY <1>10
  <2>1. b > 1 /\ text[b - 1] = "("
    BY <1>9, <1>10 DEF TakeTurns
  <2>2. b # index + 1 /\ b - 1 # index + 1
    BY <2>1, CommaInt, CommaApart
  <2>3. PICK a \in Nat : b = a + 2 /\ a \in index + 1 .. c - 1
    BY <1>10, <2>1, <2>2
  <2>4. Unclosed(a) \in Int /\ Unclosed(a) >= u
    BY <1>2, <1>7, <2>3
  <2>5. Unclosed(a + 1) = Unclosed(a) + 1
    BY <2>1, <2>3, UnclosedNext DEF Opening
  <2>6. Unclosed(b) = Unclosed(a + 1)
    <3>1. a + 1 \in Nat /\ b = (a + 1) + 1
      BY <2>3
    <3> QED BY <3>1, UnclosedNext DEF Opening, Shutting
  <2>7. Unclosed(c) = Unclosed(b) - 1
    BY <1>10, <1>11, UnclosedNext
  <2> QED BY <1>1, <1>7, <2>4, <2>5, <2>6, <2>7
<1>13. ends[c]
  <2>1. c \in 1 .. Len(text)
    BY <1>9
  <2>2. text[c] = ")" \/ text[c] = "]"
    BY <1>11 DEF Shutting
  <2> QED BY <1>12, <2>1, <2>2 DEF TakeTurns
<1> QED BY <1>6, <1>11, <1>13
-----------------------------------------------------------------------------
(* The stack of parsers, one for each open bracket.                        *)

Sound(p) == IsParser(p) /\ Agrees(p)

\* Parser q reads a bracket in the expression of p: one that is called or
\* indexed was read last, and in front of a parenthesis none was.
Holds(p, q) ==
    /\ q.purpose \in {"parenthesis", "index", "call", "method"}
    /\ p.prev_was_operand <=> q.purpose # "parenthesis"

Nested(ps) ==
    /\ IsSeq(ps) /\ Len(ps) > 0
    /\ \A k \in 1 .. Len(ps) : Sound(ps[k])
    /\ ps[1].purpose = "expression"
    /\ \A k \in 1 .. Len(ps) - 1 : Holds(ps[k], ps[k + 1])

\* A :: without its second operand has just been read.
Scopes(p, i) ==
    ~p.prev_was_operand /\ p.operators # <<>> /\ Last(p.operators) = "::"
        => i > 0 /\ text[i] = "::"

Good(ends, ps, i) ==
    /\ i \in 0 .. Len(text)
    /\ Nested(ps)
    /\ Len(ps) - 1 = Unclosed(i)
    /\ ps[Len(ps)].prev_was_operand <=> ends[i]
    /\ Scopes(ps[Len(ps)], i)
    /\ i > 0 => text[i] # "int"

Ready(ends) ==
    text \in Seq(STRING) /\ Balanced /\ TakeTurns(ends) /\ Good(ends, parsers, index)

Keeps(ends) == status' = "parse" => Good(ends, parsers', index')

LEMMA ReplacedTop ==
    ASSUME NEW ps, Nested(ps), NEW q, Sound(q), q.purpose = ps[Len(ps)].purpose,
           NEW t, Updated(t, ps, Len(ps), q)
    PROVE  Nested(t) /\ Len(t) = Len(ps) /\ t[Len(ps)] = q
<1> PICK n : n = Len(ps)
  OBVIOUS
<1>1. n \in Nat /\ n > 0 /\ n \in 1 .. n
  BY DEF Nested, IsSeq
<1>2. IsSeq(t) /\ Len(t) = n /\ t[n] = q /\ \A k \in 1 .. n : k # n => t[k] = ps[k]
  <2>1. IsSeq(ps)
    BY DEF Nested
  <2>2. n \in 1 .. Len(ps) /\ Updated(t, ps, n, q)
    BY <1>1
  <2>3. /\ IsSeq(t) /\ Len(t) = Len(ps) /\ t[n] = q
        /\ \A k \in 1 .. Len(ps) : k # n => t[k] = ps[k]
    BY <2>1, <2>2, ElementReplaced
  <2> QED BY <2>3
<1>3. \A k \in 1 .. n : Sound(t[k]) /\ t[k].purpose = ps[k].purpose
  BY <1>2 DEF Nested
<1>4. \A k \in 1 .. n - 1 : Holds(t[k], t[k + 1])
  <2> TAKE k \in 1 .. n - 1
  <2>1. k \in 1 .. n /\ k # n /\ k + 1 \in 1 .. n
    BY <1>1
  <2>2. Holds(ps[k], ps[k + 1])
    BY DEF Nested
  <2> QED BY <1>2, <1>3, <2>1, <2>2 DEF Holds
<1>5. t[1].purpose = "expression"
  BY <1>1, <1>3 DEF Nested
<1> QED BY <1>1, <1>2, <1>3, <1>4, <1>5 DEF Nested

LEMMA PushedTop ==
    ASSUME NEW ps, Nested(ps), NEW q, Sound(q), Holds(ps[Len(ps)], q), NEW t, t = Append(ps, q)
    PROVE  Nested(t) /\ Len(t) = Len(ps) + 1 /\ t[Len(t)] = q
<1> PICK n : n = Len(ps)
  OBVIOUS
<1>1. n \in Nat /\ n > 0
  BY DEF Nested, IsSeq
<1>2. IsSeq(t) /\ Len(t) = n + 1 /\ t[n + 1] = q /\ \A k \in 1 .. n : t[k] = ps[k]
  BY <1>1, Appended DEF Nested
<1>3. \A k \in 1 .. n + 1 : Sound(t[k])
  <2> TAKE k \in 1 .. n + 1
  <2>1. k \in 1 .. n \/ k = n + 1
    BY <1>1
  <2> QED BY <1>2, <2>1 DEF Nested
<1>4. \A k \in 1 .. n : Holds(t[k], t[k + 1])
  <2> TAKE k \in 1 .. n
  <2>1. k = n \/ (k \in 1 .. n - 1 /\ k + 1 \in 1 .. n)
    BY <1>1
  <2> QED BY <1>2, <2>1 DEF Nested
<1>5. t[1].purpose = "expression"
  BY <1>1, <1>2 DEF Nested
<1>6. Len(t) > 0 /\ Len(t) - 1 = n
  BY <1>1, <1>2
<1> QED BY <1>2, <1>3, <1>4, <1>5, <1>6 DEF Nested

LEMMA PoppedTop ==
    ASSUME NEW ps, Nested(ps), Len(ps) > 1, NEW t, t = Front(ps)
    PROVE  /\ Nested(t) /\ Len(t) = Len(ps) - 1
           /\ Last(t) = t[Len(t)] /\ t[Len(t)] = ps[Len(ps) - 1] /\ Holds(t[Len(t)], ps[Len(ps)])
<1> PICK n : n = Len(ps)
  OBVIOUS
<1>1. n \in Nat /\ n > 1
  BY DEF Nested, IsSeq
<1>2. IsSeq(t) /\ Len(t) = n - 1 /\ \A k \in 1 .. n - 1 : t[k] = ps[k]
  BY <1>1, FrontOf DEF Nested
<1>3. n - 1 \in 1 .. n - 1 /\ (n - 1) + 1 = n
  BY <1>1
<1>4. t[n - 1] = ps[n - 1] /\ Holds(ps[n - 1], ps[n])
  BY <1>2, <1>3 DEF Nested
<1>5. \A k \in 1 .. n - 1 : Sound(t[k])
  BY <1>1, <1>2 DEF Nested
<1>6. \A k \in 1 .. (n - 1) - 1 : Holds(t[k], t[k + 1])
  <2> TAKE k \in 1 .. (n - 1) - 1
  <2>1. k \in 1 .. n - 1 /\ k + 1 \in 1 .. n - 1
    BY <1>1
  <2> QED BY <1>2, <2>1 DEF Nested
<1>7. t[1].purpose = "expression"
  BY <1>1, <1>2 DEF Nested
<1>8. Last(t) = t[Len(t)]
  BY DEF Last
<1> QED BY <1>1, <1>2, <1>4, <1>5, <1>6, <1>7, <1>8 DEF Nested

-----------------------------------------------------------------------------
(* The lexeme that is read, and the parser that reads it.                  *)

LEMMA WordsApart ==
    /\ \A w \in Words : w \notin Operators \union {"?", ":", "++", "(", ")", "[", "]", "int"}
    /\ Comma \notin Words
BY WordsAssumption, Zenon DEF Operators, Comma

LEMMA ReadyNow ==
    ASSUME NEW ends, Ready(ends)
    PROVE  /\ index \in Nat /\ Len(text) \in Nat /\ index <= Len(text)
           /\ Nested(parsers) /\ Len(parsers) \in Nat /\ Len(parsers) > 0
           /\ Len(parsers) - 1 = Unclosed(index)
           /\ parser = parsers[Len(parsers)] /\ Sound(parser)
           /\ parser.prev_was_operand <=> ends[index]
           /\ Scopes(parser, index)
           /\ index > 0 => text[index] # "int"
<1>1. Len(text) \in Nat
  BY DEF Ready
<1>2. index \in 0 .. Len(text) /\ Nested(parsers) /\ Len(parsers) - 1 = Unclosed(index)
  BY DEF Ready, Good
<1>3. Len(parsers) \in Nat /\ Len(parsers) > 0 /\ Len(parsers) \in 1 .. Len(parsers)
  BY <1>2 DEF Nested, IsSeq
<1>4. parser = parsers[Len(parsers)]
  BY DEF parser, Last
<1>5. Sound(parsers[Len(parsers)])
  BY <1>2, <1>3 DEF Nested
<1>6. /\ parsers[Len(parsers)].prev_was_operand <=> ends[index]
      /\ Scopes(parsers[Len(parsers)], index)
      /\ index > 0 => text[index] # "int"
  BY DEF Ready, Good
<1>7. index \in Nat /\ index <= Len(text)
  BY <1>1, <1>2
<1> QED BY <1>1, <1>2, <1>3, <1>4, <1>5, <1>6, <1>7, Zenon

\* TakeTurns, of the lexeme that is read.
LEMMA TurnNow ==
    ASSUME NEW ends, Ready(ends), index < Len(text), NEW l, l = text[index + 1]
    PROVE  /\ l \in Words => ~ends[index] /\ ends[index + 1]
           /\ l = ")" => (ends[index + 1] <=> ~(index > 0 /\ text[index] = "int"))
           /\ l = "]" => ends[index + 1]
           /\ l = "++" => (ends[index + 1] <=> ends[index])
           /\ l = "!" => ~ends[index] /\ ~ends[index + 1]
           /\ l \in DOMAIN PrefixMeaning => ~ends[index + 1]
           /\ l \in (Operators \ (DOMAIN PrefixMeaning \union {"!"})) \union {"?", ":", "[", Comma}
                => ends[index] /\ ~ends[index + 1]
           /\ l = "(" => ~ends[index + 1]
<1>1. index \in Nat /\ Len(text) \in Nat
  BY ReadyNow
<1>2. PICK k : k = index + 1
  OBVIOUS
<1>3. k \in 1 .. Len(text) /\ k - 1 = index /\ (k > 1 <=> index > 0)
  BY <1>1, <1>2
<1>4. l = text[k]
  BY <1>2
<1> DEFINE At(last, next) ==
           /\ l \in Words => ~last /\ next
           /\ l = ")" => (next <=> ~(k > 1 /\ text[k - 1] = "int"))
           /\ l = "]" => next
           /\ l = "++" => (next <=> last)
           /\ l = "!" => ~last /\ ~next
           /\ l \in DOMAIN PrefixMeaning => ~next
           /\ l \in (Operators \ (DOMAIN PrefixMeaning \union {"!"})) \union {"?", ":", "[", Comma}
                => last /\ ~next
           /\ l = "(" => ~next
<1>5. At(ends[k - 1], ends[k])
  BY <1>3, <1>4 DEF Ready, TakeTurns
<1>6. At(ends[index], ends[index + 1])
  <2> HIDE DEF At
  <2> QED BY <1>2, <1>3, <1>5
<1> QED BY <1>3, <1>6, Zenon

\* Behind a :: a word is read.
LEMMA ScopeDone ==
    ASSUME NEW ends, Ready(ends), index < Len(text), text[index + 1] \notin Words
    PROVE  parser.operators # <<>> /\ Last(parser.operators) = "::" => parser.prev_was_operand
<1> SUFFICES ASSUME parser.operators # <<>>, Last(parser.operators) = "::", ~parser.prev_was_operand
             PROVE  FALSE
  OBVIOUS
<1>1. index > 0 /\ text[index] = "::"
  BY ReadyNow DEF Scopes
<1>2. index \in 1 .. Len(text)
  BY <1>1, ReadyNow
<1>3. text[index + 1] \in Words
  BY <1>1, <1>2, Zenon DEF Ready, TakeTurns
<1> QED BY <1>3

\* An error ends the parse.
LEMMA BecomeFails ==
    ASSUME NEW ends, NEW q, q.error \in Errors, q.error # "none", Become(q)
    PROVE  Keeps(ends)
BY DEF Become, Keeps, Errors

\* The innermost parser has read a lexeme that is no bracket.
LEMMA BecomeKeeps ==
    ASSUME NEW ends, Ready(ends), index < Len(text),
           text[index + 1] \notin Opening \union Shutting, text[index + 1] # "int",
           NEW q, q.error \in Errors, Become(q),
           q.error = "none" =>
               /\ Sound(q) /\ q.purpose = parser.purpose
               /\ q.prev_was_operand <=> ends[index + 1]
               /\ Scopes(q, index + 1)
    PROVE  Keeps(ends)
<1>1. CASE q.error # "none"
  BY <1>1, BecomeFails
<1>2. CASE q.error = "none"
  <2>1. parsers' = [parsers EXCEPT ![Len(parsers)] = q] /\ index' = index + 1
    BY DEF Become
  <2>2. Nested(parsers) /\ q.purpose = parsers[Len(parsers)].purpose /\ Sound(q)
    BY <1>2, ReadyNow
  <2>3. Nested(parsers') /\ Len(parsers') = Len(parsers) /\ parsers'[Len(parsers)] = q
    <3>1. Updated(parsers', parsers, Len(parsers), q)
      BY <2>1 DEF Updated
    <3> QED BY <2>2, <3>1, ReplacedTop
  <2>4. index \in Nat /\ index' \in 0 .. Len(text) /\ index + 1 > 0
    BY <2>1, ReadyNow
  <2>5. Len(parsers') - 1 = Unclosed(index')
    <3>1. Unclosed(index + 1) = Unclosed(index)
      BY <2>4, UnclosedNext
    <3>2. Len(parsers) - 1 = Unclosed(index)
      BY ReadyNow
    <3> QED BY <2>1, <2>3, <3>1, <3>2
  <2>6. parsers'[Len(parsers')] = q
    BY <2>3
  <2>7. text[index'] # "int" /\ Scopes(q, index') /\ (q.prev_was_operand <=> ends[index'])
    BY <1>2, <2>1
  <2> QED BY <2>3, <2>4, <2>5, <2>6, <2>7, Zenon DEF Keeps, Good
<1> QED BY <1>1, <1>2
-----------------------------------------------------------------------------
(* Operands and operators.                                                 *)

LEMMA PushedParser ==
    ASSUME NEW p, IsParser(p), NEW operand, NEW q, q = Pushed(p, operand)
    PROVE  Changed(q, p, Append(p.operands, operand), p.operators, TRUE)
<1>1. IsSeq(Append(p.operands, operand))
  BY Appended DEF IsParser
<1>2. q = [p EXCEPT !.operands = Append(p.operands, operand), !.prev_was_operand = TRUE]
  BY DEF Pushed
<1> QED BY <1>1, <1>2, OperandPushed

LEMMA PushedKeeps ==
    ASSUME NEW p, Sound(p), ~p.prev_was_operand, NEW operand, NEW q, q = Pushed(p, operand)
    PROVE  Sound(q) /\ q.prev_was_operand /\ q.purpose = p.purpose /\ q.error = p.error
<1> DEFINE operands == Append(p.operands, operand)
<1>1. IsParser(p) /\ IsSeq(p.operands) /\ Len(p.operands) \in Nat
  BY DEF Sound, IsParser, IsSeq
<1>2. IsSeq(operands) /\ Len(operands) = Len(p.operands) + 1
  BY <1>1, Appended
<1>4. Changed(q, p, operands, p.operators, TRUE)
  BY <1>1, PushedParser
<1> HIDE DEF operands
<1>5. Agrees(q)
  <2> DEFINE need == Cardinality(Binaries(p.operators))
  <2>1. Len(p.operands) = need + 0
    BY DEF Sound, Agrees
  <2>2. need \in Nat
    BY <1>1, FiniteBinaries DEF IsParser
  <2>3. Agrees(q) <=> Len(operands) = need + 1
    BY <1>4 DEF Changed, Agrees
  <2> HIDE DEF need
  <2> QED BY <1>1, <1>2, <2>1, <2>2, <2>3
<1> QED BY <1>4, <1>5 DEF Changed, Sound

\* Where an operand was read last there is one to replace.
LEMMA ReplacedKeeps ==
    ASSUME NEW p, Sound(p), p.prev_was_operand, NEW operand, NEW q, q = Replaced(p, operand)
    PROVE  Sound(q) /\ q.prev_was_operand /\ q.purpose = p.purpose /\ q.error = p.error
<1> DEFINE operands == Append(Front(p.operands), operand)
           need == Cardinality(Binaries(p.operators))
<1>1. IsParser(p) /\ IsSeq(p.operands) /\ Len(p.operands) \in Nat
  BY DEF Sound, IsParser, IsSeq
<1>2. Len(p.operands) = need + 1 /\ need \in Nat
  <2>1. Len(p.operands) = need + 1
    BY DEF Sound, Agrees
  <2>2. need \in Nat
    BY <1>1, FiniteBinaries DEF IsParser
  <2> QED BY <2>1, <2>2
<1> HIDE DEF need
<1>3. IsSeq(Front(p.operands)) /\ Len(Front(p.operands)) = Len(p.operands) - 1
  BY <1>1, <1>2, FrontOf
<1>4. IsSeq(operands) /\ Len(operands) = Len(p.operands)
  BY <1>1, <1>3, Appended
<1> HIDE DEF operands
<1>5. q = [p EXCEPT !.operands = operands]
  BY DEF Replaced, operands
<1>6. Changed(q, p, operands, p.operators, p.prev_was_operand)
  BY <1>1, <1>4, <1>5, OperandsChanged
<1>7. Agrees(q)
  BY <1>4, <1>6 DEF Sound, Agrees, Changed
<1> QED BY <1>6, <1>7 DEF Changed, Sound

\* An operator is read where the turn is its own.
LEMMA FixedKeeps ==
    ASSUME NEW ends, Ready(ends), index < Len(text), text[index + 1] \notin Words,
           text[index + 1] \notin Opening \union Shutting, text[index + 1] # "int",
           NEW lexem, lexem = "::" => text[index + 1] = "::",
           ends[index] <=> ~IsUnary(lexem), ~ends[index + 1],
           NEW prio, Become(FixExpression(parser, lexem, prio))
    PROVE  Keeps(ends)
<1> PICK q : q = FixExpression(parser, lexem, prio)
  OBVIOUS
<1>1. Sound(parser) /\ (parser.prev_was_operand <=> ~IsUnary(lexem)) /\ index \in Nat
  BY ReadyNow
<1>2. parser.operators # <<>> /\ Last(parser.operators) = "::" => parser.prev_was_operand
  BY ScopeDone
<1>3. Extends(q, parser, lexem)
  <2>1. Fits(lexem, parser)
    BY <1>1, <1>2 DEF Fits, Sound
  <2> QED BY <2>1, FixKeeps
<1>4. Scopes(q, index + 1)
  BY <1>1, <1>3 DEF Scopes, Extends
<1>5. q.error \in Errors /\ (q.error = "none" => Sound(q)) /\ Become(q)
  BY <1>3 DEF Sound, IsParser, Extends
<1> QED BY <1>3, <1>4, <1>5, BecomeKeeps DEF Extends

LEMMA OperandKeeps ==
    ASSUME NEW ends, Ready(ends), Operand
    PROVE  Keeps(ends)
<1> PICK q : q = Pushed(parser, Word(text[index + 1]))
  OBVIOUS
<1>1. index < Len(text) /\ text[index + 1] \in Words /\ Become(q)
  BY Zenon DEF Operand, Reads
<1>2. ~ends[index] /\ ends[index + 1]
  BY <1>1, TurnNow
<1>3. Sound(parser) /\ ~parser.prev_was_operand
  BY <1>2, ReadyNow
<1>4. Sound(q) /\ q.prev_was_operand /\ q.purpose = parser.purpose /\ q.error \in Errors
  BY <1>3, PushedKeeps DEF Sound, IsParser
<1>5. text[index + 1] \notin Opening \union Shutting /\ text[index + 1] # "int"
  BY <1>1, WordsApart DEF Opening, Shutting
<1>6. Scopes(q, index + 1)
  BY <1>4 DEF Scopes
<1> QED BY <1>1, <1>2, <1>4, <1>5, <1>6, BecomeKeeps

LEMMA OperatorKeeps ==
    ASSUME NEW ends, Ready(ends), Operator
    PROVE  Keeps(ends)
<1> PICK l, m : l = text[index + 1] /\ m = Meant(parser, l)
  OBVIOUS
<1>1. index < Len(text) /\ l \in Operators /\ Become(FixExpression(parser, m, Priority(m)))
  BY DEF Operator, Reads
<1>2. l \notin Words /\ l \notin Opening \union Shutting /\ l # "int"
  BY <1>1, WordsApart DEF Operators, Opening, Shutting
<1>3. parser.prev_was_operand <=> ends[index]
  BY ReadyNow
<1>4. CASE l \in DOMAIN PrefixMeaning
  <2>1. ~ends[index + 1]
    BY <1>1, <1>4, TurnNow
  <2>2. (ends[index] <=> ~IsUnary(m)) /\ m # "::"
    BY <1>3, <1>4 DEF Meant, PrefixMeaning, IsUnary
  <2> QED BY <1>1, <1>2, <2>1, <2>2, FixedKeeps
<1>5. CASE l = "!"
  <2>1. ~ends[index] /\ ~ends[index + 1]
    BY <1>1, <1>5, TurnNow
  <2>2. m = "!" /\ IsUnary(m)
    BY <1>5 DEF Meant, PrefixMeaning, IsUnary
  <2> QED BY <1>1, <1>2, <2>1, <2>2, FixedKeeps
<1>6. CASE l \notin DOMAIN PrefixMeaning /\ l # "!"
  <2>1. ends[index] /\ ~ends[index + 1]
    BY <1>1, <1>6, TurnNow
  <2>2. m = l /\ ~IsUnary(m)
    BY <1>1, <1>6 DEF Meant, Operators, IsUnary
  <2> QED BY <1>1, <1>2, <2>1, <2>2, FixedKeeps
<1> QED BY <1>4, <1>5, <1>6

LEMMA TernaryKeeps ==
    ASSUME NEW ends, Ready(ends), Ternary
    PROVE  Keeps(ends)
<1> PICK l : l = text[index + 1]
  OBVIOUS
<1>1. index < Len(text) /\ l \in {"?", ":"} /\ Become(FixExpression(parser, l, 140))
  BY DEF Ternary, Reads
<1>2. l \notin Words /\ l \notin Opening \union Shutting /\ l # "int" /\ l # "::"
  BY <1>1, WordsApart DEF Opening, Shutting
<1>3. ends[index] /\ ~ends[index + 1]
  BY <1>1, TurnNow
<1>4. ~IsUnary(l)
  BY <1>1 DEF IsUnary
<1> QED BY <1>1, <1>2, <1>3, <1>4, FixedKeeps

LEMMA PrefixIncrementKeeps ==
    ASSUME NEW ends, Ready(ends), PrefixIncrement
    PROVE  Keeps(ends)
<1> PICK l : l = text[index + 1]
  OBVIOUS
<1>1. index < Len(text) /\ l = "++" /\ Become(FixExpression(parser, l, Priority(l)))
  BY DEF PrefixIncrement, Reads
<1>2. l \notin Words /\ l \notin Opening \union Shutting /\ l # "int" /\ l # "::"
  BY <1>1, WordsApart DEF Opening, Shutting
<1>3. ~ends[index]
  BY ReadyNow DEF PrefixIncrement
<1>4. ~ends[index + 1]
  BY <1>1, <1>3, TurnNow
<1>5. IsUnary(l)
  BY <1>1 DEF IsUnary
<1> QED BY <1>1, <1>2, <1>3, <1>4, <1>5, FixedKeeps

LEMMA PostfixIncrementKeeps ==
    ASSUME NEW ends, Ready(ends), PostfixIncrement
    PROVE  Keeps(ends)
<1> PICK whole : whole = PrepareExpression(parser)
  OBVIOUS
<1> PICK one : one = Replaced(whole, Yard("postinc", "", Nil, Last(whole.operands)))
  OBVIOUS
<1>1. /\ index < Len(text) /\ text[index + 1] = "++" /\ parser.prev_was_operand
      /\ Become(IF whole.error # "none" THEN whole ELSE one)
  BY DEF PostfixIncrement, Reads
<1>2. Sound(parser) /\ ends[index]
  BY <1>1, ReadyNow
<1>3. Follows(whole, parser)
  BY <1>2, PrepareKeeps DEF Sound
<1>4. CASE whole.error # "none"
  BY <1>1, <1>3, <1>4, BecomeFails DEF Follows, IsParser
<1>5. CASE whole.error = "none"
  <2>1. Sound(whole) /\ whole.prev_was_operand /\ whole.purpose = parser.purpose
    BY <1>1, <1>2, <1>3, <1>5 DEF Follows, Sound
  <2>2. Sound(one) /\ one.prev_was_operand /\ one.purpose = parser.purpose /\ one.error = "none"
    BY <1>5, <2>1, ReplacedKeeps
  <2>3. ends[index + 1]
    BY <1>1, <1>2, TurnNow
  <2>4. text[index + 1] \notin Opening \union Shutting /\ text[index + 1] # "int"
    BY <1>1 DEF Opening, Shutting
  <2>5. Scopes(one, index + 1) /\ one.error \in Errors /\ Become(one)
    BY <1>1, <1>5, <2>2 DEF Scopes, Errors
  <2> QED BY <1>1, <2>2, <2>3, <2>4, <2>5, BecomeKeeps
<1> QED BY <1>4, <1>5
-----------------------------------------------------------------------------
(* Brackets.                                                               *)

LEMMA OpenKeeps ==
    ASSUME NEW ends, Ready(ends), index < Len(text), text[index + 1] \in Opening,
           NEW ps, Nested(ps), Len(ps) = Len(parsers),
           NEW purpose, Holds(ps[Len(ps)], Parser(purpose)), Open(purpose, ps)
    PROVE  Keeps(ends)
<1> PICK q : q = Parser(purpose)
  OBVIOUS
<1>1. parsers' = Append(ps, q) /\ index' = index + 1
  BY DEF Open
<1>2. Sound(q) /\ ~q.prev_was_operand /\ q.operators = <<>>
  BY NewParser DEF Sound
<1>3. Nested(parsers') /\ Len(parsers') = Len(ps) + 1 /\ parsers'[Len(parsers')] = q
  BY <1>1, <1>2, PushedTop
<1>4. index \in Nat /\ index' \in 0 .. Len(text)
  BY <1>1, ReadyNow
<1>5. Len(parsers') - 1 = Unclosed(index')
  <2>1. Unclosed(index + 1) = Unclosed(index) + 1
    BY <1>4, UnclosedNext
  <2>2. Len(parsers) - 1 = Unclosed(index) /\ Len(parsers) \in Nat
    BY ReadyNow
  <2> QED BY <1>1, <1>3, <2>1, <2>2
<1>6. ~ends[index'] /\ text[index'] # "int"
  <2>1. text[index + 1] = "(" \/ text[index + 1] = "["
    BY DEF Opening
  <2>2. ~ends[index + 1]
    BY <2>1, TurnNow
  <2> QED BY <1>1, <2>1, <2>2
<1>7. Scopes(q, index')
  BY <1>2 DEF Scopes
<1> QED BY <1>2, <1>3, <1>4, <1>5, <1>6, <1>7, Zenon DEF Keeps, Good

LEMMA OpenIndexKeeps ==
    ASSUME NEW ends, Ready(ends), OpenIndex
    PROVE  Keeps(ends)
<1>1. index < Len(text) /\ text[index + 1] = "[" /\ Open("index", parsers)
  BY DEF OpenIndex, Reads
<1>2. ends[index]
  BY <1>1, TurnNow
<1>3. Nested(parsers) /\ parsers[Len(parsers)].prev_was_operand
  BY <1>2, ReadyNow
<1>4. Holds(parsers[Len(parsers)], Parser("index"))
  BY <1>3, NewParser DEF Holds
<1> QED BY <1>1, <1>3, <1>4, OpenKeeps DEF Opening

LEMMA OpenParenthesisKeeps ==
    ASSUME NEW ends, Ready(ends), OpenParenthesis
    PROVE  Keeps(ends)
<1>1. /\ index < Len(text) /\ text[index + 1] = "(" /\ Open("parenthesis", parsers)
      /\ ~parser.prev_was_operand
  BY Zenon DEF OpenParenthesis, Reads
<1>2. Nested(parsers) /\ ~parsers[Len(parsers)].prev_was_operand
  BY <1>1, ReadyNow
<1>3. Holds(parsers[Len(parsers)], Parser("parenthesis"))
  BY <1>2, NewParser DEF Holds
<1> QED BY <1>1, <1>2, <1>3, OpenKeeps DEF Opening

LEMMA CastKeeps ==
    ASSUME NEW ends, Ready(ends), Cast
    PROVE  Keeps(ends)
<1>0. PICK q : q = [parser EXCEPT !.operators = Append(parser.operators, "cast"), !.prev_was_operand = FALSE]
  OBVIOUS
<1>1. index < Len(text) /\ text[index + 1] = "(" /\ Lookahead = "int" /\ ~parser.prev_was_operand
  BY Zenon DEF Cast, Reads
<1>2. index' = index + 3
  BY Zenon DEF Cast
<1>3. parsers' = [parsers EXCEPT ![Len(parsers)] = q]
  BY <1>0, Zenon DEF Cast
<1>4. index + 2 <= Len(text) /\ text[index + 2] = "int"
  BY <1>1, Zenon DEF Lookahead
<1>5. PICK k \in Nat : k = index + 2 /\ k \in 1 .. Len(text)
  BY <1>4, ReadyNow
<1>6. k < Len(text) /\ text[k + 1] = ")" /\ ~ends[k - 2]
  BY <1>4, <1>5 DEF Ready, TakeTurns
<1>7. ~ends[k + 1]
  <2>1. k + 1 \in 1 .. Len(text) /\ k + 1 > 1 /\ (k + 1) - 1 = k
    BY <1>5, <1>6
  <2> QED BY <1>4, <1>5, <1>6, <2>1 DEF Ready, TakeTurns
<1>8. Sound(q) /\ ~q.prev_was_operand /\ q.purpose = parser.purpose
  <2> DEFINE operators == Append(parser.operators, "cast")
             before == Cardinality(Binaries(parser.operators))
             after == Cardinality(Binaries(operators))
  <2>1. IsParser(parser) /\ Agrees(parser) /\ IsSeq(parser.operators)
    BY ReadyNow DEF Sound, IsParser
  <2>2. IsSeq(operators)
    BY <2>1, Appended
  <2>3. after = before /\ before \in Nat
    <3>1. IsUnary("cast")
      BY DEF IsUnary
    <3>2. after = before + 0 /\ before \in Nat
      BY <2>1, <3>1, AppendedBinaries, FiniteBinaries
    <3> HIDE DEF before, after
    <3> QED BY <3>2
  <2>4. Changed(q, parser, parser.operands, operators, FALSE)
    BY <1>0, <2>1, <2>2, OperatorPushed
  <2>5. Len(parser.operands) = before + 0
    BY <1>1, <2>1 DEF Agrees
  <2>6. Agrees(q) <=> Len(parser.operands) = after + 0
    BY <2>4 DEF Agrees, Changed
  <2> HIDE DEF before, after, operators
  <2> QED BY <2>3, <2>4, <2>5, <2>6 DEF Changed, Sound
<1>9. Last(q.operators) = "cast"
  <2>1. IsSeq(parser.operators)
    BY ReadyNow DEF Sound, IsParser
  <2>2. Last(Append(parser.operators, "cast")) = "cast"
    BY <2>1, Appended
  <2>3. q.operators = Append(parser.operators, "cast")
    BY <1>0, ReadyNow DEF Sound, IsParser, IsRecord, FieldNames
  <2> QED BY <2>2, <2>3
<1>10. Nested(parsers') /\ Len(parsers') = Len(parsers) /\ parsers'[Len(parsers)] = q
  <2>1. Nested(parsers) /\ q.purpose = parsers[Len(parsers)].purpose
    BY <1>8, ReadyNow
  <2>2. Updated(parsers', parsers, Len(parsers), q)
    BY <1>3 DEF Updated
  <2> QED BY <1>8, <2>1, <2>2, ReplacedTop
<1>11. index' = k + 1 /\ index' \in 0 .. Len(text)
  BY <1>2, <1>5, <1>6, ReadyNow
<1>12. Len(parsers') - 1 = Unclosed(index')
  <2>1. index \in Nat /\ Len(parsers) - 1 = Unclosed(index)
    BY ReadyNow
  <2>2. Unclosed(index + 1) = Unclosed(index) + 1
    BY <1>1, <2>1, UnclosedNext DEF Opening
  <2>3. Unclosed(k) = Unclosed(index + 1)
    <3>1. index + 1 \in Nat /\ k = (index + 1) + 1 /\ text[k] = "int"
      BY <1>4, <1>5, <2>1
    <3> QED BY <3>1, UnclosedNext DEF Opening, Shutting
  <2>4. Unclosed(k + 1) = Unclosed(k) - 1
    BY <1>5, <1>6, UnclosedNext DEF Shutting
  <2>5. Unclosed(index) \in Int
    BY <2>1, UnclosedNext
  <2> QED BY <1>10, <1>11, <2>1, <2>2, <2>3, <2>4, <2>5
<1>13. text[index'] # "int" /\ Scopes(q, index')
  BY <1>6, <1>9, <1>11 DEF Scopes
<1>14. q.prev_was_operand <=> ends[index']
  BY <1>7, <1>8, <1>11
<1> QED BY <1>10, <1>11, <1>12, <1>13, <1>14, Zenon DEF Keeps, Good

LEMMA OpenCallKeeps ==
    ASSUME NEW ends, Ready(ends), OpenCall
    PROVE  Keeps(ends)
<1> PICK before : before = Called(parser)
  OBVIOUS
<1> DEFINE operand == Last(before.operands)
           method == operand.lexem = "."
           changed == IF method THEN [operand EXCEPT !.right.lexem = "call_method"]
                      ELSE [operand EXCEPT !.lexem = "call"]
<1>1. index < Len(text) /\ text[index + 1] = "(" /\ parser.prev_was_operand
  BY Zenon DEF OpenCall, Reads
<1>2. \/ before.error # "none" /\ Become(before)
      \/ Become([before EXCEPT !.error = "undefined"])
      \/ /\ before.error = "none"
         /\ Open(IF method THEN "method" ELSE "call",
                 [parsers EXCEPT ![Len(parsers)] = Replaced(before, changed)])
  BY Zenon DEF OpenCall
<1>3. Sound(parser) /\ Nested(parsers) /\ parser = parsers[Len(parsers)]
  BY ReadyNow
<1>4. Follows(before, parser)
  BY <1>3, PrepareKeeps DEF Called, Follows, Sound
<1>5. CASE before.error # "none" /\ Become(before)
  BY <1>4, <1>5, BecomeFails DEF Follows, IsParser
<1>6. CASE Become([before EXCEPT !.error = "undefined"])
  <2>0. PICK q : q = [before EXCEPT !.error = "undefined"]
    OBVIOUS
  <2>1. q.error = "undefined"
    BY <1>4, <2>0, Failed DEF Follows, Errors
  <2>2. Become(q)
    BY <1>6, <2>0, Zenon
  <2> QED BY <2>1, <2>2, BecomeFails DEF Errors
<1>7. CASE /\ before.error = "none"
           /\ Open(IF method THEN "method" ELSE "call",
                   [parsers EXCEPT ![Len(parsers)] = Replaced(before, changed)])
  <2>0. PICK q, ps, purpose :
          /\ q = Replaced(before, changed)
          /\ ps = [parsers EXCEPT ![Len(parsers)] = q]
          /\ purpose = IF method THEN "method" ELSE "call"
    OBVIOUS
  <2> HIDE DEF changed, method
  <2>1. Open(purpose, ps) /\ purpose \in {"method", "call"}
    BY <1>7, <2>0
  <2>2. Sound(before) /\ before.prev_was_operand /\ before.purpose = parser.purpose
    BY <1>1, <1>3, <1>4, <1>7 DEF Follows, Sound
  <2>3. Sound(q) /\ q.prev_was_operand /\ q.purpose = parser.purpose
    BY <2>0, <2>2, ReplacedKeeps
  <2>4. Nested(ps) /\ Len(ps) = Len(parsers) /\ ps[Len(ps)] = q
    <3>1. Updated(ps, parsers, Len(parsers), q)
      BY <2>0 DEF Updated
    <3> QED BY <1>3, <2>3, <3>1, ReplacedTop
  <2>5. Holds(ps[Len(ps)], Parser(purpose))
    BY <2>1, <2>3, <2>4, NewParser DEF Holds
  <2> QED BY <1>1, <2>1, <2>4, <2>5, OpenKeeps DEF Opening
<1> QED BY <1>2, <1>5, <1>6, <1>7

\* Some bracket is open where the innermost parser has a bracket's purpose,
\* and where a bracket closes.
LEMMA BracketOpen ==
    ASSUME NEW ends, Ready(ends),
           parser.purpose # "expression" \/ (index < Len(text) /\ text[index + 1] \in Shutting)
    PROVE  Len(parsers) > 1 /\ Unclosed(index) > 0
<1>1. Len(parsers) \in Nat /\ Len(parsers) > 0 /\ Len(parsers) - 1 = Unclosed(index)
  BY ReadyNow
<1>2. CASE parser.purpose # "expression"
  <2>1. parsers[1].purpose = "expression" /\ parser = parsers[Len(parsers)]
    BY ReadyNow DEF Nested
  <2>2. Len(parsers) # 1
    BY <1>2, <2>1
  <2>3. \A n \in Nat : n > 0 /\ n # 1 => n > 1 /\ n - 1 > 0
    OBVIOUS
  <2> QED BY <1>1, <2>2, <2>3, Zenon
<1>3. CASE index < Len(text) /\ text[index + 1] \in Shutting
  <2>1. index \in Nat /\ Len(text) \in Nat /\ index + 1 \in 0 .. Len(text)
    BY <1>3, ReadyNow
  <2>2. Unclosed(index + 1) = Unclosed(index) - 1 /\ Unclosed(index) \in Int
    BY <1>3, <2>1, UnclosedNext
  <2>3. Unclosed(index + 1) >= 0
    BY <2>1 DEF Ready, Balanced
  <2> QED BY <1>1, <2>2, <2>3
<1> QED BY <1>2, <1>3

\* With the bracket's expression, the parser around it has one operand read
\* last, whatever the bracket was for.
LEMMA ClosedKeeps ==
    ASSUME NEW p, Sound(p), NEW closed, Holds(p, closed), NEW q, q = Closed(p, closed)
    PROVE  /\ q.error \in Errors /\ q.purpose = p.purpose
           /\ q.error = "none" => Sound(q) /\ q.prev_was_operand
<1>1. IsParser(p) /\ Agrees(p) /\ p.error \in Errors
  BY DEF Sound, IsParser
<1>2. CASE closed.purpose = "parenthesis"
  <2>1. \E operand : q = Pushed(p, operand)
    BY <1>2, Zenon DEF Closed
  <2>2. ~p.prev_was_operand
    BY <1>2 DEF Holds
  <2> QED BY <1>1, <2>1, <2>2, PushedKeeps
<1>3. CASE closed.purpose = "index"
  <2>0. PICK fixed : fixed = FixExpression(p, "[", Priority("["))
    OBVIOUS
  <2>1. PICK operand : q = Pushed(fixed, operand)
    BY <1>3, <2>0 DEF Closed
  <2>2. p.prev_was_operand
    BY <1>3 DEF Holds
  <2>3. ~IsUnary("[")
    BY DEF IsUnary
  <2>4. Extends(fixed, p, "[")
    <3>1. Fits("[", p)
      BY <1>1, <2>2, <2>3 DEF Fits
    <3> QED BY <2>0, <3>1, FixKeeps
  <2>5. q.error = fixed.error /\ q.purpose = p.purpose
    <3>1. IsParser(fixed) /\ fixed.purpose = p.purpose
      BY <2>4 DEF Extends
    <3>2. Changed(q, fixed, Append(fixed.operands, operand), fixed.operators, TRUE)
      BY <2>1, <3>1, PushedParser
    <3> QED BY <3>1, <3>2 DEF Changed
  <2>6. fixed.error \in Errors
    BY <2>4 DEF IsParser, Extends
  <2>7. fixed.error = "none" => Sound(q) /\ q.prev_was_operand
    BY <2>1, <2>4, PushedKeeps DEF Sound, Extends
  <2> QED BY <2>5, <2>6, <2>7
<1>4. CASE closed.purpose \in Calls
  <2>1. \E operand : q = Replaced(p, operand)
    <3>1. closed.purpose = "call" \/ closed.purpose = "method"
      BY <1>4 DEF Calls
    <3> QED BY <3>1 DEF Closed
  <2>2. p.prev_was_operand
    BY <1>4 DEF Holds, Calls
  <2> QED BY <1>1, <2>1, <2>2, ReplacedKeeps
<1> QED BY <1>2, <1>3, <1>4 DEF Holds, Calls

\* A bracket is closed by the lexeme at end.
LEMMA CloseKeeps ==
    ASSUME NEW ends, Ready(ends), Len(parsers) > 1,
           NEW end, end \in 0 .. Len(text), ends[end], text[end] # "int",
           Unclosed(end) = Unclosed(index) - 1, Close(end)
    PROVE  Keeps(ends)
<1>0. PICK closed, around : closed = PrepareExpression(parser) /\ around = Front(parsers)
  OBVIOUS
<1>1. PICK outer : outer = Closed(Last(around), closed)
  OBVIOUS
<1>2. /\ Sound(parser) /\ Nested(parsers) /\ parser = parsers[Len(parsers)]
      /\ Len(parsers) - 1 = Unclosed(index) /\ Len(parsers) \in Nat
  BY ReadyNow
<1>3. Follows(closed, parser)
  BY <1>0, <1>2, PrepareKeeps DEF Sound
<1>4. \/ Become([closed EXCEPT !.error = IF closed.error = "none" THEN "undefined" ELSE closed.error])
      \/ /\ parsers' = Append(Front(around), outer)
         /\ status' = IF outer.error = "none" THEN status ELSE outer.error
         /\ index' = end
  BY <1>0, <1>1, Zenon DEF Close
<1>5. CASE Become([closed EXCEPT !.error = IF closed.error = "none" THEN "undefined" ELSE closed.error])
  <2>0. PICK error : error = IF closed.error = "none" THEN "undefined" ELSE closed.error
    OBVIOUS
  <2>1. PICK q : q = [closed EXCEPT !.error = error]
    OBVIOUS
  <2>2. IsParser(closed) /\ error \in Errors /\ error # "none"
    BY <1>3, <2>0 DEF Follows, IsParser, Errors
  <2>3. q.error = error
    BY <2>1, <2>2, Failed
  <2>4. Become(q)
    BY <1>5, <2>0, <2>1, Zenon
  <2> QED BY <2>2, <2>3, <2>4, BecomeFails
<1>6. CASE /\ parsers' = Append(Front(around), outer)
           /\ status' = IF outer.error = "none" THEN status ELSE outer.error
           /\ index' = end
  <2>1. PICK p : p = Last(around)
    OBVIOUS
  <2>2. /\ Nested(around) /\ Len(around) = Len(parsers) - 1
        /\ p = around[Len(around)] /\ Holds(p, parser)
    BY <1>0, <1>2, <2>1, PoppedTop
  <2>3. IsSeq(around) /\ Len(around) \in Nat /\ Len(around) > 0 /\ Sound(p)
    <3>1. IsSeq(around) /\ Len(around) \in Nat /\ Len(around) > 0 /\ Len(around) \in 1 .. Len(around)
      BY <2>2 DEF Nested, IsSeq
    <3> QED BY <2>2, <3>1 DEF Nested
  <2>4. Holds(p, closed)
    BY <1>3, <2>2 DEF Holds, Follows
  <2>5. /\ outer.error \in Errors /\ outer.purpose = p.purpose
        /\ outer.error = "none" => Sound(outer) /\ outer.prev_was_operand
    BY <1>1, <2>1, <2>3, <2>4, ClosedKeeps
  <2>6. ASSUME status' = "parse" PROVE Good(ends, parsers', index')
    <3>1. Sound(outer) /\ outer.prev_was_operand
      BY <1>6, <2>5, <2>6 DEF Errors
    <3>2. Updated(parsers', around, Len(around), outer)
      BY <1>6, <2>3, LastReplaced DEF Updated
    <3>3. Nested(parsers') /\ Len(parsers') = Len(around) /\ parsers'[Len(parsers')] = outer
      BY <2>2, <2>5, <3>1, <3>2, ReplacedTop
    <3>4. Len(parsers') - 1 = Unclosed(end)
      BY <1>2, <2>2, <3>3
    <3>5. Scopes(outer, end)
      BY <3>1 DEF Scopes
    <3> QED BY <1>6, <3>1, <3>3, <3>4, <3>5, Zenon DEF Good
  <2> QED BY <2>6 DEF Keeps
<1> QED BY <1>4, <1>5, <1>6

\* A bracket of a call without arguments.
LEMMA CloseEmptyCallKeeps ==
    ASSUME NEW ends, Ready(ends), CloseEmptyCall
    PROVE  Keeps(ends)
<1>1. /\ index < Len(text) /\ text[index + 1] = ")" /\ parser.purpose \in Calls
      /\ text[index] = "(" /\ parsers' = Front(parsers) /\ index' = index + 1
  BY DEF CloseEmptyCall, Reads
<1>2. parser.purpose # "expression" /\ parser.purpose # "parenthesis"
  BY <1>1 DEF Calls
<1>3. Len(parsers) > 1
  BY <1>2, BracketOpen
<1>4. /\ Nested(parsers) /\ parser = parsers[Len(parsers)] /\ Len(parsers) \in Nat
      /\ Len(parsers) - 1 = Unclosed(index) /\ index' \in 0 .. Len(text) /\ index \in Nat
  BY <1>1, ReadyNow
<1>5. /\ Nested(parsers') /\ Len(parsers') = Len(parsers) - 1
      /\ Holds(parsers'[Len(parsers')], parser)
  BY <1>1, <1>3, <1>4, PoppedTop
<1>6. parsers'[Len(parsers')].prev_was_operand
  BY <1>2, <1>5 DEF Holds
<1>7. ends[index']
  BY <1>1, TurnNow
<1>8. Len(parsers') - 1 = Unclosed(index')
  <2>1. Unclosed(index + 1) = Unclosed(index) - 1
    BY <1>1, <1>4, UnclosedNext DEF Shutting
  <2> QED BY <1>1, <1>4, <1>5, <2>1
<1>9. Scopes(parsers'[Len(parsers')], index') /\ text[index'] # "int"
  BY <1>1, <1>6 DEF Scopes
<1> QED BY <1>4, <1>5, <1>6, <1>7, <1>8, <1>9, Zenon DEF Keeps, Good

LEMMA CloseBracketKeeps ==
    ASSUME NEW ends, Ready(ends), CloseBracket
    PROVE  Keeps(ends)
<1>1. index < Len(text) /\ text[index + 1] \in Shutting /\ Close(index + 1)
  BY DEF CloseBracket, Reads, Shutting
<1>2. Len(parsers) > 1
  BY <1>1, BracketOpen
<1>3. index \in Nat /\ index + 1 \in 0 .. Len(text) /\ (index > 0 => text[index] # "int")
  BY <1>1, ReadyNow
<1>4. Unclosed(index + 1) = Unclosed(index) - 1
  BY <1>1, <1>3, UnclosedNext
<1>5. text[index + 1] = ")" \/ text[index + 1] = "]"
  BY <1>1 DEF Shutting
<1>6. ends[index + 1] /\ text[index + 1] # "int"
  BY <1>1, <1>3, <1>5, TurnNow
<1> QED BY <1>1, <1>2, <1>3, <1>4, <1>6, CloseKeeps

\* The comma that is read.
LEMMA ReadsComma ==
    ASSUME Reads({","})
    PROVE  index < Len(text) /\ text[index + 1] = Comma
BY Zenon DEF Reads, Comma

LEMMA CommaInBracketKeeps ==
    ASSUME NEW ends, Ready(ends), CommaInBracket
    PROVE  Keeps(ends)
<1>1. Reads({","}) /\ parser.purpose \in {"parenthesis", "index"} /\ Close(Closing)
  BY Zenon DEF CommaInBracket
<1>2. index < Len(text) /\ text[index + 1] = Comma /\ parser.purpose # "expression"
  <2>1. index < Len(text) /\ text[index + 1] = Comma
    BY <1>1, ReadsComma, Zenon
  <2>2. \A purpose \in {"parenthesis", "index"} : purpose # "expression"
    OBVIOUS
  <2> QED BY <1>1, <2>1, <2>2, Zenon
<1>3. Len(parsers) > 1 /\ Unclosed(index) > 0
  BY <1>2, BracketOpen
<1>4. PICK end : end = Closing
  OBVIOUS
<1>5. index \in Nat /\ Len(text) \in Nat
  BY ReadyNow
<1>6. /\ end \in index + 1 .. Len(text) /\ text[end] \in Shutting
      /\ ends[end] /\ Unclosed(end) = Unclosed(index) - 1
  BY <1>2, <1>3, <1>4, <1>5, ClosingCloses DEF Ready
<1>7. end \in 0 .. Len(text) /\ text[end] # "int"
  BY <1>5, <1>6 DEF Shutting
<1>8. Close(end)
  BY <1>1, <1>4, Zenon
<1> QED BY <1>3, <1>6, <1>7, <1>8, CloseKeeps

LEMMA NextArgumentKeeps ==
    ASSUME NEW ends, Ready(ends), NextArgument
    PROVE  Keeps(ends)
<1>0. PICK done : done = PrepareExpression(parser)
  OBVIOUS
<1>1. PICK arguments : arguments = Append(parser.arguments, Last(done.operands))
  OBVIOUS
<1>2. PICK one : one = [Parser(parser.purpose) EXCEPT !.arguments = arguments]
  OBVIOUS
<1>3. Reads({","}) /\ Become(IF done.error # "none" THEN done ELSE one)
  BY <1>0, <1>1, <1>2, Zenon DEF NextArgument, Parser
<1>4. index < Len(text) /\ text[index + 1] = Comma
  BY <1>3, ReadsComma, Zenon
<1>5. Follows(done, parser)
  BY <1>0, ReadyNow, PrepareKeeps DEF Sound
<1>6. CASE done.error # "none" /\ Become(done)
  BY <1>5, <1>6, BecomeFails DEF Follows, IsParser
<1>7. CASE Become(one)
  <2>1. /\ Sound(one) /\ one.purpose = parser.purpose /\ ~one.prev_was_operand
        /\ one.operators = <<>> /\ one.error = "none"
    <3>1. PICK p : p = Parser(parser.purpose)
      OBVIOUS
    <3>2. /\ IsParser(p) /\ Agrees(p) /\ p.purpose = parser.purpose /\ ~p.prev_was_operand
          /\ p.operators = <<>> /\ p.error = "none"
      BY <3>1, NewParser
    <3>3. one = [p EXCEPT !.arguments = arguments]
      BY <1>2, <3>1, Zenon
    <3>4. IsRecord(one)
      BY <3>2, <3>3 DEF IsParser, IsRecord, FieldNames
    <3>5. one.operands = p.operands /\ one.operators = p.operators
      BY <3>2, <3>3 DEF IsParser, IsRecord, FieldNames
    <3>6. one.prev_was_operand = p.prev_was_operand /\ one.purpose = p.purpose /\ one.error = p.error
      BY <3>2, <3>3 DEF IsParser, IsRecord, FieldNames
    <3> QED BY <3>2, <3>4, <3>5, <3>6 DEF Sound, IsParser, Agrees
  <2>2. text[index + 1] \notin Opening \union Shutting /\ text[index + 1] # "int"
    BY <1>4, CommaApart, CommaInt DEF Opening, Shutting
  <2>3. ~ends[index + 1]
    BY <1>4, TurnNow
  <2>4. Scopes(one, index + 1) /\ one.error \in Errors
    BY <2>1 DEF Scopes, Errors
  <2> QED BY <1>4, <1>7, <2>1, <2>2, <2>3, <2>4, BecomeKeeps
<1> QED BY <1>3, <1>6, <1>7, Zenon
-----------------------------------------------------------------------------
(* The invariant.                                                          *)

LEMMA BuildExpressionKeeps ==
    ASSUME NEW ends, Ready(ends), BuildExpression
    PROVE  Keeps(ends)
<1>1. PICK built : built = PrepareExpression(parser)
  OBVIOUS
<1>2. status' = IF built.error = "none" THEN "built" ELSE built.error
  BY <1>1, Zenon DEF BuildExpression
<1>3. Follows(built, parser)
  BY <1>1, ReadyNow, PrepareKeeps DEF Sound
<1>4. status' # "parse"
  BY <1>2, <1>3 DEF Follows, IsParser, Errors
<1> QED BY <1>4 DEF Keeps

LEMMA StepKeeps ==
    ASSUME NEW ends, status = "parse", Ready(ends), Next
    PROVE  Keeps(ends)
<1>1. CASE Operand
  BY <1>1, OperandKeeps
<1>2. CASE Operator
  BY <1>2, OperatorKeeps
<1>3. CASE Ternary
  BY <1>3, TernaryKeeps
<1>4. CASE PrefixIncrement
  BY <1>4, PrefixIncrementKeeps
<1>5. CASE PostfixIncrement
  BY <1>5, PostfixIncrementKeeps
<1>6. CASE OpenIndex
  BY <1>6, OpenIndexKeeps
<1>7. CASE Cast
  BY <1>7, CastKeeps
<1>8. CASE OpenParenthesis
  BY <1>8, OpenParenthesisKeeps
<1>9. CASE OpenCall
  BY <1>9, OpenCallKeeps
<1>10. CASE CloseEmptyCall
  BY <1>10, CloseEmptyCallKeeps
<1>11. CASE CloseBracket
  BY <1>11, CloseBracketKeeps
<1>12. CASE NextArgument
  BY <1>12, NextArgumentKeeps
<1>13. CASE CommaInBracket
  BY <1>13, CommaInBracketKeeps
<1>14. CASE BuildExpression
  BY <1>14, BuildExpressionKeeps
<1>15. CASE Stop
  BY <1>15 DEF Stop
<1> QED
  BY <1>1, <1>2, <1>3, <1>4, <1>5, <1>6, <1>7, <1>8, <1>9, <1>10, <1>11, <1>12,
     <1>13, <1>14, <1>15, Zenon DEF Next

IInv ==
    /\ text \in Seq(STRING)
    /\ status = "parse" => \A ends : TakeTurns(ends) /\ Balanced => Good(ends, parsers, index)

LEMMA InitGood == Init => IInv
<1> SUFFICES ASSUME Init, NEW ends, TakeTurns(ends), Balanced
             PROVE  text \in Seq(STRING) /\ Good(ends, parsers, index)
  BY TextsAssumption DEF Init, IInv
<1>1. text \in Seq(STRING) /\ Len(text) \in Nat
  BY TextsAssumption DEF Init
<1>2. PICK p : p = Parser("expression")
  OBVIOUS
<1>3. Sound(p) /\ p.purpose = "expression" /\ ~p.prev_was_operand /\ p.operators = <<>>
  BY <1>2, NewParser DEF Sound
<1>4. index = 0 /\ parsers = <<p>> /\ 0 \in 0 .. Len(text)
  BY <1>1, <1>2 DEF Init
<1>5. IsSeq(parsers) /\ Len(parsers) = 1 /\ parsers[1] = p
  BY <1>4 DEF IsSeq
<1>6. Nested(parsers)
  BY <1>3, <1>5 DEF Nested
<1>7. Unclosed(0) = 0
  <2>1. \A lexems : {k \in 1 .. 0 : text[k] \in lexems} = {}
    OBVIOUS
  <2>2. \A lexems : Between(lexems, 1, 0) = 0
    BY <2>1, FS_EmptySet DEF Between
  <2> QED BY <2>2 DEF Unclosed
<1>8. ~ends[0]
  BY DEF TakeTurns
<1> QED BY <1>1, <1>3, <1>4, <1>5, <1>6, <1>7, <1>8 DEF Good, Scopes

LEMMA NextGood == IInv /\ [Next]_vars => IInv'
<1> SUFFICES ASSUME IInv, [Next]_vars
             PROVE  IInv'
  OBVIOUS
<1>1. text' = text
  BY DEF Next, vars, Operand, Operator, Ternary, PrefixIncrement, PostfixIncrement, OpenIndex, Cast,
         OpenParenthesis, OpenCall, CloseEmptyCall, CloseBracket, NextArgument, CommaInBracket,
         BuildExpression, Stop, Become, Open, Close
<1>2. ASSUME NEW ends, status' = "parse", TakeTurns(ends), Balanced
      PROVE  Good(ends, parsers', index')
  <2>1. CASE status = "parse" /\ Next
    <3>1. Ready(ends)
      BY <1>2, <2>1 DEF IInv, Ready
    <3> QED BY <1>2, <2>1, <3>1, StepKeeps DEF Keeps
  <2>2. CASE status # "parse" /\ Next
    <3>1. Stop
      BY <2>2 DEF Next, Operand, Operator, Ternary, PrefixIncrement, PostfixIncrement, OpenIndex, Cast,
             OpenParenthesis, OpenCall, CloseEmptyCall, CloseBracket, NextArgument, CommaInBracket,
             BuildExpression, Reads
    <3> QED BY <1>2, <2>2, <3>1 DEF Stop, vars
  <2>3. CASE UNCHANGED vars
    <3>1. status = "parse" /\ parsers' = parsers /\ index' = index
      BY <1>2, <2>3 DEF vars
    <3>2. Good(ends, parsers, index)
      BY <1>2, <3>1 DEF IInv
    <3> QED BY <3>1, <3>2
  <2> QED BY <2>1, <2>2, <2>3
<1>3. \A ends : TakeTurns(ends)' <=> TakeTurns(ends)
  BY <1>1 DEF TakeTurns
<1>4. Balanced' <=> Balanced
  BY <1>1 DEF Balanced, Unclosed, Between
<1>5. \A ends : Good(ends, parsers, index)' <=> Good(ends, parsers', index')
  BY <1>1 DEF Good, Scopes, Nested, Unclosed, Between
<1> QED BY <1>1, <1>2, <1>3, <1>4, <1>5 DEF IInv

LEMMA GoodImplies ==
    ASSUME IInv, Balanced, NEW ends, TakeTurns(ends)
    PROVE  OperandsForOperators
<1> SUFFICES ASSUME status = "parse", NEW i \in DOMAIN parsers
             PROVE  Agrees(parsers[i])
  BY Zenon DEF OperandsForOperators, Agrees, Binaries
<1>1. Nested(parsers)
  BY DEF IInv, Good
<1>2. Sound(parsers[i])
  BY <1>1 DEF Nested, IsSeq
<1> QED BY <1>2 DEF Sound

\* For all words and all texts in which brackets are closed and operands
\* take turns with operators: in every open bracket there is one operand
\* more than binary operators when an operand was read last, and else as
\* many, so that FixExpression and PrepareExpression find what they take.
THEOREM OperatorsHaveOperands ==
    Spec => []((Balanced /\ \E ends : TakeTurns(ends)) => OperandsForOperators)
<1>1. Init => IInv
  BY InitGood
<1>2. IInv /\ [Next]_vars => IInv'
  BY NextGood
<1>3. IInv => ((Balanced /\ \E ends : TakeTurns(ends)) => OperandsForOperators)
  BY GoodImplies
<1> QED BY <1>1, <1>2, <1>3, PTL DEF Spec
=============================================================================
