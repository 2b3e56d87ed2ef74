---------------------------- MODULE Lexer_proofs ----------------------------
(***************************************************************************)
(* Proof about Lexer for all texts, of C or not, and all macros: the line  *)
(* number is right.  Every mode counts line feeds for itself, so the proof *)
(* goes through all of them.  The modes of strings are entered at quotes   *)
(* only, and a line feed is taken into a character only right behind what  *)
(* opens it.  A line feed behind the name of a macro waits in "pending"    *)
(* until it is scanned once more; there is never more than that one.       *)
(***************************************************************************)
EXTENDS Lexer, FiniteSetTheorems, WellFoundedInduction, TLAPS

IsSeq(s) == Len(s) \in Nat /\ s = [k \in 1 .. Len(s) |-> s[k]]

StringModes == {"string", "screening", "try_concatenate_strings"}
CallModes == {"enter_def_expression", "parse_def_expression"}

\* What the property assumes of the text.
NoneQuoted == \A k \in LineFeeds : ~Quoted(k)

\* In the mode behind an apostrophe the last characters are known.
Opened ==
    global_state = "apost_begin" =>
        \/ /\ current_lexem = <<>>
           /\ Len(read) > 0 /\ read[Len(read)] = "apost"
        \/ /\ current_lexem # <<>>
           /\ Len(read) > 1 /\ read[Len(read) - 1] = "apost" /\ read[Len(read)] = "bslash"

\* What replacements and the arguments of calls are made of.
Character == STRING \union Marks \union {"nl"}
Quiet == Character \ {"nl", "quote", "apost"}

\* One line feed is still to be scanned, and nothing but marks behind it.
OneAhead(p) ==
    \E s \in Seq(Quiet), t \in Seq({"endobject"}) : p = s \o <<"nl">> \o t

\* The line number, but for the line feed that is still to be scanned.
Counted ==
    \/ pending \in Seq(Quiet) /\ (NoneQuoted => line_number = 1 + Cardinality(LineFeeds))
    \/ OneAhead(pending) /\ (NoneQuoted => line_number + 1 = 1 + Cardinality(LineFeeds))

InCalls ==
    /\ global_state = "parse_def_expression" => current_lexem \in Seq(Quiet)
    /\ global_state \in CallModes => def \in DOMAIN Macros

IInv ==
    /\ alphabet \in Alphabets
    /\ IsSeq(read)
    /\ status # "thrown" /\ ~lost /\ NoQuotes /\ NoneReplaced =>
        /\ line_number \in Nat
        /\ global_state \notin StringModes
        /\ Opened
        /\ pending # <<>> => global_state # "apost_begin"
        /\ InCalls
        /\ Counted
-----------------------------------------------------------------------------
(* Sequences, and the function by which FlattenSeq joins some.             *)

LEMMA Least ==
    ASSUME NEW S, S \subseteq Nat, S # {}
    PROVE  \E n \in S : \A m \in S : n <= m
<1> DEFINE I == {0 .. n : n \in S}
<1>1. I \subseteq FiniteSubsetsOf(Nat) /\ I # {}
  <2>1. \A n \in S : IsFiniteSet(0 .. n) /\ 0 .. n \in SUBSET Nat
    BY FS_Interval
  <2> QED BY <2>1 DEF FiniteSubsetsOf
<1>2. PICK x \in I : \A y \in I : <<y, x>> \notin StrictSubsetOrdering(Nat)
  <2> HIDE DEF I
  <2>1. IsWellFoundedOn(StrictSubsetOrdering(Nat), FiniteSubsetsOf(Nat))
    BY FS_StrictSubsetOrderingWellFounded
  <2> QED BY <1>1, <2>1, WFMin
<1>3. PICK n \in S : x = 0 .. n
  OBVIOUS
<1>4. ASSUME NEW m \in S, ~(n <= m) PROVE FALSE
  <2>1. 0 .. m \in I /\ 0 .. m \subseteq 0 .. n /\ n \in 0 .. n /\ n \notin 0 .. m
    BY <1>4
  <2>2. <<0 .. m, 0 .. n>> \in StrictSubsetOrdering(Nat)
    <3>1. <<0 .. m, 0 .. n>> \in (SUBSET Nat) \X (SUBSET Nat)
      BY <2>1
    <3> QED BY <2>1, <3>1 DEF StrictSubsetOrdering
  <2> QED BY <1>2, <1>3, <2>1, <2>2
<1> QED BY <1>4

\* The function f by which FlattenSeq joins the first n sequences of s.
Flattens(f, s, n) == f = [k \in 1 .. n |-> IF k = 1 THEN s[k] ELSE f[k - 1] \o s[k]]

LEMMA FlattensExist ==
    ASSUME NEW s, NEW n \in Nat
    PROVE  \E f : Flattens(f, s, n)
<1> DEFINE S == {m \in Nat : ~\E f : Flattens(f, s, m)}
<1> SUFFICES ASSUME S # {} PROVE FALSE
  OBVIOUS
<1>1. PICK m \in S : \A l \in S : m <= l
  BY Least
<1>2. CASE m = 0
  <2> DEFINE f == [k \in 1 .. 0 |-> s[k]]
  <2>1. f = [k \in 1 .. 0 |-> IF k = 1 THEN s[k] ELSE f[k - 1] \o s[k]]
    OBVIOUS
  <2> QED BY <1>2, <2>1 DEF Flattens
<1>3. CASE m # 0
  <2>1. m \in Nat /\ m - 1 \in Nat /\ ~(m <= m - 1)
    BY <1>3
  <2>2. m - 1 \notin S
    BY <1>1, <2>1
  <2>3. PICK g : Flattens(g, s, m - 1)
    BY <2>1, <2>2
  <2> DEFINE f == [k \in 1 .. m |-> IF k = 1 THEN s[k] ELSE g[k - 1] \o s[k]]
  <2>4. ASSUME NEW k \in 1 .. m - 1 PROVE f[k] = g[k]
    <3>1. k \in 1 .. m
      BY <2>1
    <3>2. f[k] = IF k = 1 THEN s[k] ELSE g[k - 1] \o s[k]
      BY <3>1
    <3>3. g[k] = IF k = 1 THEN s[k] ELSE g[k - 1] \o s[k]
      BY <2>3 DEF Flattens
    <3> QED BY <3>2, <3>3
  <2>5. f = [k \in 1 .. m |-> IF k = 1 THEN s[k] ELSE f[k - 1] \o s[k]]
    <3>1. \A k \in 1 .. m : k # 1 => k - 1 \in 1 .. m - 1
      BY <2>1
    <3>2. \A k \in 1 .. m : k # 1 => f[k - 1] \o s[k] = g[k - 1] \o s[k]
      BY <2>4, <3>1
    <3> QED BY <3>2
  <2> QED BY <2>5 DEF Flattens
<1> QED BY <1>2, <1>3

LEMMA FlattensTo ==
    ASSUME NEW s, Len(s) \in Nat, Len(s) # 0
    PROVE  \E f : Flattens(f, s, Len(s)) /\ FlattenSeq(s) = f[Len(s)]
<1> DEFINE f == CHOOSE f : f = [k \in 1 .. Len(s) |-> IF k = 1 THEN s[k] ELSE f[k - 1] \o s[k]]
<1>1. FlattenSeq(s) = f[Len(s)]
  BY DEF FlattenSeq
<1>2. Flattens(f, s, Len(s))
  BY FlattensExist DEF Flattens
<1> QED BY <1>1, <1>2

LEMMA Flattened ==
    ASSUME NEW T, NEW s \in Seq(Seq(T))
    PROVE  FlattenSeq(s) \in Seq(T)
<1>1. CASE Len(s) = 0
  <2>1. s = <<>>
    BY <1>1
  <2> QED BY <1>1, <2>1 DEF FlattenSeq
<1>2. CASE Len(s) # 0
  <2>1. PICK f : Flattens(f, s, Len(s)) /\ FlattenSeq(s) = f[Len(s)]
    BY <1>2, FlattensTo
  <2> DEFINE S == {k \in 1 .. Len(s) : f[k] \notin Seq(T)}
  <2>2. ASSUME S # {} PROVE FALSE
    <3>1. PICK k \in S : \A l \in S : k <= l
      <4>1. S \subseteq Nat
        OBVIOUS
      <4> HIDE DEF S
      <4> QED BY <2>2, <4>1, Least
    <3>2. k \in 1 .. Len(s) /\ f[k] \notin Seq(T) /\ s[k] \in Seq(T)
      OBVIOUS
    <3>3. f[k] = IF k = 1 THEN s[k] ELSE f[k - 1] \o s[k]
      BY <2>1, <3>2 DEF Flattens
    <3>4. k # 1
      BY <3>2, <3>3
    <3>5. k - 1 \in 1 .. Len(s) /\ ~(k <= k - 1)
      BY <3>2, <3>4
    <3>6. f[k - 1] \in Seq(T)
      BY <3>1, <3>5
    <3>7. f[k - 1] \o s[k] \in Seq(T)
      BY <3>2, <3>6
    <3> QED BY <3>2, <3>3, <3>4, <3>7
  <2>3. Len(s) \in 1 .. Len(s)
    BY <1>2
  <2> QED BY <2>1, <2>2, <2>3
<1> QED BY <1>1, <1>2

LEMMA Joins ==
    ASSUME NEW Q, NEW s \in Seq(Q), NEW t \in Seq(Q)
    PROVE  s \o t \in Seq(Q)
OBVIOUS

LEMMA Drops ==
    ASSUME NEW Q, NEW s \in Seq(Q), NEW k \in 0 .. Len(s)
    PROVE  SubSeq(s, k + 1, Len(s)) \in Seq(Q)
OBVIOUS

\* The operators of sequences are kept out of sight where the lemma is cited.
Rest(s, k) == SubSeq(s, k + 1, Len(s))
Joined(s, t) == s \o t

LEMMA DropsFirst ==
    ASSUME NEW Q, NEW R, NEW s \in Seq(Q), NEW t \in Seq(R), NEW k \in 0 .. Len(s)
    PROVE  Rest(Joined(s, t), k) = Joined(Rest(s, k), t)
<1> DEFINE a == SubSeq(s \o t, k + 1, Len(s \o t))
           b == SubSeq(s, k + 1, Len(s)) \o t
           m == Len(s)
           n == Len(t)
<1>1. m \in Nat /\ n \in Nat /\ Len(s \o t) = m + n /\ s \o t \in Seq(Q \union R)
  OBVIOUS
<1>2. a \in Seq(Q \union R) /\ Len(a) = m + n - k
  BY <1>1
<1>3. SubSeq(s, k + 1, m) \in Seq(Q) /\ Len(SubSeq(s, k + 1, m)) = m - k
  OBVIOUS
<1>4. b \in Seq(Q \union R) /\ Len(b) = m + n - k
  BY <1>1, <1>3
<1>5. ASSUME NEW i \in 1 .. m + n - k PROVE a[i] = b[i]
  <2>1. a[i] = (s \o t)[k + i]
    BY <1>1
  <2>2. CASE i <= m - k
    BY <1>1, <1>3, <2>1, <2>2
  <2>3. CASE i > m - k
    <3>1. b[i] = t[i - (m - k)]
      BY <1>1, <1>3, <2>3
    <3>2. (s \o t)[k + i] = t[k + i - m]
      BY <1>1, <2>3
    <3>3. i - (m - k) = k + i - m
      BY <1>1
    <3> QED BY <2>1, <3>1, <3>2, <3>3
  <2> QED BY <1>1, <2>2, <2>3
<1> HIDE DEF a, b
<1>6. a = b
  BY <1>2, <1>4, <1>5
<1> QED BY <1>6 DEF a, b, Rest, Joined

\* A replacement with the argument put in.
LEMMA SubstitutedQuiet ==
    ASSUME NEW payload \in Seq(Quiet), NEW arg \in Seq(Quiet)
    PROVE  Substituted(payload, arg) \in Seq(Quiet)
<1> DEFINE s == [k \in DOMAIN payload |-> IF payload[k] = "p" THEN arg ELSE <<payload[k]>>]
<1>1. \A k \in DOMAIN payload : payload[k] \in Quiet
  OBVIOUS
<1>2. \A q \in Quiet : <<q>> \in Seq(Quiet)
  OBVIOUS
<1>3. \A k \in DOMAIN payload : s[k] \in Seq(Quiet)
  BY <1>1, <1>2
<1>4. DOMAIN payload = 1 .. Len(payload) /\ Len(payload) \in Nat
  OBVIOUS
<1>5. s \in Seq(Seq(Quiet))
  <2> DEFINE R == Seq(Quiet)
             n == Len(payload)
  <2>1. s \in [1 .. n -> R] /\ n \in Nat
    BY <1>3, <1>4
  <2> HIDE DEF s, R, n
  <2>2. s \in Seq(R)
    BY <2>1
  <2> QED BY <2>2 DEF R
<1> HIDE DEF s
<1>6. FlattenSeq(s) \in Seq(Quiet)
  BY <1>5, Flattened
<1> QED BY <1>6 DEF Substituted, s

\* What is pending behind its first element.
LEMMA AheadTail ==
    ASSUME NEW p, OneAhead(p), Head(p) # "nl"
    PROVE  /\ p # <<>> /\ Head(p) \in Quiet
           /\ OneAhead(Tail(p))
<1> PICK s \in Seq(Quiet), t \in Seq({"endobject"}) : p = s \o <<"nl">> \o t
  BY DEF OneAhead
<1>1. CASE s = <<>>
  <2>1. p = <<"nl">> \o t
    BY <1>1
  <2> QED BY <2>1
<1>2. CASE s # <<>>
  <2>1. Head(s) \in Quiet /\ Tail(s) \in Seq(Quiet)
    BY <1>2
  <2>2. p # <<>> /\ Head(p) = Head(s) /\ Tail(p) = Tail(s) \o <<"nl">> \o t
    BY <1>2
  <2> QED BY <2>1, <2>2 DEF OneAhead
<1> QED BY <1>1, <1>2

-----------------------------------------------------------------------------
\* What a character that is no quote does to the line number and to the mode.
Counts(ch) ==
    status' # "thrown" =>
        /\ line_number' = line_number + (IF ch = "nl" /\ status' = "run" THEN 1 ELSE 0)
        /\ global_state' \notin StringModes \union CallModes
        /\ global_state' = "apost_begin" => ch = "apost" /\ current_lexem' = <<>>

\* A character that begins a lexeme, whatever was read before.
LEMMA BeginCounts ==
    ASSUME status = "run", line_number \in Nat, NEW ch, ch # "quote", NEW lexemes, Begin(ch, lexemes)
    PROVE  Counts(ch)
<1> USE DEF Counts, Enter, StringModes, CallModes
<1>1. CASE ch = "nl"
  <2>1. line_number' = line_number + 1 /\ global_state' = "expression" /\ status' = status
    BY <1>1 DEF Begin, Letters, Digits, Singles, Openers
  <2> QED BY <1>1, <2>1
<1>2. CASE ch # "nl" /\ ch # "apost"
  <2>1. line_number' = line_number
    BY <1>2 DEF Begin
  <2>2. status' # "thrown" => global_state' \in {"numeric", "inside_lexem", "delimiter", "lexem",
                               "operator", "parse_slash", "dot", "linear_comment"}
    BY <1>2 DEF Begin
  <2> QED BY <1>2, <2>1, <2>2
<1>3. CASE ch = "apost"
  <2>1. line_number' = line_number /\ global_state' = "apost_begin" /\ current_lexem' = <<>>
    BY <1>3 DEF Begin, Letters, Digits, Singles, Openers
  <2> QED BY <1>3, <2>1
<1> QED BY <1>1, <1>2, <1>3

\* One of text that is not in a string, nor right behind an apostrophe.
LEMMA ScanCounts ==
    ASSUME status = "run", line_number \in Nat, NEW ch, ch # "quote", Scan(ch),
           global_state \notin StringModes \union {"apost_begin"}
    PROVE  Counts(ch)
<1>1. CASE Expression(ch)
  <2>1. CASE Begin(ch, <<>>)
    BY <2>1, BeginCounts
  <2>2. CASE ch = "nl" /\ NewLine("expression")
    BY <2>2 DEF Counts, NewLine, StringModes, CallModes
  <2>3. CASE ch # "nl" /\ \E state \in {"parse_slash", "expression"} : Enter(state, <<>>)
    BY <2>3 DEF Counts, Enter, StringModes, CallModes
  <2> QED BY <1>1, <2>1, <2>2, <2>3 DEF Expression
<1>2. CASE Delimiter(ch) \/ PlainWord(ch)
  BY <1>2, BeginCounts DEF Delimiter, PlainWord
<1>3. CASE AppendDigit(ch) \/ InsideLexem(ch)
  BY <1>3 DEF AppendDigit, InsideLexem, Counts, Keep, Letters, Digits, StringModes, CallModes
<1>4. CASE Second(ch)
  BY <1>4, BeginCounts DEF Second, Counts, Enter, Pairs, StringModes, CallModes
<1>5. CASE PointerToMember(ch)
  BY <1>5, BeginCounts DEF PointerToMember, Counts, Enter, StringModes, CallModes
<1>6. CASE Dot(ch)
  BY <1>6, BeginCounts DEF Dot, Counts, Enter, Stop, StringModes, CallModes
<1>7. CASE Apostrophe(ch)
  BY <1>7 DEF Apostrophe, Counts, Enter, Stop, StringModes, CallModes
<1>8. CASE String(ch) \/ Concatenate(ch)
  BY <1>8 DEF String, Concatenate, StringModes, CallModes
<1>9. CASE Numeric(ch)
  BY <1>9, BeginCounts DEF Numeric, Counts, Enter, Digits, StringModes, CallModes
<1>10. CASE Slash(ch)
  BY <1>10, BeginCounts DEF Slash, Counts, Enter, StringModes, CallModes
<1>11. CASE Comment(ch)
  BY <1>11 DEF Comment, Counts, Enter, NewLine, StringModes, CallModes
<1>12. CASE LinearComment(ch)
  BY <1>12 DEF LinearComment, Counts, Enter, NewLine, StringModes, CallModes
<1> QED
  BY <1>1, <1>2, <1>3, <1>4, <1>5, <1>6, <1>7, <1>8, <1>9, <1>10, <1>11, <1>12 DEF Scan

\* One of the text of a directive.
LEMMA TextCounts ==
    ASSUME status = "run", line_number \in Nat, NEW ch, NEW text, DoPreprocessor(ch, text)
    PROVE  Counts(ch)
BY DEF DoPreprocessor, Counts, Enter, NewLine, StringModes, CallModes

\* One of a directive: its text, its comments and its continued lines.
LEMMA DirectiveCounts ==
    ASSUME status = "run", line_number \in Nat, NEW ch, Directive(ch)
    PROVE  Counts(ch)
<1>1. CASE global_state = "do_preprocessor" /\ DoPreprocessor(ch, preprocessor_buffer)
  BY <1>1, TextCounts
<1>2. CASE DirectiveComment(ch)
  BY <1>2, TextCounts DEF DirectiveComment, Collected, Counts, Enter, NewLine, StringModes, CallModes
<1>4. CASE Hash(ch)
  BY <1>4 DEF Hash, Counts, Enter, StringModes, CallModes
<1>3. CASE ScreenPreprocessor(ch)
  BY <1>3 DEF ScreenPreprocessor, Collected, Counts, Enter, NewLine, StringModes, CallModes
<1> QED BY <1>1, <1>2, <1>3, <1>4 DEF Directive

\* One of text that is skipped.
LEMMA SkippingCounts ==
    ASSUME status = "run", line_number \in Nat, NEW ch, SkipPreprocessor(ch)
    PROVE  Counts(ch)
BY DEF SkipPreprocessor, Counts, Enter, NewLine, StringModes, CallModes

\* One right behind an apostrophe, which is not counted.
LEMMA ApostropheKeeps ==
    ASSUME NEW ch, Scan(ch), global_state = "apost_begin", status = "run"
    PROVE  /\ line_number' = line_number
           /\ \/ global_state' = "apost_end" /\ status' = "run"
              \/ /\ global_state' = "apost_begin" /\ ch = "bslash" /\ status' = "run"
                 /\ current_lexem = <<>> /\ current_lexem' # <<>>
              \/ /\ global_state' = "apost_begin" /\ ch = "apost" /\ status' # "run"
                 /\ current_lexem = <<>> /\ current_lexem' = <<>>
<1>1. Apostrophe(ch)
  BY DEF Scan, Expression, Delimiter, AppendDigit, InsideLexem, PlainWord, WordEnds, Second,
         PointerToMember, Dot, String, Concatenate, Numeric, Slash, Comment, LinearComment
<1>2. <<ch>> # <<>>
  OBVIOUS
<1> QED BY <1>1, <1>2 DEF Apostrophe, Keep, Stop

-----------------------------------------------------------------------------
(* The text, longer by a character.                                        *)

LEMMA Longer ==
    ASSUME NEW s, IsSeq(s), NEW ch
    PROVE  /\ IsSeq(Append(s, ch)) /\ Len(Append(s, ch)) = Len(s) + 1
           /\ \A k \in 1 .. Len(s) : Append(s, ch)[k] = s[k]
           /\ Append(s, ch)[Len(s) + 1] = ch
<1> DEFINE S == {s[k] : k \in 1 .. Len(s)} \union {ch}
           t == Append(s, ch)
<1>1. s \in Seq(S) /\ ch \in S
  BY DEF IsSeq
<1> HIDE DEF S
<1>2. t \in Seq(S) /\ Len(t) = Len(s) + 1 /\ Len(s) \in Nat
  BY <1>1
<1>3. \A k \in 1 .. Len(s) : t[k] = s[k]
  BY <1>1
<1>4. t[Len(s) + 1] = ch
  BY <1>1
<1>5. IsSeq(t)
  <2> HIDE DEF t
  <2> QED BY <1>2 DEF IsSeq
<1> QED BY <1>2, <1>3, <1>4, <1>5

\* The line feeds of the longer text, and whether they stand in a character.
LEMMA LongerFeeds ==
    ASSUME IsSeq(read), NEW ch, read' = Append(read, ch)
    PROVE  /\ Cardinality(LineFeeds) \in Nat
           /\ Cardinality(LineFeeds') = Cardinality(LineFeeds) + (IF ch = "nl" THEN 1 ELSE 0)
           /\ NoQuotes' => NoQuotes /\ ch # "quote"
           /\ NoneQuoted' => NoneQuoted /\ \A m : m = Len(read') /\ ch = "nl" => ~Quoted(m)'
<1> PICK n : n = Len(read)
  OBVIOUS
<1>1. /\ Len(read') = n + 1 /\ n \in Nat
      /\ \A k \in 1 .. n : read'[k] = read[k]
      /\ read'[n + 1] = ch
  BY Longer DEF IsSeq
<1>2. LineFeeds' = LineFeeds \union (IF ch = "nl" THEN {n + 1} ELSE {}) /\ n + 1 \notin LineFeeds
  BY <1>1 DEF LineFeeds
<1>3. IsFiniteSet(LineFeeds) /\ Cardinality(LineFeeds) \in Nat
  <2>1. IsFiniteSet(1 .. n) /\ LineFeeds \in SUBSET (1 .. n)
    BY <1>1, FS_Interval DEF LineFeeds
  <2> QED BY <2>1, FS_Subset, FS_CardinalityType
<1>4. Cardinality(LineFeeds') = Cardinality(LineFeeds) + (IF ch = "nl" THEN 1 ELSE 0)
  <2> DEFINE old == LineFeeds
             new == LineFeeds'
  <2>1. new = old \union (IF ch = "nl" THEN {n + 1} ELSE {}) /\ n + 1 \notin old
    BY <1>2
  <2>2. IsFiniteSet(old) /\ Cardinality(old) \in Nat
    BY <1>3
  <2> HIDE DEF old, new
  <2>3. Cardinality(new) = Cardinality(old) + (IF ch = "nl" THEN 1 ELSE 0)
    <3>1. CASE ch = "nl"
      <4>1. new = old \union {n + 1}
        BY <2>1, <3>1
      <4>2. Cardinality(new) = Cardinality(old) + 1
        BY <2>1, <2>2, <4>1, FS_AddElement
      <4> QED BY <3>1, <4>2
    <3>2. CASE ch # "nl"
      BY <2>1, <2>2, <3>2
    <3> QED BY <3>1, <3>2
  <2> QED BY <2>3 DEF old, new
<1>5. NoQuotes' => NoQuotes /\ ch # "quote"
  BY <1>1 DEF NoQuotes
<1>6. \A k \in LineFeeds : k \in 1 .. n /\ (Quoted(k)' <=> Quoted(k))
  BY <1>1 DEF LineFeeds, Quoted
<1>7. NoneQuoted' => NoneQuoted /\ \A m : m = Len(read') /\ ch = "nl" => ~Quoted(m)'
  <2>1. LineFeeds \subseteq LineFeeds' /\ (ch = "nl" => n + 1 \in LineFeeds')
    BY <1>2
  <2>2. NoneQuoted' <=> \A k \in LineFeeds' : ~Quoted(k)'
    BY DEF NoneQuoted
  <2> QED BY <1>1, <1>6, <2>1, <2>2 DEF NoneQuoted
<1> QED BY <1>3, <1>4, <1>5, <1>7
-----------------------------------------------------------------------------
\* What is pending behind a character that did not end a macro's name with a
\* line feed: what was, perhaps behind a replacement.
Added(ch, rest) ==
    \/ pending' = rest
    \/ ch # "apost" /\ \E s \in Seq(Quiet) : pending' = s \o rest

\* And behind a line feed that did.
Waits(rest) == \E s \in Seq(Quiet) : pending' = s \o <<"nl">> \o (<<"endobject">> \o rest)

\* A character does not disturb the count, unless it is forgotten.
Good(ch, rest) ==
    /\ line_number' \in Nat
    /\ global_state' \notin StringModes
    /\ global_state' = "apost_begin" => ch = "apost" /\ current_lexem' = <<>> /\ pending' = rest
    /\ InCalls'
    /\ ch # "nl" => line_number' = line_number /\ Added(ch, rest)
    /\ ch = "nl" => \/ line_number' = line_number + 1 /\ pending' = rest
                    \/ line_number' = line_number /\ Waits(rest)

\* The replacements, when no quotes stand in them.
LEMMA PayloadsQuiet ==
    ASSUME NoneReplaced, NEW w \in DOMAIN Macros
    PROVE  Macros[w].payload \in Seq(Quiet)
<1> DEFINE payload == Macros[w].payload
           Q == STRING \ (Marks \union {"nl"})
<1>1. payload \in Seq(Q)
  BY CharacterAssumption
<1>2. \A k \in DOMAIN payload : payload[k] \notin {"quote", "apost"}
  BY DEF NoneReplaced
<1>3. DOMAIN payload = 1 .. Len(payload) /\ Len(payload) \in Nat
      /\ payload = [k \in 1 .. Len(payload) |-> payload[k]]
      /\ \A k \in 1 .. Len(payload) : payload[k] \in Q
  <2> HIDE DEF payload, Q
  <2> QED BY <1>1
<1>4. \A k \in 1 .. Len(payload) : payload[k] \in Quiet
  <2> HIDE DEF payload
  <2> QED BY <1>2, <1>3 DEF Quiet, Character
<1>5. payload \in Seq(Quiet)
  <2> HIDE DEF payload
  <2> QED BY <1>3, <1>4
<1> QED BY <1>5

\* Behind the name of a macro with arguments.
LEMMA EnterGood ==
    ASSUME status = "run", line_number \in Nat, NEW ch \in Character, NEW rest, EnterDef(ch), pending' = rest,
           def' \in DOMAIN Macros, ~Forgets(ch)
    PROVE  Good(ch, rest)
<1>1. global_state' \in CallModes /\ line_number' = line_number
  BY DEF EnterDef, Keep, CallModes
<1>2. global_state' = "parse_def_expression" => current_lexem' = <<>>
  BY DEF EnterDef, Keep
<1>3. ch # "nl"
  BY <1>1 DEF Forgets, CallModes
<1>4. InCalls'
  <2>1. <<>> \in Seq(Quiet)
    OBVIOUS
  <2> QED BY <1>2, <2>1 DEF InCalls
<1> QED BY <1>1, <1>3, <1>4 DEF Good, Added, StringModes, CallModes

\* A character that a macro call takes, or that ends the name of a macro.
LEMMA CallGood ==
    ASSUME status = "run", line_number \in Nat, InCalls, NoneReplaced,
           NEW ch \in Character, ch # "quote", NEW R, NEW rest \in Seq(R), Call(ch, rest), ~Forgets(ch)
    PROVE  Good(ch, rest)
<1>1. ASSUME WordEnds(ch), current_lexem \in DOMAIN Macros, Macros[current_lexem].call,
             EnterDef(ch), def' = current_lexem, pending' = rest
      PROVE  Good(ch, rest)
  BY <1>1, EnterGood
<1>2. ASSUME current_lexem \in DOMAIN Macros, Keep("lexem", <<>>),
             pending' = Macros[current_lexem].payload \o <<ch, "endobject">> \o rest
      PROVE  Good(ch, rest)
  <2>1. PICK s \in Seq(Quiet) : pending' = s \o <<ch, "endobject">> \o rest
    BY <1>2, PayloadsQuiet
  <2>2. pending' # <<>>
    BY <2>1
  <2>3. ch # "apost"
    BY <2>2 DEF Forgets
  <2>4. line_number' = line_number /\ global_state' = "lexem" /\ InCalls'
    BY <1>2 DEF Keep, InCalls, CallModes
  <2>5. CASE ch = "nl"
    <3>1. pending' = s \o <<"nl">> \o (<<"endobject">> \o rest)
      BY <2>1, <2>5
    <3> QED BY <2>4, <2>5, <3>1 DEF Good, Waits, StringModes
  <2>6. CASE ch # "nl"
    <3>1. ch \in Quiet /\ "endobject" \in Quiet
      BY <2>3, <2>6 DEF Quiet, Character, Marks
    <3>2. <<ch, "endobject">> \in Seq(Quiet)
      BY <3>1
    <3>3. s \o <<ch, "endobject">> \in Seq(Quiet)
      BY <3>2, Joins
    <3> QED BY <2>1, <2>3, <2>4, <2>6, <3>3 DEF Good, Added, StringModes
  <2> QED BY <2>5, <2>6
<1>3. ASSUME global_state = "enter_def_expression", EnterDef(ch), pending' = rest, UNCHANGED calls
      PROVE  Good(ch, rest)
  BY <1>3, EnterGood DEF InCalls, CallModes, calls
<1>4. ASSUME ReadArgument(ch, rest) PROVE Good(ch, rest)
  <2>1. /\ global_state = "parse_def_expression" /\ global_state' = "parse_def_expression"
        /\ line_number' = line_number
        /\ current_lexem' = Append(current_lexem, ch) /\ def' = def /\ pending' = rest
    BY <1>4 DEF ReadArgument, Keep
  <2>2. ch \in Quiet
    BY <2>1 DEF Forgets, Quiet, Character
  <2>3. current_lexem \in Seq(Quiet) /\ def \in DOMAIN Macros
    BY <2>1 DEF InCalls, CallModes
  <2>4. Append(current_lexem, ch) \in Seq(Quiet)
    BY <2>2, <2>3
  <2>5. InCalls'
    BY <2>1, <2>3, <2>4 DEF InCalls
  <2>6. ch # "nl"
    BY <2>2 DEF Quiet, Character
  <2> QED BY <2>1, <2>5, <2>6 DEF Good, Added, StringModes
<1>5. ASSUME ReadEndOfCall(ch, rest) PROVE Good(ch, rest)
  <2>1. global_state = "parse_def_expression" /\ ch = ")" /\ def' = def
    BY <1>5 DEF ReadEndOfCall, Closes, calls
  <2>2. current_lexem \in Seq(Quiet) /\ def \in DOMAIN Macros
    BY <2>1 DEF InCalls, CallModes
  <2>3. Macros[def].payload \in Seq(Quiet)
    BY <2>2, PayloadsQuiet
  <2>4. CASE current_lexem' = <<>> /\ pending' = rest /\ UNCHANGED <<global_state, line_number>>
    <3>1. <<>> \in Seq(Quiet)
      OBVIOUS
    <3>2. InCalls'
      BY <2>1, <2>2, <2>4, <3>1 DEF InCalls
    <3> QED BY <2>1, <2>4, <3>2 DEF Good, Added, StringModes
  <2>5. CASE /\ Keep("lexem", <<>>)
             /\ pending' = Substituted(Macros[def].payload, current_lexem) \o <<"endcall">> \o rest
    <3>1. PICK s : s = Substituted(Macros[def].payload, current_lexem)
      OBVIOUS
    <3>2. s \in Seq(Quiet)
      BY <2>2, <2>3, <3>1, SubstitutedQuiet
    <3>3. "endcall" \in Quiet
      BY DEF Quiet, Character, Marks
    <3>4. <<"endcall">> \in Seq(Quiet)
      BY <3>3
    <3>5. s \o <<"endcall">> \in Seq(Quiet)
      BY <3>2, <3>4, Joins
    <3>6. pending' = (s \o <<"endcall">>) \o rest
      BY <2>5, <3>1
    <3>7. global_state' = "lexem" /\ line_number' = line_number
      BY <2>5 DEF Keep
    <3> QED BY <2>1, <3>5, <3>6, <3>7 DEF Good, Added, InCalls, StringModes, CallModes
  <2>6. CASE Keep("lexem", <<>>) /\ pending' = rest
    <3>1. global_state' = "lexem" /\ line_number' = line_number
      BY <2>6 DEF Keep
    <3> QED BY <2>1, <2>6, <3>1 DEF Good, Added, InCalls, StringModes, CallModes
  <2> QED BY <1>5, <2>4, <2>5, <2>6 DEF ReadEndOfCall
<1> QED
  <2>1. CASE ReadMacro(ch, rest)
    BY <1>1, <1>2, <2>1 DEF ReadMacro
  <2>2. CASE ReadEnterDef(ch, rest)
    BY <1>3, <2>2 DEF ReadEnterDef
  <2> QED BY <1>4, <1>5, <2>1, <2>2 DEF Call

\* Any character, but right behind an apostrophe.
LEMMA StepGood ==
    ASSUME status = "run", status' # "thrown", line_number \in Nat, InCalls, NoneReplaced,
           global_state \notin StringModes \union {"apost_begin"},
           NEW ch \in Character, ch # "quote", NEW R, NEW rest \in Seq(R), Step(ch, rest), ~Forgets(ch)
    PROVE  Good(ch, rest)
<1>1. CASE Call(ch, rest)
  BY <1>1, CallGood
<1>2. CASE (Scan(ch) \/ Directive(ch) \/ SkipPreprocessor(ch)) /\ pending' = rest
  <2>1. Counts(ch)
    BY <1>2, ScanCounts, DirectiveCounts, SkippingCounts
  <2>2. ch = "nl" => status' = "run"
    BY DEF Forgets
  <2>3. InCalls'
    BY <2>1 DEF Counts, InCalls, CallModes
  <2> QED BY <1>2, <2>1, <2>2, <2>3 DEF Counts, Good, Added
<1> QED BY <1>1, <1>2 DEF Step
-----------------------------------------------------------------------------
\* A character of the text is read.
LEMMA ReadTextGood ==
    ASSUME IInv, status = "run", ReadText, alphabet' = alphabet
    PROVE  IInv'
<1> PICK ch \in alphabet.chars : /\ read' = Append(read, ch)
                                 /\ Step(ch, <<>>)
                                 /\ lost' = (lost \/ Forgets(ch))
  BY DEF ReadText
<1>0. pending = <<>> /\ <<>> \in Seq(Quiet)
  BY DEF ReadText
<1>1. /\ IsSeq(read') /\ Len(read) \in Nat /\ Len(read') = Len(read) + 1
      /\ \A k \in 1 .. Len(read) : read'[k] = read[k]
      /\ read'[Len(read) + 1] = ch
  BY Longer DEF IInv, IsSeq
<1> SUFFICES ASSUME status' # "thrown", ~lost', NoQuotes', NoneReplaced'
             PROVE  /\ line_number' \in Nat
                    /\ global_state' \notin StringModes
                    /\ Opened'
                    /\ pending' # <<>> => global_state' # "apost_begin"
                    /\ InCalls'
                    /\ Counted'
  BY <1>1 DEF IInv
<1>2. /\ NoQuotes /\ ch # "quote"
      /\ NoneQuoted' => NoneQuoted /\ \A m : m = Len(read') /\ ch = "nl" => ~Quoted(m)'
      /\ Cardinality(LineFeeds) \in Nat
      /\ Cardinality(LineFeeds') = Cardinality(LineFeeds) + (IF ch = "nl" THEN 1 ELSE 0)
  BY LongerFeeds DEF IInv
<1>3. NoneReplaced
  BY DEF NoneReplaced
<1>4. /\ line_number \in Nat /\ global_state \notin StringModes /\ Opened /\ InCalls
      /\ NoneQuoted => line_number = 1 + Cardinality(LineFeeds)
  <2>1. Counted => (NoneQuoted => line_number = 1 + Cardinality(LineFeeds))
    <3>1. ~OneAhead(<<>>)
      <4> SUFFICES ASSUME NEW s \in Seq(Quiet), NEW t \in Seq({"endobject"}), <<>> = s \o <<"nl">> \o t
                   PROVE  FALSE
        BY DEF OneAhead
      <4>1. Len(s \o <<"nl">> \o t) = Len(s) + 1 + Len(t) /\ Len(s) \in Nat /\ Len(t) \in Nat
        OBVIOUS
      <4> QED BY <4>1
    <3> QED BY <1>0, <3>1 DEF Counted
  <2> QED BY <1>2, <1>3, <2>1 DEF IInv
<1>5. ch \in Character /\ ~Forgets(ch)
  BY CharacterAssumption DEF IInv, Character
<1>6. CASE global_state # "apost_begin"
  <2>1. Good(ch, <<>>)
    BY <1>0, <1>2, <1>3, <1>4, <1>5, <1>6, StepGood
  <2>2. Opened'
    BY <1>1, <2>1 DEF Good, Opened
  <2>3. pending' # <<>> => global_state' # "apost_begin"
    BY <2>1 DEF Good
  <2>4. Counted'
    <3>1. CASE ch # "nl"
      <4>1. line_number' = line_number /\ Added(ch, <<>>)
        BY <2>1, <3>1 DEF Good
      <4>2. \A s \in Seq(Quiet) : s \o <<>> = s
        OBVIOUS
      <4>3. pending' \in Seq(Quiet)
        BY <1>0, <4>1, <4>2 DEF Added
      <4> QED BY <1>2, <1>4, <3>1, <4>1, <4>3 DEF Counted
    <3>2. CASE ch = "nl" /\ line_number' = line_number + 1 /\ pending' = <<>>
      BY <1>0, <1>2, <1>4, <3>2 DEF Counted
    <3>3. CASE ch = "nl" /\ line_number' = line_number /\ Waits(<<>>)
      <4>1. PICK s \in Seq(Quiet) : pending' = s \o <<"nl">> \o (<<"endobject">> \o <<>>)
        BY <3>3 DEF Waits
      <4>2. <<"endobject">> \o <<>> \in Seq({"endobject"})
        OBVIOUS
      <4>3. OneAhead(pending')
        BY <4>1, <4>2 DEF OneAhead
      <4> QED BY <1>2, <1>4, <3>3, <4>3 DEF Counted
    <3> QED BY <2>1, <3>1, <3>2, <3>3 DEF Good
  <2> QED BY <2>1, <2>2, <2>3, <2>4 DEF Good
<1>7. CASE global_state = "apost_begin"
  <2>1. Scan(ch) /\ pending' = <<>>
    BY <1>7 DEF Step, Directive, Hash, DirectiveComment, ScreenPreprocessor, SkipPreprocessor,
                Call, ReadMacro, WordEnds, ReadEnterDef, ReadArgument, ReadEndOfCall
  <2>2. /\ line_number' = line_number
        /\ \/ global_state' = "apost_end" /\ status' = "run"
           \/ /\ global_state' = "apost_begin" /\ ch = "bslash" /\ status' = "run"
              /\ current_lexem = <<>> /\ current_lexem' # <<>>
           \/ /\ global_state' = "apost_begin" /\ ch = "apost" /\ status' # "run"
              /\ current_lexem = <<>> /\ current_lexem' = <<>>
    BY <1>7, <2>1, ApostropheKeeps
  <2>3. Opened'
    BY <1>1, <1>4, <1>7, <2>2 DEF Opened
  <2>4. ASSUME NEW m, m = Len(read') PROVE ch = "nl" => Quoted(m)'
    BY <1>1, <1>4, <1>7, <2>4 DEF Opened, Quoted
  <2>5. NoneQuoted' => line_number' = 1 + Cardinality(LineFeeds')
    BY <1>2, <1>4, <2>2, <2>4
  <2>6. Counted'
    BY <1>0, <2>1, <2>5 DEF Counted
  <2>7. InCalls'
    BY <2>2 DEF InCalls, CallModes
  <2> QED BY <1>4, <2>1, <2>2, <2>3, <2>6, <2>7 DEF StringModes
<1> QED BY <1>6, <1>7

\* A character that is pending is scanned.
LEMMA ReplacementGood ==
    ASSUME IInv, status = "run", ReadReplacement, alphabet' = alphabet
    PROVE  IInv'
<1> DEFINE ch == Head(pending)
           rest == Tail(pending)
<1>1. /\ pending # <<>> /\ ch \notin Marks /\ Step(ch, rest)
      /\ lost' = (lost \/ Forgets(ch)) /\ UNCHANGED read
  BY DEF ReadReplacement
<1> SUFFICES ASSUME status' # "thrown", ~lost', NoQuotes', NoneReplaced'
             PROVE  /\ line_number' \in Nat
                    /\ global_state' \notin StringModes
                    /\ Opened'
                    /\ pending' # <<>> => global_state' # "apost_begin"
                    /\ InCalls'
                    /\ Counted'
  BY <1>1 DEF IInv
<1>2. NoneReplaced /\ NoQuotes
  BY <1>1 DEF NoneReplaced, NoQuotes
<1>3. /\ line_number \in Nat /\ global_state \notin StringModes \union {"apost_begin"}
      /\ InCalls /\ Counted
  BY <1>1, <1>2 DEF IInv
<1>4. ~Forgets(ch)
  BY <1>1
<1>5. (NoneQuoted' <=> NoneQuoted) /\ LineFeeds' = LineFeeds
  BY <1>1 DEF NoneQuoted, LineFeeds, Quoted
<1> HIDE DEF ch, rest
<1>6. ASSUME ch \in Character, ch \notin {"quote", "apost"}, NEW R, rest \in Seq(R),
             ch # "nl" /\ Added(ch, rest) /\ line_number' = line_number => Counted',
             ch = "nl" /\ line_number' = line_number + 1 /\ pending' = rest => Counted',
             ch = "nl" /\ line_number' = line_number /\ Waits(rest) => Counted'
      PROVE  /\ line_number' \in Nat
             /\ global_state' \notin StringModes
             /\ Opened'
             /\ pending' # <<>> => global_state' # "apost_begin"
             /\ InCalls'
             /\ Counted'
  <2>1. Good(ch, rest)
    BY <1>1, <1>2, <1>3, <1>4, <1>6, StepGood
  <2> QED BY <1>6, <2>1 DEF Good, Opened
<1>7. CASE pending \in Seq(Quiet) /\ (NoneQuoted => line_number = 1 + Cardinality(LineFeeds))
  <2>1. ch \in Quiet /\ rest \in Seq(Quiet)
    BY <1>1, <1>7 DEF ch, rest
  <2>2. ch \in Character /\ ch \notin {"quote", "apost", "nl"}
    BY <1>1, <2>1 DEF Quiet, Character
  <2>3. Added(ch, rest) => pending' \in Seq(Quiet)
    BY <2>1, Joins DEF Added
  <2>4. Added(ch, rest) /\ line_number' = line_number => Counted'
    BY <1>5, <1>7, <2>3 DEF Counted
  <2> QED BY <1>6, <2>1, <2>2, <2>4
<1>8. CASE OneAhead(pending) /\ (NoneQuoted => line_number + 1 = 1 + Cardinality(LineFeeds))
  <2>1. PICK s \in Seq(Quiet), t \in Seq({"endobject"}) : pending = s \o <<"nl">> \o t
    BY <1>8 DEF OneAhead
  <2>2. CASE s = <<>>
    <3>1. ch = "nl" /\ rest = t
      BY <2>1, <2>2 DEF ch, rest
    <3>2. t \in Seq(Quiet)
      <4>1. "endobject" \in Quiet
        BY DEF Quiet, Character, Marks
      <4> QED BY <4>1
    <3>3. line_number' = line_number + 1 /\ pending' = rest => Counted'
      BY <1>5, <1>8, <3>1, <3>2 DEF Counted
    <3>4. line_number' = line_number /\ Waits(rest) => OneAhead(pending')
      <4>1. <<"endobject">> \o t \in Seq({"endobject"})
        OBVIOUS
      <4> QED BY <3>1, <4>1 DEF Waits, OneAhead
    <3>5. line_number' = line_number /\ Waits(rest) => Counted'
      BY <1>5, <1>8, <3>4 DEF Counted
    <3>6. ch \in Character /\ ch \notin {"quote", "apost"}
      BY <3>1 DEF Character
    <3> QED BY <1>6, <3>1, <3>2, <3>3, <3>5, <3>6
  <2>3. CASE s # <<>>
    <3>1. Head(s) \in Quiet /\ Tail(s) \in Seq(Quiet) /\ t \in Seq({"endobject"})
      BY <2>3
    <3>2. ch = Head(s) /\ rest = Tail(s) \o <<"nl">> \o t
      BY <2>1, <2>3 DEF ch, rest
    <3>3. PICK u \in Seq(Quiet) : rest = u \o <<"nl">> \o t
      BY <3>1, <3>2
    <3>4. rest \in Seq(Quiet \union {"nl", "endobject"})
      BY <3>3
    <3>5. ch \in Character /\ ch \notin {"quote", "apost", "nl"}
      BY <1>1, <3>1, <3>2 DEF Quiet, Character
    <3>6. ASSUME NEW r \in Seq(Quiet), pending' = r \o rest PROVE OneAhead(pending')
      <4>1. r \o u \in Seq(Quiet)
        BY Joins
      <4>2. pending' = (r \o u) \o <<"nl">> \o t
        BY <3>3, <3>6
      <4> QED BY <4>1, <4>2 DEF OneAhead
    <3>7. Added(ch, rest) => OneAhead(pending')
      BY <3>3, <3>6 DEF Added, OneAhead
    <3>8. Added(ch, rest) /\ line_number' = line_number => Counted'
      BY <1>5, <1>8, <3>7 DEF Counted
    <3> QED BY <1>6, <3>4, <3>5, <3>8
  <2> QED BY <2>2, <2>3
<1> QED BY <1>3, <1>7, <1>8 DEF Counted

\* A replay ends: what is pending is shorter by its mark.
LEMMA MarkGood ==
    ASSUME IInv, EndCall \/ EndObject, alphabet' = alphabet
    PROVE  IInv'
<1>1. /\ pending # <<>> /\ Head(pending) \in Marks /\ pending' = Tail(pending)
      /\ UNCHANGED <<read, lost, line_number, status, def>>
      /\ \/ global_state' = "lexem"
         \/ UNCHANGED <<global_state, current_lexem>>
  BY DEF EndCall, EndObject, calls, scan, Marks
<1> SUFFICES ASSUME status # "thrown", ~lost, NoQuotes, NoneReplaced
             PROVE  /\ line_number \in Nat
                    /\ global_state' \notin StringModes
                    /\ Opened'
                    /\ pending' # <<>> => global_state' # "apost_begin"
                    /\ InCalls'
                    /\ Counted'
  BY <1>1 DEF IInv, NoQuotes, NoneReplaced, IsSeq
<1>2. /\ line_number \in Nat /\ global_state \notin StringModes /\ global_state # "apost_begin"
      /\ InCalls /\ Counted
  BY <1>1 DEF IInv
<1>3. global_state' \notin StringModes \union {"apost_begin"} /\ InCalls'
  BY <1>1, <1>2 DEF InCalls, StringModes, CallModes
<1>4. (NoneQuoted' <=> NoneQuoted) /\ LineFeeds' = LineFeeds
  BY <1>1 DEF NoneQuoted, LineFeeds, Quoted
<1>5. Counted'
  <2>1. pending \in Seq(Quiet) => pending' \in Seq(Quiet)
    BY <1>1
  <2>2. OneAhead(pending) => OneAhead(pending')
    BY <1>1, AheadTail DEF Marks
  <2> QED BY <1>1, <1>2, <1>4, <2>1, <2>2 DEF Counted
<1> QED BY <1>2, <1>3, <1>5 DEF Opened

\* An error that is not looked at: what is pending is shorter by some marks.
LEMMA IgnoreGood ==
    ASSUME IInv, Ignore, alphabet' = alphabet
    PROVE  IInv'
<1>1. /\ status # "thrown" /\ status' = "run"
      /\ UNCHANGED <<read, lost, line_number, def, global_state, current_lexem>>
  BY DEF Ignore, calls
<1>2. PICK first \in DOMAIN pending, k \in {0} \union DOMAIN pending :
          /\ k = 0 \/ pending[k] = "endcall"
          /\ pending[first] = "endobject"
          /\ k < first
          /\ pending' = SubSeq(pending, k + 1, Len(pending))
  BY DEF Ignore
<1> SUFFICES ASSUME ~lost, NoQuotes, NoneReplaced
             PROVE  /\ line_number \in Nat
                    /\ global_state \notin StringModes
                    /\ Opened'
                    /\ pending' # <<>> => global_state # "apost_begin"
                    /\ InCalls'
                    /\ Counted'
  BY <1>1 DEF IInv, NoQuotes, NoneReplaced, IsSeq
<1>3. /\ line_number \in Nat /\ global_state \notin StringModes /\ Opened
      /\ pending # <<>> => global_state # "apost_begin"
      /\ InCalls /\ Counted
  BY <1>1 DEF IInv
<1>4. global_state # "apost_begin"
  BY <1>2, <1>3
<1>5. (NoneQuoted' <=> NoneQuoted) /\ LineFeeds' = LineFeeds
  BY <1>1 DEF NoneQuoted, LineFeeds, Quoted
<1>6. CASE pending \in Seq(Quiet) /\ (NoneQuoted => line_number = 1 + Cardinality(LineFeeds))
  <2>1. k \in 0 .. Len(pending)
    BY <1>2, <1>6
  <2>2. pending' \in Seq(Quiet)
    BY <1>2, <1>6, <2>1, Drops
  <2> QED BY <1>1, <1>3, <1>4, <1>5, <1>6, <2>2 DEF Counted, InCalls, Opened
<1>7. CASE OneAhead(pending) /\ (NoneQuoted => line_number + 1 = 1 + Cardinality(LineFeeds))
  <2>1. PICK s \in Seq(Quiet), t \in Seq({"endobject"}) : pending = s \o <<"nl">> \o t
    BY <1>7 DEF OneAhead
  <2>2. k \in 0 .. Len(s)
    <3>1. /\ Len(s) \in Nat /\ Len(t) \in Nat /\ Len(pending) = Len(s) + 1 + Len(t)
          /\ DOMAIN pending = 1 .. Len(pending)
      BY <2>1
    <3>2. pending[Len(s) + 1] = "nl"
      BY <2>1
    <3>3. \A m \in 1 .. Len(t) : pending[Len(s) + 1 + m] = t[m] /\ t[m] = "endobject"
      BY <2>1
    <3>4. ASSUME k > Len(s) + 1 PROVE FALSE
      <4>1. k - Len(s) - 1 \in 1 .. Len(t) /\ Len(s) + 1 + (k - Len(s) - 1) = k
        BY <1>2, <3>1, <3>4
      <4>2. PICK m \in 1 .. Len(t) : Len(s) + 1 + m = k
        BY <4>1
      <4>3. pending[k] = "endobject" /\ k # 0
        BY <3>1, <3>3, <3>4, <4>2
      <4> QED BY <1>2, <4>3
    <3> QED BY <1>2, <3>1, <3>2, <3>4
  <2>3. pending' = SubSeq(s, k + 1, Len(s)) \o <<"nl">> \o t
    <3>1. <<"nl">> \o t \in Seq({"nl", "endobject"}) /\ pending = s \o (<<"nl">> \o t)
      BY <2>1
    <3>2. PICK u : u = <<"nl">> \o t
      OBVIOUS
    <3>3. u \in Seq({"nl", "endobject"}) /\ pending = s \o u
      BY <3>1, <3>2
    <3>4. pending' = SubSeq(s, k + 1, Len(s)) \o u
      <4>1. Rest(Joined(s, u), k) = Joined(Rest(s, k), u)
        BY <2>2, <3>3, DropsFirst
      <4> QED BY <1>2, <3>3, <4>1 DEF Rest, Joined
    <3>5. PICK v \in Seq(Quiet) : v = SubSeq(s, k + 1, Len(s))
      BY <2>2, Drops
    <3>6. v \o (<<"nl">> \o t) = v \o <<"nl">> \o t
      OBVIOUS
    <3> QED BY <3>2, <3>4, <3>5, <3>6
  <2>4. OneAhead(pending')
    BY <2>2, <2>3, Drops DEF OneAhead
  <2> QED BY <1>1, <1>3, <1>4, <1>5, <1>7, <2>4 DEF Counted, InCalls, Opened
<1> QED BY <1>3, <1>6, <1>7 DEF Counted

\* In every text, however long and in whatever characters it is written, of C
\* or not, and under all macros that do not lead back to themselves,
\* line_number is the number of line feeds read
\* and one, if there are no strings, none stands between apostrophes and none
\* in the call of a macro.
THEOREM LineNumbersAreExact == Spec => []LinesExact
<1>1. Init => IInv
  <2> SUFFICES ASSUME Init PROVE IInv
    OBVIOUS
  <2>1. read = <<>> /\ IsSeq(read) /\ LineFeeds = {} /\ pending \in Seq(Quiet)
    BY DEF Init, IsSeq, LineFeeds
  <2>2. Cardinality(LineFeeds) = 0
    BY <2>1, FS_EmptySet
  <2> QED BY <2>1, <2>2 DEF Init, IInv, StringModes, CallModes, Opened, InCalls, Counted
<1>2. IInv /\ [Next]_vars => IInv'
  <2>1. ASSUME IInv, UNCHANGED vars PROVE IInv'
    <3>1. /\ UNCHANGED <<alphabet, read, pending, def, lost, line_number, global_state>>
          /\ UNCHANGED <<current_lexem, status>>
      BY <2>1 DEF vars, scan, calls
    <3>2. /\ LineFeeds' = LineFeeds /\ (NoneQuoted' <=> NoneQuoted) /\ (NoQuotes' <=> NoQuotes)
          /\ (NoneReplaced' <=> NoneReplaced)
      BY <3>1 DEF LineFeeds, NoneQuoted, Quoted, NoQuotes, NoneReplaced
    <3>3. Counted' <=> Counted
      BY <3>1, <3>2 DEF Counted, OneAhead
    <3>4. (InCalls' <=> InCalls) /\ (Opened' <=> Opened)
      BY <3>1 DEF InCalls, Opened
    <3>5. IsSeq(read) <=> IsSeq(read')
      BY <3>1
    <3> QED BY <2>1, <3>1, <3>2, <3>3, <3>4, <3>5 DEF IInv
  <2>2. ASSUME IInv, Next PROVE IInv'
    BY <2>2, ReadTextGood, ReplacementGood, MarkGood, IgnoreGood DEF Next
  <2> QED BY <2>1, <2>2
<1>3. IInv => LinesExact
  <2> SUFFICES ASSUME IInv, status = "run", pending = <<>>, ~lost, NoQuotes, NoneReplaced, NoneQuoted
               PROVE  line_number = 1 + Cardinality(LineFeeds)
    BY DEF LinesExact, NoneQuoted
  <2>1. Counted
    BY DEF IInv
  <2>2. ASSUME NEW s \in Seq(Quiet), NEW t \in Seq({"endobject"}), pending = s \o <<"nl">> \o t
        PROVE  FALSE
    <3>1. Len(s \o <<"nl">> \o t) = Len(s) + 1 + Len(t) /\ Len(s) \in Nat /\ Len(t) \in Nat
      OBVIOUS
    <3> QED BY <2>2, <3>1
  <2> QED BY <2>1, <2>2 DEF Counted, OneAhead
<1> QED BY <1>1, <1>2, <1>3, PTL DEF Spec
=============================================================================
