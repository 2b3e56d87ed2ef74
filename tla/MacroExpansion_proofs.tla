------------------------ MODULE MacroExpansion_proofs ------------------------
(***************************************************************************)
(* Proofs about MacroExpansion for all tables, texts and limits: the       *)
(* counter matches the stack, and macros without arguments whose           *)
(* replacements are ranked fit on the C stack.  Then, about Substitution:  *)
(* only a mark makes it read past the end, names between delimiters are    *)
(* replaced, and a call is split at its commas.                            *)
(***************************************************************************)
EXTENDS MacroProcessing, FiniteSetTheorems, SequenceTheorems, TLAPS

IsSeq(s) == Len(s) \in Nat /\ s = [k \in 1 .. Len(s) |-> s[k]]

IsFrame(f) ==
    /\ f = Frame(f.kind, f.rest, f.ch, f.phase)
    /\ f.phase \in {"replay", "tail"}
    /\ f.phase = "tail" => f.kind = "object"

\* The text itself is scanned by the outermost call, which never returns
\* while the others do.
IsStack(s) ==
    /\ IsSeq(s) /\ Len(s) # 0
    /\ \A k \in 1 .. Len(s) : IsFrame(s[k])
    /\ s[1].kind = "file"

Tails(s) == {k \in 1 .. Len(s) : s[k].phase = "tail"}

CInv == IsStack(stack) /\ recursion = Cardinality(Tails(stack))
-----------------------------------------------------------------------------
(* Sequences, whatever their elements are.                                 *)

LEMMA Appended ==
    ASSUME NEW s, IsSeq(s), NEW e
    PROVE  /\ IsSeq(Append(s, e)) /\ Len(Append(s, e)) = Len(s) + 1
           /\ \A k \in 1 .. Len(s) : Append(s, e)[k] = s[k]
           /\ Append(s, e)[Len(s) + 1] = e
<1> DEFINE S == {s[k] : k \in 1 .. Len(s)} \union {e}
           t == Append(s, e)
<1>1. s \in Seq(S) /\ e \in S
  BY DEF IsSeq
<1> HIDE DEF S
<1>2. t \in Seq(S) /\ Len(t) = Len(s) + 1 /\ Len(s) \in Nat
  BY <1>1
<1>3. \A k \in 1 .. Len(s) : t[k] = s[k]
  BY <1>1
<1>4. t[Len(s) + 1] = e
  BY <1>1
<1>5. IsSeq(t)
  <2> HIDE DEF t
  <2> QED BY <1>2 DEF IsSeq
<1> QED BY <1>2, <1>3, <1>4, <1>5

LEMMA Replaced ==
    ASSUME NEW s, IsSeq(s), Len(s) # 0, NEW e
    PROVE  LET t == [s EXCEPT ![Len(s)] = e]
           IN  /\ IsSeq(t) /\ Len(t) = Len(s)
               /\ \A k \in 1 .. Len(s) : k # Len(s) => t[k] = s[k]
               /\ t[Len(s)] = e
<1> DEFINE S == {s[k] : k \in 1 .. Len(s)} \union {e}
           t == [s EXCEPT ![Len(s)] = e]
<1>1. s \in Seq(S) /\ e \in S /\ Len(s) \in 1 .. Len(s)
  BY DEF IsSeq
<1> HIDE DEF S
<1>2. t \in Seq(S) /\ Len(t) = Len(s) /\ Len(s) \in Nat
  BY <1>1
<1>3. \A k \in 1 .. Len(s) : k # Len(s) => t[k] = s[k]
  BY <1>1
<1>4. t[Len(s)] = e
  BY <1>1
<1>5. IsSeq(t)
  <2> HIDE DEF t
  <2> QED BY <1>2 DEF IsSeq
<1> QED BY <1>2, <1>3, <1>4, <1>5

LEMMA Initial ==
    ASSUME NEW s, IsSeq(s), NEW n \in 1 .. Len(s)
    PROVE  /\ IsSeq(SubSeq(s, 1, n)) /\ Len(SubSeq(s, 1, n)) = n
           /\ \A k \in 1 .. n : SubSeq(s, 1, n)[k] = s[k]
BY DEF IsSeq
-----------------------------------------------------------------------------
(* The stack, and the number of tails in it.                               *)

LEMMA FiniteTails ==
    ASSUME NEW s, IsStack(s)
    PROVE  IsFiniteSet(Tails(s)) /\ Cardinality(Tails(s)) \in Nat
<1>1. Len(s) \in Nat /\ Tails(s) \subseteq 1 .. Len(s)
  BY DEF IsStack, IsSeq, Tails
<1>2. IsFiniteSet(1 .. Len(s))
  BY <1>1, FS_Interval
<1> QED BY <1>1, <1>2, FS_Subset, FS_CardinalityType

\* A frame on top that is replaced by one of its kind.
LEMMA ReplacedTop ==
    ASSUME IsStack(stack), NEW f, IsFrame(f), f.kind = Top.kind
    PROVE  LET s == [stack EXCEPT ![Len(stack)] = f]
           IN  /\ IsStack(s) /\ Len(s) = Len(stack) /\ s[Len(stack)] = f
               /\ \A k \in 1 .. Len(stack) : k # Len(stack) => s[k] = stack[k]
<1> DEFINE s == [stack EXCEPT ![Len(stack)] = f]
<1>1. /\ IsSeq(s) /\ Len(s) = Len(stack) /\ s[Len(stack)] = f
      /\ \A k \in 1 .. Len(stack) : k # Len(stack) => s[k] = stack[k]
  BY Replaced DEF IsStack
<1> HIDE DEF s
<1>2. Len(s) # 0 /\ \A k \in 1 .. Len(s) : IsFrame(s[k])
  BY <1>1 DEF IsStack
<1>3. s[1].kind = "file"
  BY <1>1 DEF IsStack, IsSeq, Top
<1> QED BY <1>1, <1>2, <1>3 DEF IsStack, s

\* A character read changes neither the kinds nor the phases.
LEMMA FedStack ==
    ASSUME IsStack(stack)
    PROVE  /\ IsStack(Fed) /\ Len(Fed) = Len(stack) /\ Tails(Fed) = Tails(stack)
           /\ \A k \in 1 .. Len(stack) : k # Len(stack) => Fed[k] = stack[k]
           /\ \A k \in 1 .. Len(stack) : Fed[k].kind = stack[k].kind
           /\ Fed[Len(stack)] = Frame(Top.kind, Tail(Top.rest), Top.ch, Top.phase)
<1> DEFINE f == Frame(Top.kind, Tail(Top.rest), Top.ch, Top.phase)
<1>1. IsFrame(f) /\ f.kind = Top.kind /\ f.phase = Top.phase
  BY DEF IsStack, IsSeq, IsFrame, Frame, Top
<1>2. Fed = [stack EXCEPT ![Len(stack)] = f]
  BY DEF Fed, Top, IsStack, IsSeq
<1> HIDE DEF f
<1>3. /\ IsStack(Fed) /\ Len(Fed) = Len(stack) /\ Fed[Len(stack)] = f
      /\ \A k \in 1 .. Len(stack) : k # Len(stack) => Fed[k] = stack[k]
  BY <1>1, <1>2, ReplacedTop
<1>4. \A k \in 1 .. Len(stack) : Fed[k].kind = stack[k].kind /\ Fed[k].phase = stack[k].phase
  BY <1>1, <1>3 DEF Top
<1>5. Tails(Fed) = Tails(stack)
  BY <1>3, <1>4 DEF Tails
<1> QED BY <1>3, <1>4, <1>5 DEF f

\* A replay begins.
LEMMA PushedStack ==
    ASSUME NEW s, IsStack(s), NEW f, IsFrame(f), f.phase = "replay", NEW t, t = Append(s, f)
    PROVE  /\ IsStack(t) /\ Len(t) = Len(s) + 1 /\ Tails(t) = Tails(s)
           /\ \A k \in 1 .. Len(s) : t[k] = s[k]
           /\ t[Len(s) + 1] = f
<1>1. /\ IsSeq(t) /\ Len(t) = Len(s) + 1
      /\ \A k \in 1 .. Len(s) : t[k] = s[k]
      /\ t[Len(s) + 1] = f
  BY Appended DEF IsStack
<1>2. IsStack(t)
  BY <1>1 DEF IsStack, IsSeq
<1>3. Tails(t) = Tails(s)
  BY <1>1 DEF Tails, IsStack, IsSeq
<1> QED BY <1>1, <1>2, <1>3

LEMMA Fields ==
    ASSUME NEW kind, NEW rest, NEW ch, NEW phase
    PROVE  LET f == Frame(kind, rest, ch, phase)
           IN  f.kind = kind /\ f.rest = rest /\ f.ch = ch /\ f.phase = phase
BY DEF Frame

LEMMA ReplayIsFrame ==
    ASSUME NEW kind, NEW rest, NEW ch, NEW f, f = Replay(kind, rest, ch)
    PROVE  IsFrame(f) /\ f.kind = kind /\ f.rest = rest /\ f.ch = ch /\ f.phase = "replay"
<1>1. f.kind = kind /\ f.rest = rest /\ f.ch = ch /\ f.phase = "replay"
  BY Fields DEF Replay
<1> QED BY <1>1 DEF IsFrame, Replay

\* Calls that return, if none of them was in its tail.
LEMMA ReturnedStack ==
    ASSUME NEW s, IsStack(s), NEW n \in 1 .. Len(s),
           \A k \in Tails(s) : k <= n
    PROVE  LET t == SubSeq(s, 1, n)
           IN  IsStack(t) /\ Len(t) = n /\ Tails(t) = Tails(s)
<1> DEFINE t == SubSeq(s, 1, n)
<1>1. IsSeq(t) /\ Len(t) = n /\ \A k \in 1 .. n : t[k] = s[k]
  BY Initial DEF IsStack
<1> HIDE DEF t
<1>2. IsStack(t)
  BY <1>1 DEF IsStack, IsSeq
<1>3. Tails(t) = Tails(s)
  BY <1>1 DEF Tails, IsStack, IsSeq
<1> QED BY <1>1, <1>2, <1>3 DEF t
-----------------------------------------------------------------------------
Counted == IsStack(stack') /\ Tails(stack') = Tails(stack)

\* An error leaves the calls above the macro without arguments that is
\* replayed innermost, and none of them is in its tail.
LEMMA FailCounts ==
    ASSUME IsStack(stack), NEW code, Fail(code)
    PROVE  Counted
<1> DEFINE objects == {k \in DOMAIN stack : stack[k].kind = "object"}
<1>1. CASE stack' = Fed
  BY <1>1, FedStack DEF Counted
<1>2. ASSUME NEW n \in objects, \A m \in objects : m <= n, stack' = SubSeq(Fed, 1, n)
      PROVE  Counted
  <2>1. n \in 1 .. Len(Fed) /\ DOMAIN stack = 1 .. Len(stack)
    BY FedStack DEF IsStack, IsSeq
  <2>2. \A k \in Tails(Fed) : k \in objects
    BY <2>1, FedStack DEF Tails, IsStack, IsFrame
  <2> QED BY <1>2, <2>1, <2>2, FedStack, ReturnedStack DEF Counted
<1> QED BY <1>1, <1>2 DEF Fail

LEMMA ReadCounts ==
    ASSUME IsStack(stack), Read
    PROVE  Counted
<1>1. CASE stack' = Fed
  BY <1>1, FedStack DEF Counted
<1>2. ASSUME NEW kind, NEW rest, NEW ch, stack' = Append(Fed, Replay(kind, rest, ch))
      PROVE  Counted
  <2> DEFINE f == Replay(kind, rest, ch)
  <2>1. IsFrame(f) /\ f.phase = "replay"
    BY ReplayIsFrame
  <2> HIDE DEF f
  <2>2. IsStack(stack') /\ Tails(stack') = Tails(Fed)
    BY <1>2, <2>1, FedStack, PushedStack DEF f
  <2> QED BY <2>2, FedStack DEF Counted
<1>3. ASSUME NEW ch, EnterDef(ch)
      PROVE  Counted
  <2>1. CASE ch \in {" ", "("}
    BY <1>1, <1>3, <2>1 DEF EnterDef
  <2>2. CASE ch \notin {" ", "("}
    BY <1>3, <2>2, FailCounts DEF EnterDef
  <2> QED BY <2>1, <2>2
<1>4. PICK ch : ReadLetter(ch) \/ ReadDelimiter(ch) \/ ReadMacro(ch)
                   \/ ReadEnterDef(ch) \/ ReadArgument(ch) \/ ReadEndOfCall(ch)
  BY DEF Read
<1>5. CASE ReadLetter(ch) \/ ReadDelimiter(ch) \/ ReadArgument(ch)
  BY <1>1, <1>5 DEF ReadLetter, ReadDelimiter, ReadArgument
<1>6. CASE ReadMacro(ch)
  BY <1>1, <1>2, <1>3, <1>6 DEF ReadMacro, Call
<1>7. CASE ReadEnterDef(ch)
  BY <1>3, <1>7 DEF ReadEnterDef
<1>8. CASE ReadEndOfCall(ch)
  BY <1>1, <1>2, <1>8, FailCounts DEF ReadEndOfCall, Call
<1> QED BY <1>4, <1>5, <1>6, <1>7, <1>8

\* A replay that ends has its tail on top.
LEMMA EndObjectCounts ==
    ASSUME CInv, EndObject
    PROVE  CInv'
<1> DEFINE n == Len(stack)
           f == Frame(Top.kind, <<Top.ch>>, Top.ch, "tail")
           old == Tails(stack)
           new == Tails(stack')
<1>1. IsFrame(f) /\ f.kind = Top.kind /\ f.phase = "tail"
  BY DEF EndObject, IsFrame, Frame
<1>2. stack' = [stack EXCEPT ![n] = f] /\ Top.phase = "replay" /\ recursion' = recursion + 1
  BY DEF EndObject, Top, CInv, IsStack, IsSeq
<1>3. IsStack(stack) /\ n \in 1 .. n /\ recursion = Cardinality(old)
  BY DEF CInv, IsStack, IsSeq
<1> HIDE DEF f
<1>4. /\ IsStack(stack') /\ Len(stack') = n /\ stack'[n] = f
      /\ \A k \in 1 .. n : k # n => stack'[k] = stack[k]
  BY <1>1, <1>2, <1>3, ReplacedTop
<1>5. new = old \union {n} /\ n \notin old
  BY <1>1, <1>2, <1>3, <1>4 DEF Tails, Top
<1> HIDE DEF old, new
<1>6. Cardinality(new) = Cardinality(old) + 1
  BY <1>3, <1>5, FiniteTails, FS_AddElement DEF old
<1> QED BY <1>2, <1>3, <1>4, <1>6 DEF CInv, new

LEMMA ReturnCounts ==
    ASSUME CInv, ReturnObject
    PROVE  CInv'
<1> DEFINE n == Len(stack)
           old == Tails(stack)
           new == Tails(stack')
<1>1. /\ stack' = SubSeq(stack, 1, n - 1) /\ recursion' = recursion - 1
      /\ stack[n].phase = "tail" /\ stack[n].kind = "object"
  BY DEF ReturnObject, Front, Top
<1>2. IsStack(stack) /\ n \in 1 .. n /\ recursion = Cardinality(old)
  BY DEF CInv, IsStack, IsSeq
<1>3. n - 1 \in 1 .. n
  BY <1>1, <1>2 DEF IsStack
<1>4. IsSeq(stack') /\ Len(stack') = n - 1 /\ \A k \in 1 .. n - 1 : stack'[k] = stack[k]
  BY <1>1, <1>2, <1>3, Initial DEF IsStack
<1>5. IsStack(stack')
  BY <1>2, <1>3, <1>4 DEF IsStack, IsSeq
<1>6. old = new \union {n} /\ n \notin new
  BY <1>1, <1>2, <1>3, <1>4 DEF Tails
<1> HIDE DEF old, new
<1>7. IsFiniteSet(new) /\ Cardinality(new) \in Nat
  BY <1>5, FiniteTails DEF new
<1>8. Cardinality(old) = Cardinality(new) + 1
  BY <1>6, <1>7, FS_AddElement
<1> QED BY <1>1, <1>2, <1>5, <1>7, <1>8 DEF CInv, new

\* The static counter of global_state_machine is the number of tails in
\* progress, for all tables, texts and limits and whatever errors and nested
\* calls happened.
THEOREM CounterMatchesStack == Spec => []RecursionCountsTails
<1>1. Init => CInv
  <2> SUFFICES ASSUME Init PROVE CInv
    OBVIOUS
  <2> DEFINE s == <<Replay("file", text, "none")>>
  <2>1. Len(s) = 1 /\ s[1] = Replay("file", text, "none") /\ IsSeq(s)
    BY DEF IsSeq
  <2>2. IsFrame(s[1]) /\ s[1].kind = "file" /\ s[1].phase = "replay"
    BY <2>1 DEF IsFrame, Replay, Frame
  <2> HIDE DEF s
  <2>3. IsStack(s) /\ Tails(s) = {}
    BY <2>1, <2>2 DEF IsStack, Tails
  <2>4. stack = s /\ recursion = 0
    BY DEF Init, s
  <2> QED BY <2>3, <2>4, FS_EmptySet DEF CInv
<1>2. CInv /\ [Next]_vars => CInv'
  <2> SUFFICES ASSUME CInv, [Next]_vars PROVE CInv'
    OBVIOUS
  <2>1. CASE Read
    BY <2>1, ReadCounts DEF Counted, CInv, Read
  <2>2. CASE EndObject
    BY <2>2, EndObjectCounts
  <2>3. CASE ReturnObject
    BY <2>3, ReturnCounts
  <2>4. CASE ReturnFunction
    <3> DEFINE n == Len(stack)
    <3>1. IsStack(stack) /\ n \in 1 .. n /\ stack[n].kind = "function"
      BY <2>4 DEF ReturnFunction, CInv, IsStack, IsSeq, Top
    <3>2. n - 1 \in 1 .. n /\ stack' = SubSeq(stack, 1, n - 1) /\ recursion' = recursion
      BY <2>4, <3>1 DEF ReturnFunction, Front, IsStack
    <3>3. \A k \in Tails(stack) : k <= n - 1
      BY <3>1 DEF Tails, IsStack, IsFrame
    <3> QED BY <3>1, <3>2, <3>3, ReturnedStack DEF CInv
  <2>5. CASE EndOfText
    BY <2>5 DEF EndOfText, CInv
  <2>6. CASE UNCHANGED vars
    BY <2>6 DEF vars, CInv
  <2> QED BY <2>1, <2>2, <2>3, <2>4, <2>5, <2>6 DEF Next
<1>3. CInv => RecursionCountsTails
  <2> SUFFICES ASSUME CInv PROVE RecursionCountsTails
    OBVIOUS
  <2>1. DOMAIN stack = 1 .. Len(stack)
    BY DEF CInv, IsStack, IsSeq
  <2> QED BY <2>1 DEF CInv, Tails, RecursionCountsTails
<1> QED BY <1>1, <1>2, <1>3, PTL DEF Spec
-----------------------------------------------------------------------------
(* The depth of the calls.  A macro is called from within a replacement,   *)
(* or from its tail when the replacement ended in the macro's name; only   *)
(* the second kind is counted.  If the macros without arguments are ranked *)
(* so that those called from within have a smaller rank, then at most R+1  *)
(* calls lie between two that are counted.                                 *)

\* The word w occurs in text s, and the text goes on behind it.
Inner(w, s) ==
    \E j \in 0 .. Len(s) - Len(w) - 1 :
        /\ w # <<>>
        /\ \A k \in 1 .. Len(w) : s[j + k] = w[k] /\ w[k] \in Letter
        /\ j # 0 => s[j] \notin Letter
        /\ s[j + Len(w) + 1] \notin Letter

\* The ranks 0 .. R that decrease from a macro to those within its replacement.
Ranks(R) ==
    {rank \in [DOMAIN table -> 0 .. R] :
        \A w, v \in DOMAIN table : Inner(v, table[w].payload) => rank[v] < rank[w]}

NoCalls == \A w \in DOMAIN table : ~table[w].call

Below(rank, s, n) == \A w \in DOMAIN rank : Inner(w, s) => rank[w] < n

\* What call f, the word w being read, has still to scan.
Scans(rank, f, w, n) ==
    /\ f.phase = "replay" => f.rest \in Seq(STRING) /\ Below(rank, w \o f.rest, n)
    /\ f.phase = "tail" => f.rest = <<f.ch>> \/ (f.rest = <<>> /\ w = <<>>)

InTail(f) == IF f.phase = "tail" THEN 1 ELSE 0

\* The place n of a call is bounded by the tails c below it and the rank left.
Fits(R, n, b, c) == n + b <= (R + 1) * (c + 1) + 1

\* R+1 calls for each tail, and the text, fit on the C stack.
Room(R) == (R + 1) * RecursionLimit + 1 <= MaxDepth

Numbers(b) == b \in [Nat -> Nat]

\* b[k] bounds the ranks of what call k meets, c[k] is the tails below it.
Links(rank, s, b, c) ==
    \A k \in 1 .. Len(s) - 1 :
        /\ Scans(rank, s[k], <<>>, b[k])
        /\ s[k].phase = "tail" => s[k].rest = <<>>
        /\ s[k].phase = "replay" => b[k + 1] < b[k]
        /\ c[k + 1] = c[k] + InTail(s[k])

Bounded(R, rank, s, n, r, tails) ==
    \E b, c :
        /\ Numbers(b) /\ Numbers(c) /\ Links(rank, s, b, c)
        /\ \A k \in 1 .. n : Fits(R, k, b[k], c[k])
        /\ b[n] = r /\ c[n] = tails

Objects(s) ==
    \A k \in 1 .. Len(s) : k # 1 => s[k].kind = "object" /\ s[k].ch \in STRING \ Letter

Reading ==
    /\ mode \in {"lexem", "inside_lexem"}
    /\ mode = "lexem" => word = <<>>
    /\ word \in Seq(STRING)
    /\ \A k \in 1 .. Len(word) : word[k] \in Letter

DInv(R, rank, b, c) ==
    /\ IsStack(stack) /\ Objects(stack)
    /\ table \in Tables /\ Reading
    /\ Links(rank, stack, b, c)
    /\ Scans(rank, Top, word, b[Len(stack)])
    /\ \A k \in 1 .. Len(stack) : Fits(R, k, b[k], c[k])
    /\ recursion = c[Len(stack)] + InTail(Top)
    /\ recursion <= RecursionLimit
    /\ recursion = RecursionLimit => Top.phase = "tail" /\ word = <<>>
-----------------------------------------------------------------------------
(* Words in a text.                                                        *)

LEMMA ReadOn ==
    ASSUME NEW w \in Seq(STRING), NEW rest \in Seq(STRING), rest # <<>>
    PROVE  Append(w, Head(rest)) \o Tail(rest) = w \o rest
<1> DEFINE ch == Head(rest)
           u == Append(w, ch)
           t == Tail(rest)
<1>1. ch \in STRING /\ ch = rest[1] /\ Len(rest) \in Nat \ {0}
  OBVIOUS
<1>2. t \in Seq(STRING) /\ Len(t) = Len(rest) - 1 /\ \A j \in 1 .. Len(t) : t[j] = rest[j + 1]
  BY HeadTailProperties
<1>3. /\ u \in Seq(STRING) /\ Len(u) = Len(w) + 1 /\ Len(w) \in Nat
      /\ u[Len(w) + 1] = ch /\ \A j \in 1 .. Len(w) : u[j] = w[j]
  BY <1>1
<1> HIDE DEF u, t, ch
<1>4. /\ u \o t \in Seq(STRING) /\ Len(u \o t) = Len(u) + Len(t)
      /\ \A j \in 1 .. Len(u) + Len(t) : (u \o t)[j] = IF j <= Len(u) THEN u[j] ELSE t[j - Len(u)]
  BY <1>2, <1>3, ConcatProperties
<1>5. /\ w \o rest \in Seq(STRING) /\ Len(w \o rest) = Len(w) + Len(rest)
      /\ \A j \in 1 .. Len(w) + Len(rest) : (w \o rest)[j] = IF j <= Len(w) THEN w[j] ELSE rest[j - Len(w)]
  BY ConcatProperties
<1>6. Len(u \o t) = Len(w \o rest)
  BY <1>1, <1>2, <1>3, <1>4, <1>5
<1>7. ASSUME NEW j \in 1 .. Len(u \o t) PROVE (u \o t)[j] = (w \o rest)[j]
  <2>1. CASE j <= Len(w)
    BY <1>1, <1>2, <1>3, <1>4, <1>5, <2>1
  <2>2. CASE j = Len(w) + 1
    BY <1>1, <1>2, <1>3, <1>4, <1>5, <2>2
  <2>3. CASE j > Len(w) + 1
    <3>1. j - Len(u) \in 1 .. Len(t) /\ j - Len(w) = (j - Len(u)) + 1
      BY <1>1, <1>2, <1>3, <1>4, <2>3
    <3>2. (u \o t)[j] = t[j - Len(u)] /\ (w \o rest)[j] = rest[j - Len(w)]
      BY <1>1, <1>2, <1>3, <1>4, <1>5, <2>3
    <3> QED BY <1>2, <3>1, <3>2
  <2> QED BY <1>3, <1>4, <1>2, <2>1, <2>2, <2>3
<1>8. u \o t = w \o rest
  BY <1>4, <1>5, <1>6, <1>7, SeqEqual
<1> QED BY <1>8 DEF u, t, ch

\* What stands behind a delimiter has no words the whole has not.
LEMMA Behind ==
    ASSUME NEW w \in Seq(STRING), NEW rest \in Seq(STRING), rest # <<>>, Head(rest) \notin Letter,
           NEW v \in Seq(STRING), Inner(v, <<>> \o Tail(rest))
    PROVE  Inner(v, w \o rest)
<1> DEFINE t == Tail(rest)
           s == w \o rest
           n == Len(w) + 1
<1>1. t \in Seq(STRING) /\ Len(t) = Len(rest) - 1 /\ \A j \in 1 .. Len(t) : t[j] = rest[j + 1]
  BY HeadTailProperties
<1>2. <<>> \o t = t
  BY <1>1, ConcatEmptySeq
<1>3. /\ Len(s) = Len(w) + Len(rest)
      /\ \A j \in 1 .. Len(w) + Len(rest) : s[j] = IF j <= Len(w) THEN w[j] ELSE rest[j - Len(w)]
  BY ConcatProperties
<1>4. Len(w) \in Nat /\ Len(rest) \in Nat \ {0} /\ Len(v) \in Nat /\ rest[1] \notin Letter
  OBVIOUS
<1>5. PICK j \in 0 .. Len(t) - Len(v) - 1 :
        /\ v # <<>>
        /\ \A k \in 1 .. Len(v) : t[j + k] = v[k] /\ v[k] \in Letter
        /\ j # 0 => t[j] \notin Letter
        /\ t[j + Len(v) + 1] \notin Letter
  BY <1>2 DEF Inner
<1> HIDE DEF t, s
<1>6. Len(t) \in Nat /\ Len(s) = n + Len(t) /\ n \in Nat
  BY <1>1, <1>3, <1>4
<1>7. ASSUME NEW k \in 1 .. Len(t) PROVE s[n + k] = t[k]
  <2>1. n + k \in 1 .. Len(w) + Len(rest) /\ ~(n + k <= Len(w)) /\ n + k - Len(w) = k + 1
    BY <1>1, <1>4, <1>6
  <2>2. s[n + k] = rest[k + 1]
    BY <1>3, <2>1
  <2> QED BY <1>1, <2>2
<1>8. s[n] = rest[1]
  <2>1. n \in 1 .. Len(w) + Len(rest) /\ ~(n <= Len(w)) /\ n - Len(w) = 1
    BY <1>4
  <2> QED BY <1>3, <2>1
<1>9. n + j \in 0 .. Len(s) - Len(v) - 1 /\ n + j # 0
  BY <1>4, <1>6
<1>10. ASSUME NEW k \in 1 .. Len(v) PROVE s[(n + j) + k] = v[k] /\ v[k] \in Letter
  <2>1. j + k \in 1 .. Len(t) /\ (n + j) + k = n + (j + k)
    BY <1>4, <1>6
  <2> QED BY <1>5, <1>7, <2>1
<1>11. s[n + j] \notin Letter
  <2>1. CASE j = 0
    <3>1. n + j = n
      BY <1>6, <2>1
    <3> QED BY <1>4, <1>8, <3>1
  <2>2. CASE j # 0
    <3>1. j \in 1 .. Len(t)
      BY <1>4, <1>6, <2>2
    <3>2. s[n + j] = t[j]
      BY <1>7, <3>1
    <3> QED BY <1>5, <2>2, <3>2
  <2> QED BY <2>1, <2>2
<1>12. s[(n + j) + Len(v) + 1] \notin Letter
  <2>1. j + Len(v) + 1 \in 1 .. Len(t) /\ (n + j) + Len(v) + 1 = n + (j + Len(v) + 1)
    BY <1>4, <1>6
  <2> QED BY <1>5, <1>7, <2>1
<1>13. Inner(v, s)
  BY <1>5, <1>9, <1>10, <1>11, <1>12 DEF Inner
<1> QED BY <1>13 DEF s

\* A word ends before a delimiter.
LEMMA Ended ==
    ASSUME NEW w \in Seq(STRING), w # <<>>, \A k \in 1 .. Len(w) : w[k] \in Letter,
           NEW rest \in Seq(STRING), rest # <<>>, Head(rest) \notin Letter
    PROVE  Inner(w, w \o rest)
<1> DEFINE s == w \o rest
<1>1. /\ Len(s) = Len(w) + Len(rest)
      /\ \A j \in 1 .. Len(w) + Len(rest) : s[j] = IF j <= Len(w) THEN w[j] ELSE rest[j - Len(w)]
  BY ConcatProperties
<1>2. Len(w) \in Nat /\ Len(rest) \in Nat \ {0} /\ rest[1] \notin Letter
  OBVIOUS
<1> HIDE DEF s
<1>3. 0 \in 0 .. Len(s) - Len(w) - 1
  BY <1>1, <1>2
<1>4. \A k \in 1 .. Len(w) : s[0 + k] = w[k]
  BY <1>1, <1>2
<1>5. s[0 + Len(w) + 1] \notin Letter
  <2>1. 0 + Len(w) + 1 \in 1 .. Len(w) + Len(rest) /\ ~(0 + Len(w) + 1 <= Len(w)) /\ 0 + Len(w) + 1 - Len(w) = 1
    BY <1>2
  <2> QED BY <1>1, <1>2, <2>1
<1>6. Inner(w, s)
  BY <1>3, <1>4, <1>5 DEF Inner
<1> QED BY <1>6 DEF s

LEMMA OneAppended ==
    ASSUME NEW S, NEW w \in Seq(S), NEW ch \in S
    PROVE  /\ Append(w, ch) \in Seq(S) /\ Len(Append(w, ch)) = Len(w) + 1
           /\ \A k \in 1 .. Len(w) : Append(w, ch)[k] = w[k]
           /\ Append(w, ch)[Len(w) + 1] = ch
           /\ w = <<>> => Append(w, ch) = <<ch>>
           /\ Head(<<ch>>) = ch /\ Tail(<<ch>>) = <<>>
<1>1. Append(w, ch) \in Seq(S) /\ Len(Append(w, ch)) = Len(w) + 1
  OBVIOUS
<1>2. \A k \in 1 .. Len(w) : Append(w, ch)[k] = w[k]
  OBVIOUS
<1>3. Append(w, ch)[Len(w) + 1] = ch
  OBVIOUS
<1>4. w = <<>> => Append(w, ch) = <<ch>>
  OBVIOUS
<1>5. Head(<<ch>>) = ch /\ Tail(<<ch>>) = <<>>
  OBVIOUS
<1> QED BY <1>1, <1>2, <1>3, <1>4, <1>5
-----------------------------------------------------------------------------
(* Each step keeps the bounds.                                             *)

\* What a character read leaves of the innermost call.
LEMMA FedTop ==
    ASSUME IsStack(stack)
    PROVE  /\ Fed[Len(stack)].kind = Top.kind /\ Fed[Len(stack)].rest = Tail(Top.rest)
           /\ Fed[Len(stack)].ch = Top.ch /\ Fed[Len(stack)].phase = Top.phase
<1> DEFINE f == Fed[Len(stack)]
<1>1. f = Frame(Top.kind, Tail(Top.rest), Top.ch, Top.phase)
  BY FedStack
<1> HIDE DEF f
<1> QED BY <1>1, Fields DEF f

LEMMA FedDeep ==
    ASSUME NEW R \in Nat, NEW rank, NEW b, NEW c, DInv(R, rank, b, c)
    PROVE  /\ Objects(Fed) /\ Links(rank, Fed, b, c)
           /\ InTail(Fed[Len(stack)]) = InTail(Top)
<1> DEFINE n == Len(stack)
<1>1. IsStack(stack) /\ n \in 1 .. n /\ n \in Nat
  BY DEF DInv, IsStack, IsSeq
<1>2. IsStack(Fed) /\ Len(Fed) = n /\ \A k \in 1 .. n : k # n => Fed[k] = stack[k]
  BY <1>1, FedStack
<1>3. Objects(Fed)
  BY <1>1, <1>2, FedTop DEF DInv, Objects, Top
<1>4. Links(rank, Fed, b, c)
  <2>1. ASSUME NEW k \in 1 .. n - 1 PROVE Fed[k] = stack[k]
    BY <1>1, <1>2
  <2> QED BY <1>1, <1>2, <2>1 DEF DInv, Links
<1>5. Fed[n].phase = Top.phase /\ InTail(Fed[n]) = InTail(Top)
  BY <1>1, FedTop DEF InTail
<1> QED BY <1>3, <1>4, <1>5

\* A character read by a call that goes on.
LEMMA StaysDeep ==
    ASSUME NEW R \in Nat, NEW rank, NEW b, NEW c, Numbers(b), Numbers(c),
           DInv(R, rank, b, c), stack' = Fed, table' = table, recursion' = recursion, Reading',
           Scans(rank, Fed[Len(stack)], word', b[Len(stack)]),
           recursion = RecursionLimit => word' = <<>>
    PROVE  DInv(R, rank, b, c)'
<1>1. IsStack(Fed) /\ Len(Fed) = Len(stack)
  BY FedStack DEF DInv
<1>2. Top' = Fed[Len(stack)] /\ Len(stack') = Len(stack)
  BY <1>1 DEF Top
<1>3. Fed[Len(stack)].phase = Top.phase
  BY FedTop DEF DInv
<1> QED BY <1>1, <1>2, <1>3, FedDeep DEF DInv

LEMMA LetterDeep ==
    ASSUME NEW R \in Nat, NEW rank, NEW b, NEW c, Numbers(b), Numbers(c),
           DInv(R, rank, b, c), Top.rest # <<>>, ReadLetter(Head(Top.rest)),
           table' = table, recursion' = recursion
    PROVE  DInv(R, rank, b, c)'
<1> DEFINE n == Len(stack)
           ch == Head(Top.rest)
<1>1. IsStack(stack) /\ n \in 1 .. n
  BY DEF DInv, IsStack, IsSeq
<1>2. /\ ch \in Letter /\ stack' = Fed /\ mode' = "inside_lexem" /\ mode \in {"lexem", "inside_lexem"}
      /\ word' = IF mode = "lexem" THEN <<ch>> ELSE Append(word, ch)
  BY DEF ReadLetter
<1>3. Top.phase = "replay"
  <2> SUFFICES ASSUME Top.phase = "tail" PROVE FALSE
    BY <1>1 DEF IsStack, IsFrame, Top
  <2>1. Top.kind = "object" /\ n # 1
    BY <1>1 DEF IsStack, IsFrame, Top
  <2>2. Top.ch \in STRING \ Letter
    BY <1>1, <2>1 DEF DInv, Objects, Top
  <2>3. Top.rest = <<Top.ch>>
    BY DEF DInv, Scans
  <2>4. Head(<<Top.ch>>) = Top.ch
    BY <2>2, OneAppended, EmptySeq
  <2> QED BY <1>2, <2>2, <2>3, <2>4
<1>4. Top.rest \in Seq(STRING) /\ Below(rank, word \o Top.rest, b[n])
  BY <1>3 DEF DInv, Scans
<1>5. /\ word \in Seq(STRING) /\ ch \in STRING /\ word' = Append(word, ch)
      /\ \A k \in 1 .. Len(word) : word[k] \in Letter
  <2>1. word \in Seq(STRING) /\ ch \in STRING
    BY <1>4, HeadTailProperties DEF DInv, Reading
  <2>2. mode = "lexem" => word = <<>>
    BY DEF DInv, Reading
  <2>3. word = <<>> => Append(word, ch) = <<ch>>
    BY <2>1, OneAppended
  <2>4. \A k \in 1 .. Len(word) : word[k] \in Letter
    BY DEF DInv, Reading
  <2> HIDE DEF ch
  <2> QED BY <1>2, <2>1, <2>2, <2>3, <2>4
<1>6. Reading'
  <2>1. Append(word, ch) \in Seq(STRING) /\ \A k \in 1 .. Len(Append(word, ch)) : Append(word, ch)[k] \in Letter
    <3> HIDE DEF ch
    <3> DEFINE u == Append(word, ch)
    <3>1. /\ u \in Seq(STRING) /\ Len(u) = Len(word) + 1 /\ u[Len(word) + 1] = ch
          /\ \A k \in 1 .. Len(word) : u[k] = word[k]
      BY <1>5, OneAppended
    <3>2. Len(word) \in Nat /\ ch \in Letter
      BY <1>2, <1>5
    <3> HIDE DEF u
    <3>3. ASSUME NEW k \in 1 .. Len(u) PROVE u[k] \in Letter
      <4>1. CASE k = Len(word) + 1
        BY <3>1, <3>2, <4>1
      <4>2. CASE k \in 1 .. Len(word)
        BY <1>5, <3>1, <4>2
      <4> QED BY <3>1, <3>2, <4>1, <4>2
    <3> QED BY <3>1, <3>3 DEF u
  <2> QED BY <1>2, <1>5, <2>1 DEF Reading
<1>7. Append(word, ch) \o Tail(Top.rest) = word \o Top.rest /\ Tail(Top.rest) \in Seq(STRING)
  BY <1>4, <1>5, ReadOn, HeadTailProperties
<1>8. Fed[n].phase = "replay" /\ Fed[n].rest = Tail(Top.rest)
  BY <1>1, <1>3, FedTop
<1>9. Scans(rank, Fed[n], word', b[n])
  BY <1>4, <1>5, <1>7, <1>8 DEF Scans
<1>10. recursion # RecursionLimit
  BY <1>3 DEF DInv
<1> QED BY <1>2, <1>6, <1>9, <1>10, StaysDeep

\* The word is done with: the calls that go on have less to scan.
LEMMA DoneScans ==
    ASSUME NEW R \in Nat, NEW rank \in Ranks(R), NEW b, NEW c,
           DInv(R, rank, b, c), Top.rest # <<>>, Head(Top.rest) \notin Letter
    PROVE  /\ Scans(rank, Fed[Len(stack)], <<>>, b[Len(stack)])
           /\ Fed[Len(stack)].phase = "tail" => Fed[Len(stack)].rest = <<>>
<1> DEFINE n == Len(stack)
           f == Fed[n]
<1>1. IsStack(stack)
  BY DEF DInv
<1>2. f.phase = Top.phase /\ f.rest = Tail(Top.rest) /\ f.ch = Top.ch
  BY <1>1, FedTop
<1>3. word \in Seq(STRING) /\ Scans(rank, Top, word, b[n])
  BY DEF DInv, Reading
<1> HIDE DEF f
<1>4. CASE Top.phase = "tail"
  <2>1. Top.rest = <<Top.ch>>
    BY <1>3, <1>4 DEF Scans
  <2>2. f.rest = <<>>
    BY <1>2, <2>1
  <2> QED BY <1>2, <1>4, <2>2 DEF Scans, f
<1>5. CASE Top.phase # "tail"
  <2>1. Top.phase = "replay"
    BY <1>1, <1>5 DEF IsStack, IsSeq, IsFrame, Top
  <2>2. Top.rest \in Seq(STRING) /\ Below(rank, word \o Top.rest, b[n])
    BY <1>3, <2>1 DEF Scans
  <2>3. DOMAIN rank = DOMAIN table /\ table \in Tables
    BY DEF Ranks, DInv
  <2>4. \A v \in DOMAIN rank : v \in Seq(STRING)
    BY <2>3, TextAssumption
  <2>5. Below(rank, <<>> \o Tail(Top.rest), b[n])
    BY <1>3, <2>2, <2>4, Behind DEF Below
  <2>6. Tail(Top.rest) \in Seq(STRING)
    BY <2>2, HeadTailProperties
  <2> QED BY <1>2, <2>1, <2>5, <2>6 DEF Scans, f
<1> QED BY <1>4, <1>5

LEMMA DelimiterDeep ==
    ASSUME NEW R \in Nat, NEW rank \in Ranks(R), NEW b, NEW c, Numbers(b), Numbers(c),
           DInv(R, rank, b, c), Top.rest # <<>>, ReadDelimiter(Head(Top.rest)),
           table' = table, recursion' = recursion
    PROVE  DInv(R, rank, b, c)'
<1>1. Head(Top.rest) \notin Letter /\ stack' = Fed /\ word' = <<>> /\ mode' = "lexem"
  BY DEF ReadDelimiter
<1>2. Scans(rank, Fed[Len(stack)], word', b[Len(stack)])
  BY <1>1, DoneScans
<1>3. Reading'
  BY <1>1 DEF Reading
<1> QED BY <1>1, <1>2, <1>3, StaysDeep

\* How the place of a call is bounded: in a replacement the rank decreases,
\* from a tail the tails below increase.
LEMMA Bounds ==
    ASSUME NEW R \in Nat, NEW n \in Nat, NEW b \in Nat, NEW c \in Nat, NEW r \in 0 .. R, Fits(R, n, b, c)
    PROVE  /\ r < b => Fits(R, n + 1, r, c)
           /\ Fits(R, n + 1, r, c + 1)
<1>1. (R + 1) * ((c + 1) + 1) = (R + 1) * (c + 1) + (R + 1)
  OBVIOUS
<1> DEFINE x == (R + 1) * (c + 1)
           y == (R + 1) * ((c + 1) + 1)
<1>2. x \in Nat /\ y = x + (R + 1) /\ n + b <= x + 1
  BY <1>1 DEF Fits
<1> HIDE DEF x, y
<1>3. r < b => (n + 1) + r <= x + 1
  BY <1>2
<1>4. (n + 1) + r <= y + 1
  BY <1>2
<1> QED BY <1>3, <1>4 DEF Fits, x, y

LEMMA Limited ==
    ASSUME NEW R \in Nat, NEW n \in Nat, NEW r \in Nat, NEW c \in Nat, Fits(R, n, r, c),
           c < RecursionLimit, Room(R)
    PROVE  n <= MaxDepth
<1>1. RecursionLimit \in Nat /\ MaxDepth \in Nat /\ c + 1 <= RecursionLimit
  BY LimitAssumption
<1>2. PICK d \in Nat : RecursionLimit = (c + 1) + d
  <2>1. RecursionLimit - (c + 1) \in Nat /\ RecursionLimit = (c + 1) + (RecursionLimit - (c + 1))
    BY <1>1
  <2> QED BY <2>1
<1>3. (R + 1) * ((c + 1) + d) = (R + 1) * (c + 1) + (R + 1) * d /\ (R + 1) * d \in Nat /\ (R + 1) * (c + 1) \in Nat
  OBVIOUS
<1> QED BY <1>1, <1>2, <1>3 DEF Fits, Room

LEMMA Updated ==
    ASSUME NEW b, Numbers(b), NEW n \in Nat, NEW r \in Nat
    PROVE  LET bb == [b EXCEPT ![n] = r]
           IN  Numbers(bb) /\ bb[n] = r /\ \A k \in Nat : k # n => bb[k] = b[k]
BY DEF Numbers

LEMMA UpTo ==
    ASSUME NEW n \in Nat, NEW k \in 1 .. n + 1
    PROVE  k = n + 1 \/ (k \in 1 .. n /\ k \in Nat /\ k # n + 1)
OBVIOUS

\* What a call above the others needs.
Ready(R, rank, s, b, c, n, f, r, tails) ==
    /\ R \in Nat /\ Numbers(b) /\ Numbers(c)
    /\ IsStack(s) /\ Objects(s) /\ Links(rank, s, b, c) /\ n \in Nat /\ n = Len(s)
    /\ \A k \in 1 .. n : Fits(R, k, b[k], c[k])
    /\ Scans(rank, s[n], <<>>, b[n])
    /\ s[n].phase = "tail" => s[n].rest = <<>>
    /\ IsFrame(f) /\ f.phase = "replay" /\ f.kind = "object" /\ f.ch \in STRING \ Letter
    /\ r \in Nat
    /\ s[n].phase = "replay" => r < b[n]
    /\ tails \in Nat /\ tails = c[n] + InTail(s[n]) /\ Fits(R, n + 1, r, tails)

LEMMA PushedDeep ==
    ASSUME NEW R, NEW rank, NEW s, NEW b, NEW c, NEW n, NEW f, NEW r, NEW tails,
           Ready(R, rank, s, b, c, n, f, r, tails), NEW t, t = Append(s, f)
    PROVE  /\ IsStack(t) /\ Objects(t) /\ Len(t) = n + 1 /\ t[n + 1] = f
           /\ Bounded(R, rank, t, n + 1, r, tails)
<1> USE DEF Ready
<1> DEFINE bb == [b EXCEPT ![n + 1] = r]
           cc == [c EXCEPT ![n + 1] = tails]
<1>1. IsStack(t) /\ Len(t) = n + 1 /\ t[n + 1] = f /\ \A k \in 1 .. n : t[k] = s[k]
  <2>1. IsStack(t) /\ Len(t) = Len(s) + 1
    BY PushedStack
  <2>2. t[Len(s) + 1] = f
    BY PushedStack
  <2>3. \A k \in 1 .. Len(s) : t[k] = s[k]
    BY PushedStack
  <2> QED BY <2>1, <2>2, <2>3
<1>2. /\ Numbers(bb) /\ Numbers(cc)
      /\ bb[n + 1] = r /\ cc[n + 1] = tails
      /\ \A k \in Nat : k # n + 1 => bb[k] = b[k] /\ cc[k] = c[k]
  <2>1. n + 1 \in Nat
    OBVIOUS
  <2>2. Numbers(bb) /\ bb[n + 1] = r /\ \A k \in Nat : k # n + 1 => bb[k] = b[k]
    BY <2>1, Updated
  <2>3. Numbers(cc) /\ cc[n + 1] = tails /\ \A k \in Nat : k # n + 1 => cc[k] = c[k]
    BY <2>1, Updated
  <2> HIDE DEF bb, cc
  <2> QED BY <2>2, <2>3
<1> HIDE DEF bb, cc
<1>3. Objects(t)
  <2>1. ASSUME NEW k \in 1 .. n + 1, k # 1
        PROVE  t[k].kind = "object" /\ t[k].ch \in STRING \ Letter
    <3>1. CASE k = n + 1
      BY <1>1, <3>1
    <3>2. CASE k \in 1 .. n
      BY <1>1, <2>1, <3>2 DEF Objects
    <3> QED BY <3>1, <3>2, UpTo
  <2> QED BY <1>1, <2>1 DEF Objects
<1>4. ASSUME NEW k \in 1 .. n
      PROVE  /\ Scans(rank, t[k], <<>>, bb[k])
             /\ t[k].phase = "tail" => t[k].rest = <<>>
             /\ t[k].phase = "replay" => bb[k + 1] < bb[k]
             /\ cc[k + 1] = cc[k] + InTail(t[k])
  <2>1. t[k] = s[k] /\ bb[k] = b[k] /\ cc[k] = c[k]
    <3>1. k \in Nat /\ k # n + 1
      OBVIOUS
    <3> QED BY <1>1, <1>2, <3>1
  <2>2. CASE k = n
    BY <1>2, <2>1, <2>2
  <2>3. CASE k # n
    <3>1. k \in 1 .. n - 1 /\ k + 1 \in 1 .. n
      BY <2>3
    <3>2. bb[k + 1] = b[k + 1] /\ cc[k + 1] = c[k + 1]
      <4>1. k + 1 \in Nat /\ k + 1 # n + 1
        BY <3>1
      <4> QED BY <1>2, <4>1
    <3> QED BY <2>1, <3>1, <3>2 DEF Links
  <2> QED BY <2>2, <2>3
<1>5. Links(rank, t, bb, cc)
  <2>1. Len(t) - 1 = n
    BY <1>1
  <2> QED BY <1>4, <2>1 DEF Links
<1>6. ASSUME NEW k \in 1 .. n + 1 PROVE Fits(R, k, bb[k], cc[k])
  <2>1. CASE k = n + 1
    BY <1>2, <2>1
  <2>2. CASE k \in 1 .. n /\ k \in Nat /\ k # n + 1
    BY <1>2, <2>2
  <2> QED BY <2>1, <2>2, UpTo
<1> QED BY <1>1, <1>2, <1>3, <1>5, <1>6 DEF Bounded

\* A macro is replayed: there is room, and the bounds hold for the new call.
LEMMA MacroDeep ==
    ASSUME NEW R \in Nat, Room(R), NoCalls,
           NEW rank \in Ranks(R), NEW b, NEW c, Numbers(b), Numbers(c),
           DInv(R, rank, b, c), Top.rest # <<>>, ReadMacro(Head(Top.rest)),
           table' = table, recursion' = recursion
    PROVE  /\ status' = status
           /\ \E bb, cc : Numbers(bb) /\ Numbers(cc) /\ DInv(R, rank, bb, cc)'
<1> DEFINE n == Len(stack)
           ch == Head(Top.rest)
           replay == table[word].payload
           r == rank[word]
           f == Replay("object", replay, ch)
           tails == c[n] + InTail(Top)
<1>1. /\ IsStack(stack) /\ n \in 1 .. n /\ n \in Nat /\ n # 0
      /\ word \in Seq(STRING) /\ \A k \in 1 .. Len(word) : word[k] \in Letter
  BY DEF DInv, IsStack, IsSeq, Reading
<1>2. ch \notin Letter /\ word # <<>> /\ word \in DOMAIN table
  BY DEF ReadMacro, IsMacro
<1>3. Call(f)
  BY <1>2 DEF ReadMacro, NoCalls
<1>4. /\ rank \in [DOMAIN table -> 0 .. R] /\ replay \in Seq(STRING) /\ r \in 0 .. R
      /\ Below(rank, <<>> \o replay, r)
  <2>1. rank \in [DOMAIN table -> 0 .. R] /\ replay \in Seq(STRING) /\ r \in 0 .. R
    BY <1>2, TextAssumption DEF Ranks, DInv
  <2>2. <<>> \o replay = replay
    BY <2>1, ConcatEmptySeq
  <2> QED BY <1>2, <2>1, <2>2 DEF Ranks, Below
<1>5. ch \in STRING
  <2>1. CASE Top.phase = "replay"
    BY <2>1, HeadTailProperties DEF DInv, Scans
  <2>2. CASE Top.phase = "tail"
    <3>1. Top.rest = <<Top.ch>> /\ Top.kind = "object" /\ n # 1
      BY <1>1, <2>2 DEF DInv, Scans, IsStack, IsFrame, Top
    <3>2. Top.ch \in STRING
      BY <1>1, <3>1 DEF DInv, Objects, Top
    <3> QED BY <3>1, <3>2, OneAppended, EmptySeq
  <2> QED BY <1>1, <2>1, <2>2 DEF IsStack, IsFrame, Top
<1>6. IsStack(Fed) /\ Len(Fed) = n /\ Objects(Fed) /\ Links(rank, Fed, b, c)
  BY <1>1, FedStack, FedDeep
<1>7. /\ Fed[n].phase = Top.phase /\ InTail(Fed[n]) = InTail(Top)
      /\ Scans(rank, Fed[n], <<>>, b[n])
      /\ Fed[n].phase = "tail" => Fed[n].rest = <<>>
  BY <1>1, <1>2, FedTop, DoneScans, FedDeep
<1>8. IsFrame(f) /\ f.kind = "object" /\ f.rest = replay /\ f.ch = ch /\ f.phase = "replay"
  <2>1. f = Replay("object", replay, ch)
    OBVIOUS
  <2> HIDE DEF f, replay, ch
  <2>2. IsFrame(f) /\ f.phase = "replay"
    BY <2>1, ReplayIsFrame
  <2>3. f.kind = "object"
    BY <2>1, ReplayIsFrame
  <2>4. f.rest = replay
    BY <2>1, ReplayIsFrame
  <2>5. f.ch = ch
    BY <2>1, ReplayIsFrame
  <2> QED BY <2>2, <2>3, <2>4, <2>5
<1>9. Top.phase = "replay" => r < b[n]
  <2> SUFFICES ASSUME Top.phase = "replay" PROVE r < b[n]
    OBVIOUS
  <2>1. Top.rest \in Seq(STRING) /\ Below(rank, word \o Top.rest, b[n])
    BY DEF DInv, Scans
  <2>2. Inner(word, word \o Top.rest)
    BY <1>1, <1>2, <2>1, Ended
  <2> QED BY <1>2, <1>4, <2>1, <2>2 DEF Below
<1>10. Top.phase \in {"replay", "tail"} /\ Fits(R, n, b[n], c[n]) /\ b[n] \in Nat /\ c[n] \in Nat
  BY <1>1 DEF DInv, IsStack, IsFrame, Top, Numbers
<1>11. tails \in Nat /\ Fits(R, n + 1, r, tails)
  <2> HIDE DEF n, r
  <2>1. (r < b[n] => Fits(R, n + 1, r, c[n])) /\ Fits(R, n + 1, r, c[n] + 1)
    BY <1>1, <1>4, <1>10, Bounds
  <2>2. (Top.phase = "replay" /\ InTail(Top) = 0) \/ InTail(Top) = 1
    BY <1>10 DEF InTail
  <2>3. CASE Top.phase = "replay" /\ InTail(Top) = 0
    <3>1. tails = c[n]
      BY <1>10, <2>3
    <3> HIDE DEF tails
    <3> QED BY <1>9, <1>10, <2>1, <2>3, <3>1
  <2>4. CASE InTail(Top) = 1
    <3>1. tails = c[n] + 1
      BY <2>4
    <3> HIDE DEF tails
    <3> QED BY <1>10, <2>1, <3>1
  <2> QED BY <2>2, <2>3, <2>4
<1>12. recursion = tails /\ recursion < RecursionLimit
  BY <1>2, <1>11, LimitAssumption DEF DInv
<1>13. n + 1 <= MaxDepth
  <2> HIDE DEF n, r, tails
  <2>1. tails < RecursionLimit /\ n + 1 \in Nat /\ r \in Nat
    BY <1>1, <1>4, <1>12
  <2> QED BY <1>11, <2>1, Limited
<1>14. n < MaxDepth
  BY <1>1, <1>13, LimitAssumption
<1>15. stack' = Append(Fed, f) /\ status' = status /\ word' = <<>> /\ mode' = "lexem"
  <2> HIDE DEF f
  <2> QED BY <1>3, <1>14 DEF Call
<1>16. \A k \in 1 .. n : Fits(R, k, b[k], c[k])
  BY DEF DInv
<1> HIDE DEF n, ch, replay, r, f, tails
<1>18. PICK bb, cc :
         /\ Numbers(bb) /\ Numbers(cc)
         /\ IsStack(stack') /\ Objects(stack') /\ Len(stack') = n + 1 /\ stack'[n + 1] = f
         /\ Links(rank, stack', bb, cc)
         /\ \A k \in 1 .. n + 1 : Fits(R, k, bb[k], cc[k])
         /\ bb[n + 1] = r /\ cc[n + 1] = tails
  <2>1. r \in Nat /\ f.ch \in STRING \ Letter
    BY <1>2, <1>4, <1>5, <1>8
  <2>2. Fed[n].phase = "replay" => r < b[n]
    BY <1>7, <1>9
  <2>3. tails = c[n] + InTail(Fed[n])
    BY <1>7 DEF tails
  <2>4. Ready(R, rank, Fed, b, c, n, f, r, tails)
    BY <1>1, <1>6, <1>7, <1>8, <1>11, <1>16, <2>1, <2>2, <2>3 DEF Ready
  <2>5. stack' = Append(Fed, f)
    BY <1>15
  <2>6. IsStack(stack') /\ Len(stack') = n + 1
    <3>1. IsStack(stack')
      BY <2>4, <2>5, PushedDeep
    <3>2. Len(stack') = n + 1
      BY <2>4, <2>5, PushedDeep
    <3> QED BY <3>1, <3>2
  <2>7. Objects(stack')
    BY <2>4, <2>5, PushedDeep
  <2>8. stack'[n + 1] = f
    BY <2>4, <2>5, PushedDeep
  <2>9. Bounded(R, rank, stack', n + 1, r, tails)
    BY <2>4, <2>5, PushedDeep
  <2> QED BY <2>6, <2>7, <2>8, <2>9 DEF Bounded
<1>19. Scans(rank, f, <<>>, r)
  BY <1>4, <1>8 DEF Scans
<1>20. Reading'
  BY <1>15 DEF Reading
<1>21. recursion' = tails + InTail(f) /\ recursion' <= RecursionLimit /\ recursion' # RecursionLimit
  <2>1. InTail(f) = 0
    BY <1>8 DEF InTail
  <2>2. tails + InTail(f) = tails
    BY <1>11, <2>1
  <2> QED BY <1>11, <1>12, <2>2, LimitAssumption
<1>22. Top' = f /\ table' \in Tables
  BY <1>18 DEF Top, DInv
<1>23. DInv(R, rank, bb, cc)'
  BY <1>15, <1>18, <1>19, <1>20, <1>21, <1>22 DEF DInv
<1> QED BY <1>15, <1>18, <1>23

\* A replay ends, and its tail is counted.
LEMMA EndObjectDeep ==
    ASSUME NEW R \in Nat, NEW rank, NEW b, NEW c, Numbers(b), Numbers(c),
           DInv(R, rank, b, c), EndObject, table' = table
    PROVE  /\ status' \in {status, "thrown"}
           /\ status' # "thrown" => DInv(R, rank, b, c)'
<1> DEFINE n == Len(stack)
           f == Frame(Top.kind, <<Top.ch>>, Top.ch, "tail")
<1>1. IsStack(stack) /\ n \in 1 .. n /\ n \in Nat /\ c[n] \in Nat
  BY DEF DInv, IsStack, IsSeq, Numbers
<1>2. f.kind = Top.kind /\ f.rest = <<Top.ch>> /\ f.ch = Top.ch /\ f.phase = "tail"
  BY Fields
<1>3. Top.phase = "replay" /\ Top.kind = "object" /\ recursion' = recursion + 1
  BY DEF EndObject
<1>4. IsFrame(f)
  BY <1>2, <1>3 DEF IsFrame
<1>5. stack' = [stack EXCEPT ![n] = f]
  BY <1>1 DEF EndObject, Top, IsStack, IsSeq
<1>6. recursion = c[n] /\ recursion < RecursionLimit
  <2>1. InTail(Top) = 0
    BY <1>3 DEF InTail
  <2>2. recursion = c[n] + 0
    BY <2>1 DEF DInv
  <2> QED BY <1>1, <1>3, <2>2, LimitAssumption DEF DInv
<1>7. status' \in {status, "thrown"}
  BY DEF EndObject
<1>8. ASSUME status' # "thrown" PROVE word' \in {word, <<>>} /\ mode' = mode
  BY <1>8 DEF EndObject
<1>9. ASSUME status' # "thrown", recursion' = RecursionLimit PROVE word' = <<>>
  <2>1. recursion + 1 >= RecursionLimit
    BY <1>1, <1>3, <1>6, <1>9
  <2>2. Emits
    BY <2>1 DEF Emits
  <2> QED BY <1>9, <2>2 DEF EndObject
<1> HIDE DEF f
<1>10. /\ IsStack(stack') /\ Len(stack') = n /\ stack'[n] = f
       /\ \A k \in 1 .. n : k # n => stack'[k] = stack[k]
  BY <1>1, <1>2, <1>4, <1>5, ReplacedTop
<1>11. Objects(stack')
  <2>1. ASSUME NEW k \in 1 .. n, k # 1
        PROVE  stack'[k].kind = "object" /\ stack'[k].ch \in STRING \ Letter
    <3>1. stack[k].kind = "object" /\ stack[k].ch \in STRING \ Letter
      BY <2>1 DEF DInv, Objects
    <3>2. CASE k = n
      BY <1>2, <1>10, <3>1, <3>2 DEF Top
    <3>3. CASE k # n
      BY <1>10, <3>1, <3>3
    <3> QED BY <3>2, <3>3
  <2> QED BY <1>10, <2>1 DEF Objects
<1>12. Links(rank, stack', b, c)
  <2>1. ASSUME NEW k \in 1 .. n - 1 PROVE stack'[k] = stack[k]
    BY <1>1, <1>10
  <2> QED BY <1>10, <2>1 DEF DInv, Links
<1>13. InTail(f) = 1 /\ Scans(rank, f, word', b[n])
  BY <1>2 DEF InTail, Scans
<1>14. Top' = f /\ table' \in Tables
  BY <1>10 DEF Top, DInv
<1>15. recursion' = c[n] + InTail(f) /\ recursion' <= RecursionLimit
  BY <1>1, <1>3, <1>6, <1>13, LimitAssumption
<1>16. ASSUME status' # "thrown" PROVE Reading'
  <2>1. CASE word' = word
    BY <1>8, <1>16, <2>1 DEF DInv, Reading
  <2>2. CASE word' = <<>>
    BY <1>8, <1>16, <2>2 DEF DInv, Reading
  <2> QED BY <1>8, <1>16, <2>1, <2>2
<1>17. ASSUME status' # "thrown" PROVE DInv(R, rank, b, c)'
  BY <1>2, <1>9, <1>10, <1>11, <1>12, <1>13, <1>14, <1>15, <1>16, <1>17 DEF DInv
<1> QED BY <1>7, <1>17

\* A tail has been scanned: the call below goes on.
LEMMA ReturnDeep ==
    ASSUME NEW R \in Nat, NEW rank, NEW b, NEW c, Numbers(b), Numbers(c),
           DInv(R, rank, b, c), ReturnObject, table' = table
    PROVE  status' = status /\ DInv(R, rank, b, c)'
<1> DEFINE n == Len(stack)
           m == n - 1
<1>1. IsStack(stack) /\ n \in 1 .. n /\ n \in Nat
  BY DEF DInv, IsStack, IsSeq
<1>2. /\ stack' = SubSeq(stack, 1, m) /\ recursion' = recursion - 1
      /\ Top.phase = "tail" /\ Top.kind = "object" /\ Top.rest = <<>>
      /\ mode' = mode /\ word' = word /\ status' = status
  BY DEF ReturnObject, Front
<1>3. m \in 1 .. n /\ m \in 1 .. n - 1 /\ m + 1 = n
  BY <1>1, <1>2 DEF IsStack, Top
<1>4. IsSeq(stack') /\ Len(stack') = m /\ \A k \in 1 .. m : stack'[k] = stack[k]
  BY <1>1, <1>2, <1>3, Initial DEF IsStack
<1>5. IsStack(stack')
  BY <1>1, <1>3, <1>4 DEF IsStack, IsSeq
<1>6. Objects(stack')
  <2>1. \A k \in 1 .. m : k \in 1 .. n
    BY <1>3
  <2> QED BY <1>4, <2>1 DEF DInv, Objects
<1>7. Links(rank, stack', b, c)
  <2>1. \A k \in 1 .. m - 1 : k \in 1 .. n - 1 /\ stack'[k] = stack[k]
    BY <1>3, <1>4
  <2> QED BY <1>4, <2>1 DEF DInv, Links
<1>8. word = <<>>
  <2>1. <<>> # <<Top.ch>>
    OBVIOUS
  <2> QED BY <1>2, <2>1 DEF DInv, Scans
<1>9. Top' = stack[m]
  BY <1>3, <1>4 DEF Top
<1>10. Scans(rank, stack[m], <<>>, b[m]) /\ c[n] = c[m] + InTail(stack[m])
  BY <1>3 DEF DInv, Links
<1>11. recursion' = c[n] /\ recursion' <= RecursionLimit /\ recursion' # RecursionLimit
  <2>1. InTail(Top) = 1 /\ c[n] \in Nat
    BY <1>1, <1>2 DEF InTail, Numbers
  <2>2. recursion = c[n] + 1 /\ recursion <= RecursionLimit
    BY <2>1 DEF DInv
  <2> QED BY <1>2, <2>1, <2>2, LimitAssumption
<1>12. Reading' /\ table' \in Tables
  BY <1>2 DEF DInv, Reading
<1>13. \A k \in 1 .. m : Fits(R, k, b[k], c[k])
  BY <1>1, <1>3 DEF DInv
<1> HIDE DEF n, m
<1> QED BY <1>2, <1>4, <1>5, <1>6, <1>7, <1>8, <1>9, <1>10, <1>11, <1>12, <1>13 DEF DInv
-----------------------------------------------------------------------------
Deep(R) ==
    NoCalls /\ Ranks(R) # {} =>
        /\ status # "overflow"
        /\ status = "run" =>
             \E rank \in Ranks(R) : \E b, c : Numbers(b) /\ Numbers(c) /\ DInv(R, rank, b, c)

\* A call in progress scans what it holds or calls; no other action of a
\* table without calls is possible.
LEMMA StepDeep ==
    ASSUME NEW R \in Nat, Room(R), NoCalls, NEW rank \in Ranks(R), NEW b, NEW c, Numbers(b), Numbers(c),
           DInv(R, rank, b, c), status = "run", Next
    PROVE  /\ status' # "overflow"
           /\ status' = "run" => \E bb, cc : Numbers(bb) /\ Numbers(cc) /\ DInv(R, rank, bb, cc)'
<1>1. table' = table
  BY DEF Next
<1>2. CASE Read
  <2>1. Top.rest # <<>> /\ recursion' = recursion /\ mode \in {"lexem", "inside_lexem"}
    BY <1>2 DEF Read, DInv, Reading
  <2>2. CASE ReadLetter(Head(Top.rest))
    BY <1>1, <2>1, <2>2, LetterDeep DEF ReadLetter
  <2>3. CASE ReadDelimiter(Head(Top.rest))
    BY <1>1, <2>1, <2>3, DelimiterDeep DEF ReadDelimiter
  <2>4. CASE ReadMacro(Head(Top.rest))
    BY <1>1, <2>1, <2>4, MacroDeep
  <2>5. ~ReadEnterDef(Head(Top.rest)) /\ ~ReadArgument(Head(Top.rest)) /\ ~ReadEndOfCall(Head(Top.rest))
    BY <2>1 DEF ReadEnterDef, ReadArgument, ReadEndOfCall
  <2> QED BY <1>2, <2>2, <2>3, <2>4, <2>5 DEF Read
<1>3. CASE EndObject
  BY <1>1, <1>3, EndObjectDeep
<1>4. CASE ReturnObject
  BY <1>1, <1>4, ReturnDeep
<1>5. ~ReturnFunction
  <2>1. IsStack(stack) /\ Len(stack) \in 1 .. Len(stack)
    BY DEF DInv, IsStack, IsSeq
  <2>2. Top.kind # "function"
    BY <2>1 DEF DInv, Objects, IsStack, Top
  <2> QED BY <2>2 DEF ReturnFunction
<1>6. CASE EndOfText
  BY <1>6 DEF EndOfText
<1> QED BY <1>2, <1>3, <1>4, <1>5, <1>6 DEF Next

LEMMA StartDeep ==
    ASSUME NEW R \in Nat, Init
    PROVE  Deep(R)
<1> DEFINE s == <<Replay("file", text, "none")>>
           b == [k \in Nat |-> R + 1]
           c == [k \in Nat |-> 0]
<1>1. Len(s) = 1 /\ s[1] = Replay("file", text, "none") /\ IsSeq(s)
  BY DEF IsSeq
<1>2. IsFrame(s[1]) /\ s[1].kind = "file" /\ s[1].rest = text /\ s[1].phase = "replay"
  <2> HIDE DEF s
  <2>1. IsFrame(s[1]) /\ s[1].phase = "replay"
    BY <1>1, ReplayIsFrame
  <2>2. s[1].kind = "file"
    BY <1>1, ReplayIsFrame
  <2>3. s[1].rest = text
    BY <1>1, ReplayIsFrame
  <2> QED BY <2>1, <2>2, <2>3
<1>3. Numbers(b) /\ Numbers(c) /\ b[1] = R + 1 /\ c[1] = 0
  BY DEF Numbers
<1>4. text \in Seq(STRING) /\ table \in Tables
  BY TextAssumption DEF Init
<1> HIDE DEF s, b, c
<1>5. IsStack(s) /\ Objects(s)
  BY <1>1, <1>2 DEF IsStack, Objects
<1>6. ASSUME NEW rank \in Ranks(R) PROVE Links(rank, s, b, c)
  BY <1>1 DEF Links
<1>7. ASSUME NEW rank \in Ranks(R) PROVE Scans(rank, s[1], <<>>, R + 1)
  <2>1. \A w \in DOMAIN rank : rank[w] \in 0 .. R
    BY DEF Ranks
  <2>2. \A w \in DOMAIN rank : rank[w] < R + 1
    BY <2>1
  <2> QED BY <1>2, <1>4, <2>2 DEF Scans, Below
<1>8. Fits(R, 1, R + 1, 0)
  BY DEF Fits
<1>9. stack = s /\ Reading /\ recursion = 0 /\ status = "run"
  <2>1. word = <<>> /\ mode = "lexem"
    BY DEF Init
  <2>2. Reading
    BY <2>1 DEF Reading
  <2> QED BY <2>2 DEF Init, s
<1>10. Top = s[1] /\ word = <<>> /\ InTail(s[1]) = 0
  <2>1. InTail(s[1]) = 0
    BY <1>2 DEF InTail
  <2> QED BY <1>1, <1>9, <2>1 DEF Top, Init
<1>11. ASSUME NEW rank \in Ranks(R) PROVE DInv(R, rank, b, c)
  <2>1. recursion = c[1] + InTail(s[1]) /\ recursion <= RecursionLimit /\ recursion # RecursionLimit
    BY <1>3, <1>9, <1>10, LimitAssumption
  <2>2. \A k \in 1 .. 1 : Fits(R, k, b[k], c[k])
    BY <1>3, <1>8
  <2> QED BY <1>1, <1>3, <1>4, <1>5, <1>6, <1>7, <1>9, <1>10, <2>1, <2>2 DEF DInv
<1> QED BY <1>3, <1>9, <1>11 DEF Deep

\* The replays of macros without arguments fit on the C stack if the macros
\* are ranked 0 .. R: a macro has a greater rank than those whose names are
\* followed by something in its replacement.  A name that ends a replacement
\* is free, "#define FOO FOO" has R = 0: the counter catches it.
THEOREM RankedExpansionsFit ==
    ASSUME NEW R \in Nat, (R + 1) * RecursionLimit + 1 <= MaxDepth
    PROVE  Spec => [](NoCalls /\ Ranks(R) # {} => NoStackOverflow)
<1>1. Room(R)
  BY DEF Room
<1>2. Init => Deep(R)
  BY StartDeep
<1>3. Deep(R) /\ [Next]_vars => Deep(R)'
  <2> SUFFICES ASSUME Deep(R), [Next]_vars, NoCalls', Ranks(R)' # {}
               PROVE  /\ status' # "overflow"
                      /\ status' = "run" =>
                           \E rank \in Ranks(R)' : \E b, c : Numbers(b) /\ Numbers(c) /\ DInv(R, rank, b, c)'
    BY DEF Deep
  <2>1. table' = table
    BY DEF Next, vars
  <2>2. NoCalls /\ Ranks(R)' = Ranks(R)
    BY <2>1 DEF NoCalls, Ranks
  <2>3. CASE Next
    <3>1. status = "run"
      BY <2>3 DEF Next
    <3>2. PICK rank \in Ranks(R) : \E b, c : Numbers(b) /\ Numbers(c) /\ DInv(R, rank, b, c)
      BY <2>2, <3>1 DEF Deep
    <3> QED BY <1>1, <2>2, <2>3, <3>1, <3>2, StepDeep
  <2>4. CASE UNCHANGED vars
    <3>1. status' = status
      BY <2>4 DEF vars
    <3>2. ASSUME NEW rank, NEW b, NEW c, DInv(R, rank, b, c) PROVE DInv(R, rank, b, c)'
      BY <2>4, <3>2 DEF vars, DInv, Top, Reading
    <3> QED BY <2>2, <3>1, <3>2 DEF Deep
  <2> QED BY <2>3, <2>4
<1>4. Deep(R) => (NoCalls /\ Ranks(R) # {} => NoStackOverflow)
  BY DEF Deep, NoStackOverflow
<1> QED BY <1>2, <1>3, <1>4, PTL DEF Spec
-----------------------------------------------------------------------------
(* Substitution, of any call into any replacement.                         *)

\* Without a '#' in the replacement no mark is waited for, so that nothing is
\* skipped and the zero behind the replacement is met.
Unmarked ==
    /\ payload \in Seq(STRING)
    /\ i \in Nat \ {0}
    /\ ~Subst!Has(payload, "#") =>
          /\ next_state = "no" /\ substitution # "overrun"
          /\ substitution = "copy" => i <= Len(payload) + 1

LEMMA InitUnmarked ==
    ASSUME Subst!Init
    PROVE  Unmarked
BY SubstitutionAssumption DEF Subst!Init, Unmarked

LEMMA StepUnmarked ==
    ASSUME Unmarked, [Subst!Next]_(Subst!vars)
    PROVE  Unmarked'
<1>1. CASE UNCHANGED Subst!vars
  BY <1>1 DEF Subst!vars, Unmarked, Subst!Has
<1>2. CASE Subst!Next
  <2>1. payload' = payload /\ payload \in Seq(STRING) /\ Len(payload) \in Nat /\ substitution = "copy"
    BY <1>2 DEF Subst!Next, Unmarked
  <2>2. /\ i \in Nat \ {0} /\ DOMAIN payload = 1 .. Len(payload)
        /\ ~Subst!Has(payload, "#") => next_state = "no" /\ i <= Len(payload) + 1
    BY <2>1 DEF Unmarked
  <2>3. Subst!At(i) # "zero" => i <= Len(payload)
    BY DEF Subst!At
  <2>4. ~Subst!Has(payload, "#") => Subst!At(i) # "#"
    <3>1. i <= Len(payload) => i \in DOMAIN payload
      BY <2>1, <2>2
    <3> QED BY <3>1 DEF Subst!At, Subst!Has
  <2>5. CASE Subst!Collect
    <3>1. i' = i + 1 /\ UNCHANGED <<next_state, substitution>>
      BY <2>5 DEF Subst!Collect
    <3>2. Subst!At(i) # "zero"
      BY <2>5, Zenon DEF Subst!Collect
    <3> QED BY <2>1, <2>2, <2>3, <3>1, <3>2 DEF Unmarked, Subst!Has
  <2>6. CASE Subst!EndOther
    <3>1. /\ i' = i + 1 /\ next_state' = Subst!Announced
          /\ substitution' = IF Subst!At(i) = "zero" THEN "done" ELSE "copy"
      BY <2>6 DEF Subst!EndOther
    <3>2. ~Subst!Has(payload, "#") => Subst!Announced = "no"
      BY <2>2, <2>4 DEF Subst!Announced
    <3> QED BY <2>1, <2>2, <2>3, <3>1, <3>2 DEF Unmarked, Subst!Has
  <2>7. CASE Subst!EndParameter
    <3>1. PICK at : /\ at = i + Subst!Skip(Subst!Announced) /\ i' = at + 1 /\ next_state' = "no"
                    /\ substitution' = CASE Subst!At(i) = "zero" -> "done"
                                         [] Subst!At(i) # "zero" /\ at > Len(payload) -> "overrun"
                                         [] OTHER -> "copy"
      BY <2>7 DEF Subst!EndParameter
    <3>2. ~Subst!Has(payload, "#") => Subst!Announced = "no"
      BY <2>2, <2>4 DEF Subst!Announced
    <3>3. Subst!Skip(Subst!Announced) \in {0, 1, 2} /\ Subst!Skip("no") = 0
      BY DEF Subst!Skip
    <3>4. at \in Nat \ {0} /\ (~Subst!Has(payload, "#") => at = i)
      BY <2>2, <3>1, <3>2, <3>3
    <3>5. ASSUME ~Subst!Has(payload, "#") PROVE Subst!At(i) = "zero" \/ at <= Len(payload)
      BY <2>2, <2>3, <3>4, <3>5
    <3>6. ASSUME ~Subst!Has(payload, "#")
          PROVE  /\ substitution' # "overrun"
                 /\ substitution' = "copy" => at <= Len(payload)
      <4>1. CASE Subst!At(i) = "zero"
        <5>1. substitution' = "done"
          BY <3>1, <4>1, Zenon
        <5> QED BY <5>1
      <4>2. CASE Subst!At(i) # "zero"
        <5>1. at <= Len(payload) /\ ~(at > Len(payload))
          BY <2>1, <3>4, <3>5, <3>6, <4>2
        <5>2. substitution' = "copy"
          BY <3>1, <4>2, <5>1, Zenon
        <5> QED BY <5>1, <5>2
      <4> QED BY <4>1, <4>2
    <3>7. i' \in Nat \ {0} /\ (at <= Len(payload) => i' <= Len(payload) + 1)
      BY <2>1, <3>1, <3>4
    <3> QED BY <2>1, <3>1, <3>6, <3>7 DEF Unmarked, Subst!Has
  <2> QED BY <1>2, <2>5, <2>6, <2>7 DEF Subst!Next, Subst!EndWord
<1> QED BY <1>1, <1>2

\* For all parameters, calls and replacements: only a '#' in the replacement
\* makes substitute_def_expression read past the end of it.
THEOREM OverrunsAtMarks == Subst!Spec => []OnlyMarksOverrun
<1>1. Subst!Init => Unmarked
  BY InitUnmarked
<1>2. Unmarked /\ [Subst!Next]_(Subst!vars) => Unmarked'
  BY StepUnmarked
<1>3. Unmarked => OnlyMarksOverrun
  BY DEF Unmarked, OnlyMarksOverrun, Subst!OnlyMarksOverrun
<1> QED BY <1>1, <1>2, <1>3, PTL DEF Subst!Spec
-----------------------------------------------------------------------------
(* Recursive functions of Substitution: an induction over their arguments  *)
(* is an argument about the least one that fails.                          *)

LEMMA Least ==
    ASSUME NEW S, S \subseteq Nat, S # {}
    PROVE  \E n \in S : \A m \in S : n <= m
<1> DEFINE I == {0 .. n : n \in S}
<1>1. I \subseteq FiniteSubsetsOf(Nat) /\ I # {}
  <2>1. \A n \in S : IsFiniteSet(0 .. n) /\ 0 .. n \in SUBSET Nat
    BY FS_Interval
  <2> QED BY <2>1 DEF FiniteSubsetsOf
<1>2. PICK x \in I : \A y \in I : <<y, x>> \notin StrictSubsetOrdering(Nat)
  <2> HIDE DEF I
  <2>1. IsWellFoundedOn(StrictSubsetOrdering(Nat), FiniteSubsetsOf(Nat))
    BY FS_StrictSubsetOrderingWellFounded
  <2> QED BY <1>1, <2>1, WFMin
<1>3. PICK n \in S : x = 0 .. n
  OBVIOUS
<1>4. ASSUME NEW m \in S, ~(n <= m) PROVE FALSE
  <2>1. 0 .. m \in I /\ 0 .. m \subseteq 0 .. n /\ n \in 0 .. n /\ n \notin 0 .. m
    BY <1>4
  <2>2. <<0 .. m, 0 .. n>> \in StrictSubsetOrdering(Nat)
    <3>1. <<0 .. m, 0 .. n>> \in (SUBSET Nat) \X (SUBSET Nat)
      BY <2>1
    <3> QED BY <2>1, <3>1 DEF StrictSubsetOrdering
  <2> QED BY <1>2, <1>3, <2>1, <2>2
<1> QED BY <1>4

\* The function f by which FlattenSeq joins the first n sequences of s.
Flattens(f, s, n) == f = [k \in 1 .. n |-> IF k = 1 THEN s[k] ELSE f[k - 1] \o s[k]]

Agree(s, t, n) == \A k \in 1 .. n : s[k] = t[k]

LEMMA FlattensExist ==
    ASSUME NEW s, NEW n \in Nat
    PROVE  \E f : Flattens(f, s, n)
<1> DEFINE S == {m \in Nat : ~\E f : Flattens(f, s, m)}
<1> SUFFICES ASSUME S # {} PROVE FALSE
  OBVIOUS
<1>1. PICK m \in S : \A l \in S : m <= l
  BY Least
<1>2. CASE m = 0
  <2> DEFINE f == [k \in 1 .. 0 |-> s[k]]
  <2>1. f = [k \in 1 .. 0 |-> IF k = 1 THEN s[k] ELSE f[k - 1] \o s[k]]
    OBVIOUS
  <2> QED BY <1>2, <2>1 DEF Flattens
<1>3. CASE m # 0
  <2>1. m \in Nat /\ m - 1 \in Nat /\ ~(m <= m - 1)
    BY <1>3
  <2>2. m - 1 \notin S
    BY <1>1, <2>1
  <2>3. PICK g : Flattens(g, s, m - 1)
    BY <2>1, <2>2
  <2> DEFINE f == [k \in 1 .. m |-> IF k = 1 THEN s[k] ELSE g[k - 1] \o s[k]]
  <2>4. ASSUME NEW k \in 1 .. m - 1 PROVE f[k] = g[k]
    <3>1. k \in 1 .. m
      BY <2>1
    <3>2. f[k] = IF k = 1 THEN s[k] ELSE g[k - 1] \o s[k]
      BY <3>1
    <3>3. g[k] = IF k = 1 THEN s[k] ELSE g[k - 1] \o s[k]
      BY <2>3 DEF Flattens
    <3> QED BY <3>2, <3>3
  <2>5. f = [k \in 1 .. m |-> IF k = 1 THEN s[k] ELSE f[k - 1] \o s[k]]
    <3>1. \A k \in 1 .. m : k # 1 => k - 1 \in 1 .. m - 1
      BY <2>1
    <3>2. \A k \in 1 .. m : k # 1 => f[k - 1] \o s[k] = g[k - 1] \o s[k]
      BY <2>4, <3>1
    <3> QED BY <3>2
  <2> QED BY <2>5 DEF Flattens
<1> QED BY <1>2, <1>3

LEMMA FlattensTo ==
    ASSUME NEW s, Len(s) \in Nat, Len(s) # 0
    PROVE  \E f : Flattens(f, s, Len(s)) /\ Subst!FlattenSeq(s) = f[Len(s)]
<1> DEFINE f == CHOOSE f : f = [k \in 1 .. Len(s) |-> IF k = 1 THEN s[k] ELSE f[k - 1] \o s[k]]
<1>1. Subst!FlattenSeq(s) = f[Len(s)]
  BY DEF Subst!FlattenSeq
<1>2. Flattens(f, s, Len(s))
  BY FlattensExist DEF Flattens
<1> QED BY <1>1, <1>2

LEMMA FlattensAgree ==
    ASSUME NEW s, NEW t, NEW m \in Nat, NEW n \in Nat, m <= n,
           Agree(s, t, m), NEW f, Flattens(f, s, m), NEW g, Flattens(g, t, n)
    PROVE  Agree(f, g, m)
<1> DEFINE S == {k \in 1 .. m : f[k] # g[k]}
<1> SUFFICES ASSUME S # {} PROVE FALSE
  BY DEF Agree
<1>1. PICK k \in S : \A l \in S : k <= l
  <2>1. S \subseteq Nat
    OBVIOUS
  <2> HIDE DEF S
  <2> QED BY <2>1, Least
<1>2. k \in 1 .. m /\ k \in 1 .. n /\ f[k] # g[k] /\ s[k] = t[k]
  BY DEF Agree
<1>3. f[k] = IF k = 1 THEN s[k] ELSE f[k - 1] \o s[k]
  BY <1>2 DEF Flattens
<1>4. g[k] = IF k = 1 THEN t[k] ELSE g[k - 1] \o t[k]
  BY <1>2 DEF Flattens
<1>5. k # 1
  BY <1>2, <1>3, <1>4
<1>6. k - 1 \in 1 .. m /\ ~(k <= k - 1)
  BY <1>2, <1>5
<1>7. f[k - 1] = g[k - 1]
  BY <1>1, <1>6
<1> QED BY <1>2, <1>3, <1>4, <1>7, Zenon

LEMMA Flattened ==
    ASSUME NEW T, NEW s \in Seq(Seq(T))
    PROVE  Subst!FlattenSeq(s) \in Seq(T)
<1>1. CASE Len(s) = 0
  <2>1. s = <<>>
    BY <1>1
  <2> QED BY <1>1, <2>1 DEF Subst!FlattenSeq
<1>2. CASE Len(s) # 0
  <2>1. PICK f : Flattens(f, s, Len(s)) /\ Subst!FlattenSeq(s) = f[Len(s)]
    BY <1>2, FlattensTo
  <2> DEFINE S == {k \in 1 .. Len(s) : f[k] \notin Seq(T)}
  <2>2. ASSUME S # {} PROVE FALSE
    <3>1. PICK k \in S : \A l \in S : k <= l
      <4>1. S \subseteq Nat
        OBVIOUS
      <4> HIDE DEF S
      <4> QED BY <2>2, <4>1, Least
    <3>2. k \in 1 .. Len(s) /\ f[k] \notin Seq(T) /\ s[k] \in Seq(T)
      OBVIOUS
    <3>3. f[k] = IF k = 1 THEN s[k] ELSE f[k - 1] \o s[k]
      BY <2>1, <3>2 DEF Flattens
    <3>4. k # 1
      BY <3>2, <3>3
    <3>5. k - 1 \in 1 .. Len(s) /\ ~(k <= k - 1)
      BY <3>2, <3>4
    <3>6. f[k - 1] \in Seq(T)
      BY <3>1, <3>5
    <3>7. f[k - 1] \o s[k] \in Seq(T)
      BY <3>2, <3>6
    <3> QED BY <3>2, <3>3, <3>4, <3>7
  <2>3. Len(s) \in 1 .. Len(s)
    BY <1>2
  <2> QED BY <2>1, <2>2, <2>3
<1> QED BY <1>1, <1>2

\* The sequences t are the n sequences s, of members of T, and one more.
Continue(T, n, s, t) ==
    /\ n \in Nat /\ s \in Seq(Seq(T)) /\ Len(s) = n
    /\ Len(t) = n + 1 /\ t[n + 1] \in Seq(T) /\ Agree(s, t, n)

LEMMA FlattenedLast ==
    ASSUME NEW T, NEW n, NEW s, NEW t, Continue(T, n, s, t)
    PROVE  Subst!FlattenSeq(t) = Subst!FlattenSeq(s) \o t[n + 1]
<1> USE DEF Continue
<1>1. n + 1 \in Nat /\ n + 1 # 0 /\ n + 1 \in 1 .. n + 1 /\ n <= n + 1
  OBVIOUS
<1>2. PICK g : Flattens(g, t, n + 1) /\ Subst!FlattenSeq(t) = g[n + 1]
  BY <1>1, FlattensTo
<1>3. g[n + 1] = IF n + 1 = 1 THEN t[n + 1] ELSE g[n + 1 - 1] \o t[n + 1]
  <2> DEFINE m == n + 1
  <2>1. Flattens(g, t, m) /\ m \in 1 .. m
    BY <1>1, <1>2
  <2> HIDE DEF m
  <2>2. g[m] = IF m = 1 THEN t[m] ELSE g[m - 1] \o t[m]
    BY <2>1 DEF Flattens
  <2> QED BY <2>2 DEF m
<1>4. CASE n = 0
  <2>1. s = <<>>
    BY <1>4
  <2>2. Subst!FlattenSeq(s) = <<>>
    BY <1>4, <2>1 DEF Subst!FlattenSeq
  <2>3. <<>> \o t[n + 1] = t[n + 1]
    OBVIOUS
  <2> QED BY <1>2, <1>3, <1>4, <2>2, <2>3
<1>5. CASE n # 0
  <2>1. PICK f : Flattens(f, s, n) /\ Subst!FlattenSeq(s) = f[n]
    BY <1>5, FlattensTo
  <2>2. Agree(f, g, n)
    BY <1>1, <1>2, <2>1, FlattensAgree, Zenon
  <2>3. n \in 1 .. n /\ n + 1 # 1 /\ n + 1 - 1 = n
    BY <1>5
  <2>4. f[n] = g[n]
    BY <2>2, <2>3 DEF Agree
  <2> QED BY <1>2, <1>3, <2>1, <2>3, <2>4
<1> QED BY <1>4, <1>5

LEMMA FlattenedMore ==
    ASSUME NEW T, NEW s \in Seq(Seq(T)), NEW e \in Seq(T)
    PROVE  Subst!FlattenSeq(Append(s, e)) = Subst!FlattenSeq(s) \o e
<1>1. PICK t, n : t = Append(s, e) /\ n = Len(s)
  OBVIOUS
<1>2. Len(t) = n + 1 /\ n \in Nat /\ t[n + 1] = e /\ Agree(s, t, n)
  BY <1>1 DEF Agree
<1>3. Subst!FlattenSeq(t) = Subst!FlattenSeq(s) \o t[n + 1]
  <2>1. t[n + 1] \in Seq(T) /\ Len(s) = n
    BY <1>1, <1>2
  <2>2. Continue(T, n, s, t)
    BY <1>2, <2>1 DEF Continue
  <2> QED BY <2>2, FlattenedLast
<1> QED BY <1>1, <1>2, <1>3

LEMMA Single ==
    ASSUME NEW T, NEW c \in T
    PROVE  <<c>> \in Seq(T)
OBVIOUS

LEMMA OneMore ==
    ASSUME NEW T, NEW s \in Seq(T), NEW b \in Seq(T), NEW c \in T
    PROVE  /\ s \o Append(b, c) = (s \o b) \o <<c>>
           /\ \A j \in DOMAIN Append(b, c) :
                 Append(b, c)[j] = c \/ (j \in DOMAIN b /\ Append(b, c)[j] = b[j])
<1>1. Append(b, c) = b \o <<c>> /\ <<c>> \in Seq(T)
  BY AppendIsConcat, Single
<1>2. s \o (b \o <<c>>) = (s \o b) \o <<c>>
  BY <1>1, ConcatAssociative
<1>3. ASSUME NEW u, u = Append(b, c)
      PROVE  \A j \in DOMAIN u : u[j] = c \/ (j \in DOMAIN b /\ u[j] = b[j])
  <2>1. /\ DOMAIN u = 1 .. Len(b) + 1 /\ DOMAIN b = 1 .. Len(b) /\ Len(b) \in Nat
        /\ u[Len(b) + 1] = c /\ \A j \in 1 .. Len(b) : u[j] = b[j]
    BY <1>3
  <2>2. \A j \in 1 .. Len(b) + 1 : j = Len(b) + 1 \/ j \in 1 .. Len(b)
    BY <2>1
  <2> TAKE j \in DOMAIN u
  <2>3. j = Len(b) + 1 \/ j \in 1 .. Len(b)
    BY <2>1, <2>2
  <2> QED BY <2>1, <2>3
<1>4. \A j \in DOMAIN Append(b, c) : Append(b, c)[j] = c \/ (j \in DOMAIN b /\ Append(b, c)[j] = b[j])
  BY <1>3
<1> QED BY <1>1, <1>2, <1>4, Zenon

\* The function f by which Split reads the first n characters of t.
Reads(f, t, n) ==
    f = [k \in 0 .. n |-> IF k = 0 THEN [sc |-> FALSE, depth |-> 0, args |-> << <<>> >>]
                          ELSE Subst!Turn(f[k - 1], t[k])]

LEMMA ReadsExist ==
    ASSUME NEW t, NEW n \in Nat
    PROVE  \E f : Reads(f, t, n)
<1> DEFINE S == {m \in Nat : ~\E f : Reads(f, t, m)}
           start == [sc |-> FALSE, depth |-> 0, args |-> << <<>> >>]
<1> SUFFICES ASSUME S # {} PROVE FALSE
  OBVIOUS
<1>1. PICK m \in S : \A l \in S : m <= l
  BY Least
<1> HIDE DEF start
<1>2. CASE m = 0
  <2> DEFINE f == [k \in 0 .. 0 |-> start]
  <2>1. f = [k \in 0 .. 0 |-> IF k = 0 THEN start ELSE Subst!Turn(f[k - 1], t[k])]
    OBVIOUS
  <2> QED BY <1>2, <2>1 DEF Reads, start
<1>3. CASE m # 0
  <2>1. m \in Nat /\ m - 1 \in Nat /\ ~(m <= m - 1)
    BY <1>3
  <2>2. m - 1 \notin S
    BY <1>1, <2>1
  <2>3. PICK g : Reads(g, t, m - 1)
    BY <2>1, <2>2
  <2> DEFINE f == [k \in 0 .. m |-> IF k = 0 THEN start ELSE Subst!Turn(g[k - 1], t[k])]
  <2>4. ASSUME NEW k \in 0 .. m - 1 PROVE f[k] = g[k]
    <3>1. k \in 0 .. m
      BY <2>1
    <3>2. f[k] = IF k = 0 THEN start ELSE Subst!Turn(g[k - 1], t[k])
      BY <3>1
    <3>3. g[k] = IF k = 0 THEN start ELSE Subst!Turn(g[k - 1], t[k])
      BY <2>3 DEF Reads, start
    <3> QED BY <3>2, <3>3
  <2>5. f = [k \in 0 .. m |-> IF k = 0 THEN start ELSE Subst!Turn(f[k - 1], t[k])]
    <3>1. \A k \in 0 .. m : k # 0 => k - 1 \in 0 .. m - 1
      BY <2>1
    <3>2. \A k \in 0 .. m : k # 0 => Subst!Turn(f[k - 1], t[k]) = Subst!Turn(g[k - 1], t[k])
      BY <2>4, <3>1
    <3> QED BY <3>2
  <2> QED BY <2>5 DEF Reads, start
<1> QED BY <1>2, <1>3

LEMMA SplitReads ==
    ASSUME NEW t, Len(t) \in Nat
    PROVE  \E f : Reads(f, t, Len(t)) /\ Subst!Split(t) = f[Len(t)].args
<1> DEFINE f == CHOOSE f : f = [k \in 0 .. Len(t) |->
                               IF k = 0 THEN [sc |-> FALSE, depth |-> 0, args |-> << <<>> >>]
                               ELSE Subst!Turn(f[k - 1], t[k])]
<1>1. Subst!Split(t) = f[Len(t)].args
  BY Zenon DEF Subst!Split
<1>2. Reads(f, t, Len(t))
  BY ReadsExist DEF Reads
<1> QED BY <1>1, <1>2

\* The arguments a turn leaves, s being those before and c what is read.
Grown(s, c) == [s EXCEPT ![Len(s)] = Append(s[Len(s)], c)]

LEMMA TurnArgs ==
    ASSUME NEW s, NEW c
    PROVE  LET q == Subst!Turn(s, c)
           IN  \/ q.args = Grown(s.args, c)
               \/ q.args = Append(s.args, <<>>)
BY Zenon DEF Subst!Turn, Grown

IsArgs(s) == s \in Seq(Seq(STRING)) /\ Len(s) # 0

LEMMA ReadArgs ==
    ASSUME NEW t, t \in Seq(STRING), NEW f, Reads(f, t, Len(t))
    PROVE  \A k \in 0 .. Len(t) : IsArgs(f[k].args)
<1> DEFINE S == {k \in 0 .. Len(t) : ~IsArgs(f[k].args)}
<1> SUFFICES ASSUME S # {} PROVE FALSE
  OBVIOUS
<1>1. PICK k \in S : \A l \in S : k <= l
  <2>1. S \subseteq Nat
    OBVIOUS
  <2> HIDE DEF S
  <2> QED BY <2>1, Least
<1>2. k \in 0 .. Len(t) /\ ~IsArgs(f[k].args)
  OBVIOUS
<1>3. f[k] = IF k = 0 THEN [sc |-> FALSE, depth |-> 0, args |-> << <<>> >>]
             ELSE Subst!Turn(f[k - 1], t[k])
  BY <1>2 DEF Reads
<1>4. CASE k = 0
  <2>1. f[k].args = << <<>> >>
    BY <1>3, <1>4
  <2> QED BY <1>2, <2>1 DEF IsArgs
<1>5. CASE k # 0
  <2>1. k - 1 \in 0 .. Len(t) /\ ~(k <= k - 1)
    BY <1>2, <1>5
  <2>2. IsArgs(f[k - 1].args)
    BY <1>1, <2>1
  <2>3. t[k] \in STRING
    BY <1>2, <1>5
  <2>4. PICK s : s = f[k - 1].args
    OBVIOUS
  <2>5. f[k].args = Grown(s, t[k]) \/ f[k].args = Append(s, <<>>)
    <3>1. f[k] = Subst!Turn(f[k - 1], t[k])
      BY <1>3, <1>5
    <3> QED BY <2>4, <3>1, TurnArgs
  <2>6. IsArgs(Append(s, <<>>))
    BY <2>2, <2>4 DEF IsArgs
  <2>7. IsArgs(Grown(s, t[k]))
    <3>1. s \in Seq(Seq(STRING)) /\ Len(s) # 0 /\ Len(s) \in 1 .. Len(s)
      BY <2>2, <2>4 DEF IsArgs
    <3>2. Append(s[Len(s)], t[k]) \in Seq(STRING)
      BY <2>3, <3>1
    <3> QED BY <3>1, <3>2 DEF IsArgs, Grown
  <2> QED BY <1>2, <2>5, <2>6, <2>7
<1> QED BY <1>4, <1>5

LEMMA SplitArgs ==
    ASSUME NEW t \in Seq(STRING)
    PROVE  IsArgs(Subst!Split(t))
<1>1. PICK f : Reads(f, t, Len(t)) /\ Subst!Split(t) = f[Len(t)].args
  BY SplitReads
<1>2. Len(t) \in 0 .. Len(t)
  OBVIOUS
<1> QED BY <1>1, <1>2, ReadArgs

-----------------------------------------------------------------------------
(* What is copied of a replacement whose names stand between delimiters.   *)

\* What character c becomes when parameters are replaced by the arguments, and
\* what the first n characters of the replacement become.
Piece(a, c) ==
    IF \E p \in DOMAIN Parms : c = Parms[p]
    THEN a[CHOOSE p \in DOMAIN Parms : c = Parms[p]]
    ELSE <<c>>

Copied(a, t, n) == Subst!FlattenSeq([k \in 1 .. n |-> Piece(a, t[k])])

LEMMA Pieces ==
    ASSUME NEW a, IsArgs(a), Len(a) = Len(Parms)
    PROVE  /\ \A c \in STRING : Piece(a, c) \in Seq(STRING)
           /\ \A k \in DOMAIN Parms : a[k] \in Seq(STRING) /\ Piece(a, Parms[k]) = a[k]
           /\ \A c : ~Subst!IsName(c) => Piece(a, c) = <<c>>
           /\ \A c : (\A k \in DOMAIN Parms : c # Parms[k]) => Piece(a, c) = <<c>>
<1>1. DOMAIN Parms = 1 .. Len(Parms) /\ a \in Seq(Seq(STRING))
  BY SubstitutionAssumption DEF IsArgs
<1>2. \A k \in DOMAIN Parms : a[k] \in Seq(STRING)
  BY <1>1
<1>3. \A k \in DOMAIN Parms : Piece(a, Parms[k]) = a[k]
  <2> TAKE k \in DOMAIN Parms
  <2>1. (CHOOSE p \in DOMAIN Parms : Parms[k] = Parms[p]) = k
    BY SubstitutionAssumption
  <2> QED BY <2>1 DEF Piece
<1>4. \A c : (\A k \in DOMAIN Parms : c # Parms[k]) => Piece(a, c) = <<c>>
  BY DEF Piece
<1>5. \A c \in STRING : Piece(a, c) \in Seq(STRING)
  <2> TAKE c \in STRING
  <2>1. <<c>> \in Seq(STRING)
    BY Single
  <2> QED BY <1>2, <1>3, <1>4, <2>1
<1>6. \A c : ~Subst!IsName(c) => Piece(a, c) = <<c>>
  BY <1>4, SubstitutionAssumption
<1> QED BY <1>2, <1>3, <1>4, <1>5, <1>6

LEMMA CopiedMore ==
    ASSUME NEW a, IsArgs(a), Len(a) = Len(Parms), NEW t, t \in Seq(STRING)
    PROVE  /\ Copied(a, t, 0) = <<>>
           /\ \A n \in 0 .. Len(t) : Copied(a, t, n) \in Seq(STRING)
           /\ \A n \in 1 .. Len(t) : Copied(a, t, n) = Copied(a, t, n - 1) \o Piece(a, t[n])
<1>1. \A n \in 0 .. Len(t) : [k \in 1 .. n |-> Piece(a, t[k])] \in Seq(Seq(STRING))
  <2>1. \A k \in 1 .. Len(t) : t[k] \in STRING
    OBVIOUS
  <2>2. \A c \in STRING : Piece(a, c) \in Seq(STRING)
    BY Pieces
  <2>3. \A k \in 1 .. Len(t) : Piece(a, t[k]) \in Seq(STRING)
    BY <2>1, <2>2
  <2> QED BY <2>3
<1>2. \A n \in 0 .. Len(t) : Copied(a, t, n) \in Seq(STRING)
  BY <1>1, Flattened DEF Copied
<1>3. ASSUME NEW n \in 1 .. Len(t) PROVE Copied(a, t, n) = Copied(a, t, n - 1) \o Piece(a, t[n])
  <2>1. PICK s : s = [k \in 1 .. n - 1 |-> Piece(a, t[k])]
    OBVIOUS
  <2>2. s \in Seq(Seq(STRING)) /\ Len(s) = n - 1 /\ n - 1 \in Nat
    <3>1. n - 1 \in 0 .. Len(t)
      OBVIOUS
    <3> QED BY <1>1, <2>1, <3>1
  <2>3. PICK e : e = Piece(a, t[n])
    OBVIOUS
  <2>4. e \in Seq(STRING)
    <3>1. t[n] \in STRING
      OBVIOUS
    <3>2. \A c \in STRING : Piece(a, c) \in Seq(STRING)
      BY Pieces
    <3> QED BY <2>3, <3>1, <3>2
  <2>5. [k \in 1 .. n |-> Piece(a, t[k])] = Append(s, e)
    <3>1. PICK v : v = [k \in 1 .. n |-> Piece(a, t[k])]
      OBVIOUS
    <3>2. v \in Seq(Seq(STRING)) /\ Len(v) = n /\ Append(s, e) \in Seq(Seq(STRING)) /\ Len(Append(s, e)) = n
      BY <1>1, <2>2, <2>4, <3>1
    <3>3. \A k \in 1 .. n : v[k] = Append(s, e)[k]
      <4> TAKE k \in 1 .. n
      <4>1. CASE k = n
        BY <2>2, <2>3, <2>4, <3>1, <4>1
      <4>2. CASE k # n
        <5>1. k \in 1 .. n - 1
          BY <4>2
        <5> QED BY <2>1, <2>2, <2>4, <3>1, <5>1
      <4> QED BY <4>1, <4>2
    <3>4. v = Append(s, e)
      <4>1. PICK u : u = Append(s, e)
        OBVIOUS
      <4> QED BY <3>2, <3>3, <4>1
    <3> QED BY <3>1, <3>4
  <2>6. Subst!FlattenSeq(Append(s, e)) = Subst!FlattenSeq(s) \o e
    BY <2>2, <2>4, FlattenedMore
  <2> QED BY <2>1, <2>3, <2>5, <2>6 DEF Copied
<1>4. Copied(a, t, 0) = <<>>
  <2>1. [k \in 1 .. 0 |-> Piece(a, t[k])] = <<>>
    OBVIOUS
  <2>2. Subst!FlattenSeq(<<>>) = <<>>
    BY DEF Subst!FlattenSeq
  <2> QED BY <2>1, <2>2 DEF Copied
<1> QED BY <1>2, <1>3, <1>4

LEMMA MeantCopied ==
    ASSUME payload \in Seq(STRING)
    PROVE  Subst!Meant(payload) = Copied(args, payload, Len(payload))
<1>1. DOMAIN payload = 1 .. Len(payload)
  OBVIOUS
<1> QED BY <1>1 DEF Subst!Meant, Copied, Piece

\* The first k - 1 characters of replacement t were read, b is the word being
\* read and s the result: b is a name, and what stands before it is copied.
Pending(a, t, k, b, s) ==
    /\ k >= 2 /\ b = <<t[k - 1]>> /\ Subst!IsName(t[k - 1])
    /\ s = Copied(a, t, k - 2)

\* The word, if there is one, holds no name and is copied as it is.
Plain(a, t, k, b, s) ==
    /\ s \o b = Copied(a, t, k - 1)
    /\ \A j \in DOMAIN b : ~Subst!IsName(b[j])
    /\ b # <<>> => k >= 2 /\ t[k - 1] \notin Subst!Delimiters

IsCopied(a, t, k, b, s) ==
    /\ k \in 1 .. Len(t) + 1 /\ b \in Seq(STRING) /\ s \in Seq(STRING)
    /\ Pending(a, t, k, b, s) \/ Plain(a, t, k, b, s)

Copying ==
    /\ payload \in Seq(STRING) /\ ~Subst!Has(payload, "zero")
    /\ IsArgs(args)
    /\ substitution # "-950" => Len(args) = Len(Parms)
    /\ Subst!Delimited(payload) /\ substitution = "copy" =>
          next_state = "no" /\ IsCopied(args, payload, i, buff, str)
    /\ Subst!Delimited(payload) /\ substitution = "done" =>
          str = Copied(args, payload, Len(payload))

LEMMA InitCopying ==
    ASSUME Subst!Init
    PROVE  Copying
<1>1. call \in Seq(STRING) /\ payload \in Seq(STRING) /\ ~Subst!Has(payload, "zero")
  BY SubstitutionAssumption DEF Subst!Init
<1>2. /\ args = Subst!Split(call) /\ i = 1 /\ buff = <<>> /\ str = <<>> /\ next_state = "no"
      /\ substitution = IF Len(Subst!Split(call)) = Len(Parms) THEN "copy" ELSE "-950"
  BY DEF Subst!Init
<1>3. IsArgs(args)
  BY <1>1, <1>2, SplitArgs
<1>4. substitution # "-950" => Len(args) = Len(Parms)
  BY <1>2
<1>5. substitution = "copy" => IsCopied(args, payload, i, buff, str)
  <2> SUFFICES ASSUME substitution = "copy" PROVE IsCopied(args, payload, i, buff, str)
    OBVIOUS
  <2>1. Copied(args, payload, 0) = <<>>
    BY <1>1, <1>3, <1>4, CopiedMore
  <2>2. /\ 1 \in 1 .. Len(payload) + 1 /\ <<>> \in Seq(STRING) /\ <<>> \o <<>> = <<>> /\ 1 - 1 = 0
        /\ \A j \in DOMAIN <<>> : ~Subst!IsName(<<>>[j])
    BY <1>1
  <2>3. Plain(args, payload, 1, <<>>, <<>>)
    BY <2>1, <2>2 DEF Plain
  <2> QED BY <1>2, <2>2, <2>3 DEF IsCopied
<1>6. substitution # "done"
  BY <1>2
<1> QED BY <1>1, <1>2, <1>3, <1>4, <1>5, <1>6 DEF Copying

\* What is known of the character that is read.
LEMMA CharacterRead ==
    ASSUME payload \in Seq(STRING), ~Subst!Has(payload, "zero"), Subst!Delimited(payload),
           i \in 1 .. Len(payload) + 1
    PROVE  /\ Subst!At(i) = "zero" <=> i = Len(payload) + 1
           /\ Subst!At(i) # "zero" => i \in 1 .. Len(payload) /\ Subst!At(i) = payload[i]
           /\ Subst!At(i) # "#"
           /\ Subst!At(i) \in Subst!Delimiters \union {"#", "zero"} => ~Subst!IsName(Subst!At(i))
           /\ i >= 2 /\ Subst!IsName(payload[i - 1]) =>
                 Subst!At(i) \in Subst!Delimiters \union {"#", "zero"}
           /\ i >= 2 /\ Subst!IsName(Subst!At(i)) => payload[i - 1] \in Subst!Delimiters
<1> DEFINE n == Len(payload)
<1>1. n \in Nat /\ \A k \in 1 .. n : payload[k] \in STRING /\ payload[k] # "zero" /\ payload[k] # "#"
  <2>1. \A k \in 1 .. n : payload[k] # "zero"
    BY DEF Subst!Has
  <2>2. ~Subst!Has(payload, "#")
    BY Zenon DEF Subst!Delimited
  <2>3. \A k \in 1 .. n : payload[k] # "#"
    BY <2>2 DEF Subst!Has
  <2> QED BY <2>1, <2>3
<1>2. Subst!At(i) = IF i <= n THEN payload[i] ELSE "zero"
  BY DEF Subst!At
<1>3. i = n + 1 \/ i \in 1 .. n
  BY <1>1
<1>4. i = n + 1 => Subst!At(i) = "zero"
  BY <1>1, <1>2
<1>5. i \in 1 .. n => Subst!At(i) = payload[i] /\ i # n + 1
  BY <1>1, <1>2
<1>6. \A c : c \in Subst!Delimiters \union {"#", "zero"} => ~Subst!IsName(c)
  BY Zenon DEF Subst!IsName
<1>7. \A k \in 1 .. n - 1 : /\ Subst!IsName(payload[k]) => payload[k + 1] \in Subst!Delimiters
                            /\ Subst!IsName(payload[k + 1]) => payload[k] \in Subst!Delimiters
  BY Zenon DEF Subst!Delimited
<1>8. ASSUME i >= 2, i \in 1 .. n
      PROVE  /\ Subst!IsName(payload[i - 1]) => payload[i] \in Subst!Delimiters
             /\ Subst!IsName(payload[i]) => payload[i - 1] \in Subst!Delimiters
  <2>1. i - 1 \in 1 .. n - 1 /\ i - 1 + 1 = i
    BY <1>1, <1>8
  <2> HIDE DEF n
  <2> QED BY <1>7, <2>1
<1>9. CASE i = n + 1
  <2>1. ~Subst!IsName("zero") /\ "zero" \in Subst!Delimiters \union {"#", "zero"}
    BY <1>6
  <2>2. Subst!At(i) = "zero"
    BY <1>4, <1>9, Zenon
  <2>3. "zero" # "#"
    BY Zenon
  <2> QED BY <1>9, <2>1, <2>2, <2>3, Zenon
<1>10. CASE i \in 1 .. n
  <2>1. payload[i] \in STRING /\ payload[i] # "zero" /\ payload[i] # "#"
    BY <1>1, <1>10
  <2> HIDE DEF n
  <2>2. Subst!At(i) = payload[i] /\ i # n + 1
    BY <1>5, <1>10
  <2> QED BY <1>6, <1>8, <1>10, <2>1, <2>2, Zenon DEF n
<1> QED BY <1>3, <1>9, <1>10

\* A word is a name only by itself, and a character is a name only behind a
\* delimiter: reading one more character of a word.
LEMMA CollectCopies ==
    ASSUME NEW a, IsArgs(a), Len(a) = Len(Parms), NEW t, t \in Seq(STRING),
           NEW k \in 1 .. Len(t), NEW b, NEW s, IsCopied(a, t, k, b, s),
           t[k] \notin Subst!Delimiters,
           k >= 2 => ~Subst!IsName(t[k - 1]),
           k >= 2 /\ Subst!IsName(t[k]) => t[k - 1] \in Subst!Delimiters
    PROVE  IsCopied(a, t, k + 1, Append(b, t[k]), s)
<1>1. PICK c : c = t[k]
  OBVIOUS
<1>2. /\ c \in STRING /\ b \in Seq(STRING) /\ s \in Seq(STRING) /\ Append(b, c) \in Seq(STRING)
      /\ k + 1 \in 1 .. Len(t) + 1 /\ k + 1 - 1 = k /\ k + 1 - 2 = k - 1 /\ k + 1 >= 2
  BY <1>1 DEF IsCopied
<1>3. Plain(a, t, k, b, s)
  BY DEF IsCopied, Pending
<1>4. /\ Copied(a, t, k) = Copied(a, t, k - 1) \o Piece(a, c)
      /\ ~Subst!IsName(c) => Piece(a, c) = <<c>>
      /\ Copied(a, t, 0) = <<>>
  <2>1. Copied(a, t, k) = Copied(a, t, k - 1) \o Piece(a, c) /\ Copied(a, t, 0) = <<>>
    BY <1>1, CopiedMore
  <2> QED BY <2>1, Pieces
<1>5. CASE Subst!IsName(c)
  <2>1. b = <<>>
    <3>1. CASE k = 1
      <4>1. s \o b = <<>>
        BY <1>3, <1>4, <3>1 DEF Plain
      <4> QED BY <1>2, <4>1
    <3>2. CASE k # 1
      BY <1>1, <1>3, <1>5, <3>2 DEF Plain
    <3> QED BY <3>1, <3>2
  <2>2. s \o <<>> = s
    BY <1>2
  <2>3. s = Copied(a, t, k - 1)
    BY <1>3, <2>1, <2>2 DEF Plain
  <2>4. Append(b, c) = <<c>>
    BY <2>1
  <2>5. Pending(a, t, k + 1, Append(b, c), s)
    BY <1>1, <1>2, <1>5, <2>3, <2>4 DEF Pending
  <2> QED BY <1>1, <1>2, <2>5 DEF IsCopied
<1>6. CASE ~Subst!IsName(c)
  <2>1. s \o Append(b, c) = (s \o b) \o <<c>>
    <3>1. PICK T : T = STRING
      OBVIOUS
    <3>2. s \in Seq(T) /\ b \in Seq(T) /\ c \in T
      BY <1>2, <3>1
    <3> QED BY <3>2, OneMore
  <2>2. s \o Append(b, c) = Copied(a, t, k)
    BY <1>3, <1>4, <1>6, <2>1 DEF Plain
  <2>3. \A j \in DOMAIN Append(b, c) : ~Subst!IsName(Append(b, c)[j])
    <3>1. \A j \in DOMAIN Append(b, c) :
             Append(b, c)[j] = c \/ (j \in DOMAIN b /\ Append(b, c)[j] = b[j])
      <4>1. PICK T : T = STRING
        OBVIOUS
      <4>2. s \in Seq(T) /\ b \in Seq(T) /\ c \in T
        BY <1>2, <4>1
      <4> QED BY <4>2, OneMore
    <3> QED BY <1>3, <1>6, <3>1 DEF Plain
  <2>4. Plain(a, t, k + 1, Append(b, c), s)
    BY <1>1, <1>2, <2>2, <2>3 DEF Plain
  <2> QED BY <1>1, <1>2, <2>4 DEF IsCopied
<1> QED BY <1>5, <1>6

\* What the word w that ends becomes: its argument, or itself.
Ending(a, b, w) ==
    \/ \E p \in DOMAIN Parms : b = <<Parms[p]>> /\ w = a[p]
    \/ (\A p \in DOMAIN Parms : b # <<Parms[p]>>) /\ w = b

LEMMA EndCopies ==
    ASSUME NEW a, IsArgs(a), Len(a) = Len(Parms), NEW t, t \in Seq(STRING),
           NEW k, NEW b, NEW s, IsCopied(a, t, k, b, s), NEW w, Ending(a, b, w)
    PROVE  w \in Seq(STRING) /\ s \o w = Copied(a, t, k - 1)
<1>1. /\ k \in 1 .. Len(t) + 1 /\ b \in Seq(STRING) /\ s \in Seq(STRING)
      /\ Pending(a, t, k, b, s) \/ Plain(a, t, k, b, s)
  BY DEF IsCopied
<1>2. CASE Pending(a, t, k, b, s)
  <2>1. PICK c : c = t[k - 1]
    OBVIOUS
  <2>2. k - 1 \in 1 .. Len(t) /\ k - 1 - 1 = k - 2 /\ b = <<c>> /\ s = Copied(a, t, k - 2)
    BY <1>1, <1>2, <2>1 DEF Pending
  <2>3. Copied(a, t, k - 1) = Copied(a, t, k - 2) \o Piece(a, c)
    BY <2>1, <2>2, CopiedMore
  <2>4. w = Piece(a, c) /\ w \in Seq(STRING)
    <3>1. \A x, y : <<x>> = <<y>> => x = y
      OBVIOUS
    <3>2. CASE \E p \in DOMAIN Parms : b = <<Parms[p]>> /\ w = a[p]
      <4>1. PICK p \in DOMAIN Parms : b = <<Parms[p]>> /\ w = a[p]
        BY <3>2
      <4>2. c = Parms[p]
        BY <2>2, <3>1, <4>1
      <4> QED BY <4>1, <4>2, Pieces
    <3>3. CASE (\A p \in DOMAIN Parms : b # <<Parms[p]>>) /\ w = b
      BY <1>1, <2>2, <3>3, Pieces
    <3> QED BY <3>2, <3>3 DEF Ending
  <2> QED BY <2>2, <2>3, <2>4
<1>3. CASE Plain(a, t, k, b, s)
  <2>1. \A p \in DOMAIN Parms : b # <<Parms[p]>>
    <3>1. \A x : 1 \in DOMAIN <<x>> /\ <<x>>[1] = x
      OBVIOUS
    <3> QED BY <1>3, <3>1, SubstitutionAssumption DEF Plain
  <2>2. w = b
    BY <2>1 DEF Ending
  <2> QED BY <1>1, <1>3, <2>2 DEF Plain
<1> QED BY <1>1, <1>2, <1>3

\* The character c behind a word that ends is no name.
LEMMA EndOn ==
    ASSUME NEW a, IsArgs(a), Len(a) = Len(Parms), NEW t, t \in Seq(STRING),
           NEW k \in 1 .. Len(t), ~Subst!IsName(t[k]),
           NEW b, NEW s, IsCopied(a, t, k, b, s), NEW w, Ending(a, b, w)
    PROVE  IsCopied(a, t, k + 1, <<>>, s \o Append(w, t[k]))
<1>1. PICK c : c = t[k]
  OBVIOUS
<1>2. c \in STRING /\ s \in Seq(STRING)
  BY <1>1 DEF IsCopied
<1>3. w \in Seq(STRING) /\ s \o w = Copied(a, t, k - 1)
  BY EndCopies
<1>4. Copied(a, t, k) = Copied(a, t, k - 1) \o Piece(a, c)
  BY <1>1, CopiedMore
<1>5. Piece(a, c) = <<c>>
  BY <1>1, Pieces
<1>6. s \o Append(w, c) = (s \o w) \o <<c>>
  <2>1. PICK T : T = STRING
    OBVIOUS
  <2>2. s \in Seq(T) /\ w \in Seq(T) /\ c \in T
    BY <1>2, <1>3, <2>1
  <2> QED BY <2>2, OneMore
<1>7. s \o Append(w, c) = Copied(a, t, k)
  BY <1>3, <1>4, <1>5, <1>6
<1>8. Copied(a, t, k) \in Seq(STRING)
  <2>1. k \in 0 .. Len(t)
    OBVIOUS
  <2> QED BY <2>1, CopiedMore
<1>9. /\ k + 1 \in 1 .. Len(t) + 1 /\ k + 1 - 1 = k /\ <<>> \in Seq(STRING)
      /\ \A j \in DOMAIN <<>> : ~Subst!IsName(<<>>[j])
  OBVIOUS
<1>10. Copied(a, t, k) \o <<>> = Copied(a, t, k)
  BY <1>8, ConcatEmptySeq
<1>11. Plain(a, t, k + 1, <<>>, s \o Append(w, c))
  BY <1>7, <1>9, <1>10 DEF Plain
<1> QED BY <1>1, <1>7, <1>8, <1>9, <1>11 DEF IsCopied

LEMMA StepCopying ==
    ASSUME Copying, [Subst!Next]_(Subst!vars)
    PROVE  Copying'
<1>1. CASE UNCHANGED Subst!vars
  BY <1>1 DEF Subst!vars, Copying
<1>2. CASE Subst!Next
  <2>1. /\ payload \in Seq(STRING) /\ ~Subst!Has(payload, "zero") /\ IsArgs(args)
        /\ Len(args) = Len(Parms) /\ substitution = "copy" /\ substitution # "-950"
        /\ payload' = payload /\ args' = args
        /\ Subst!Collect \/ Subst!EndWord
    BY <1>2 DEF Subst!Next, Copying
  <2>2. SUFFICES ASSUME Subst!Delimited(payload)
                 PROVE  /\ substitution' = "copy" =>
                              next_state' = "no" /\ IsCopied(args, payload, i', buff', str')
                        /\ substitution' = "done" => str' = Copied(args, payload, Len(payload))
    <3>1. Subst!Delimited(payload)' = Subst!Delimited(payload) /\ Subst!Has(payload, "zero")' = Subst!Has(payload, "zero")
      BY <2>1 DEF Subst!Delimited, Subst!Has, Subst!IsName, Subst!Delimiters
    <3> QED BY <2>1, <3>1 DEF Copying
  <2>3. next_state = "no" /\ IsCopied(args, payload, i, buff, str)
    BY <2>1, <2>2 DEF Copying
  <2>4. i \in 1 .. Len(payload) + 1 /\ str \in Seq(STRING)
    BY <2>3 DEF IsCopied
  <2> DEFINE c == Subst!At(i)
  <2>5. /\ c = "zero" <=> i = Len(payload) + 1
        /\ c # "zero" => i \in 1 .. Len(payload) /\ c = payload[i]
        /\ c # "#"
        /\ c \in Subst!Delimiters \union {"#", "zero"} => ~Subst!IsName(c)
        /\ i >= 2 /\ Subst!IsName(payload[i - 1]) => c \in Subst!Delimiters \union {"#", "zero"}
        /\ i >= 2 /\ Subst!IsName(c) => payload[i - 1] \in Subst!Delimiters
    BY <2>1, <2>2, <2>4, CharacterRead
  <2>6. CASE Subst!Collect
    <3>1. /\ c \notin Subst!Delimiters \union {"#", "zero"}
          /\ buff' = Append(buff, c) /\ i' = i + 1
          /\ str' = str /\ next_state' = next_state /\ substitution' = substitution
      BY <2>6, Zenon DEF Subst!Collect
    <3> HIDE DEF c
    <3>2. /\ i \in 1 .. Len(payload) /\ c = payload[i] /\ c \notin Subst!Delimiters
          /\ i >= 2 => ~Subst!IsName(payload[i - 1])
          /\ i >= 2 /\ Subst!IsName(payload[i]) => payload[i - 1] \in Subst!Delimiters
      BY <2>5, <3>1, Zenon
    <3>3. IsCopied(args, payload, i + 1, Append(buff, payload[i]), str)
      BY <2>1, <2>3, <3>2, CollectCopies
    <3>4. substitution' # "done"
      BY <2>1, <3>1
    <3> QED BY <2>3, <3>1, <3>2, <3>3, <3>4
  <2>7. CASE Subst!EndWord
    <3>1. buff' = <<>> /\ (Subst!EndParameter \/ Subst!EndOther) /\ ~Subst!IsName(c)
      <4>1. c \in Subst!Delimiters \union {"#", "zero"}
        BY <2>7, Zenon DEF Subst!EndWord
      <4> QED BY <2>5, <2>7, <4>1, Zenon DEF Subst!EndWord
    <3>2. Subst!Announced = "no"
      BY <2>3, <2>5, Zenon DEF Subst!Announced
    <3>3. ASSUME NEW w, Ending(args, buff, w), str' = str \o Subst!Output(w, "no", c),
                 i' = i + 1, next_state' = "no",
                 substitution' = IF c = "zero" THEN "done" ELSE "copy"
          PROVE  /\ substitution' = "copy" =>
                       next_state' = "no" /\ IsCopied(args, payload, i', buff', str')
                 /\ substitution' = "done" => str' = Copied(args, payload, Len(payload))
      <4>1. Subst!Output(w, "no", c) = IF c # "zero" THEN Append(w, c) ELSE w
        BY Zenon DEF Subst!Output
      <4> HIDE DEF c
      <4>2. CASE c = "zero"
        <5>1. str' = str \o w /\ substitution' = "done" /\ i - 1 = Len(payload)
          BY <2>4, <2>5, <3>3, <4>1, <4>2
        <5>2. str \o w = Copied(args, payload, i - 1)
          BY <2>1, <2>3, <3>3, EndCopies
        <5> QED BY <5>1, <5>2
      <4>3. CASE c # "zero"
        <5>1. str' = str \o Append(w, payload[i]) /\ substitution' = "copy" /\ i \in 1 .. Len(payload) /\ c = payload[i]
          BY <2>5, <3>3, <4>1, <4>3
        <5>2. IsCopied(args, payload, i + 1, <<>>, str \o Append(w, payload[i]))
          BY <2>1, <2>3, <3>1, <3>3, <5>1, EndOn
        <5> QED BY <3>1, <3>3, <5>1, <5>2
      <4> QED BY <4>2, <4>3
    <3>4. CASE Subst!EndOther
      <4>1. /\ \A k \in DOMAIN Parms : buff # <<Parms[k]>>
            /\ str' = str \o Subst!Output(buff, Subst!Announced, c)
            /\ i' = i + 1 /\ next_state' = Subst!Announced
            /\ substitution' = IF c = "zero" THEN "done" ELSE "copy"
        BY <3>4, Zenon DEF Subst!EndOther
      <4>2. Ending(args, buff, buff)
        BY <4>1 DEF Ending
      <4> HIDE DEF c
      <4> QED BY <3>2, <3>3, <4>1, <4>2, Zenon
    <3>5. CASE Subst!EndParameter
      <4>1. PICK k \in DOMAIN Parms :
               LET at == i + Subst!Skip(Subst!Announced)
               IN  /\ buff = <<Parms[k]>>
                   /\ \E x \in Subst!Read(at) :
                         str' = str \o Subst!Output(Subst!Replaced(Subst!Announced, args[k]), "no", x)
                   /\ i' = at + 1
                   /\ next_state' = "no"
                   /\ substitution' = CASE Subst!At(i) = "zero" -> "done"
                                        [] Subst!At(i) # "zero" /\ at > Len(payload) -> "overrun"
                                        [] OTHER -> "copy"
        BY <3>5, Zenon DEF Subst!EndParameter
      <4>2. Subst!Skip(Subst!Announced) = 0 /\ Subst!Replaced(Subst!Announced, args[k]) = args[k]
        BY <3>2, Zenon DEF Subst!Skip, Subst!Replaced
      <4>3. i + Subst!Skip(Subst!Announced) = i
        BY <2>4, <4>2
      <4>4. Subst!Read(i) = {c}
        BY <2>4 DEF Subst!Read
      <4>5. /\ buff = <<Parms[k]>> /\ str' = str \o Subst!Output(args[k], "no", c)
            /\ i' = i + 1 /\ next_state' = "no"
            /\ substitution' = CASE c = "zero" -> "done"
                                 [] c # "zero" /\ i > Len(payload) -> "overrun"
                                 [] OTHER -> "copy"
        BY <4>1, <4>2, <4>3, <4>4, Zenon
      <4>6. substitution' = IF c = "zero" THEN "done" ELSE "copy"
        <5>1. c # "zero" => ~(i > Len(payload))
          BY <2>1, <2>5
        <5> HIDE DEF c
        <5> QED BY <4>5, <5>1, Zenon
      <4>7. Ending(args, buff, args[k])
        BY <4>5 DEF Ending
      <4> HIDE DEF c
      <4> QED BY <3>3, <4>5, <4>6, <4>7, Zenon
    <3> QED BY <3>1, <3>4, <3>5
  <2> QED BY <2>1, <2>6, <2>7
<1> QED BY <1>1, <1>2 DEF Subst!Next

\* A replacement whose names stand between delimiters is copied with every
\* parameter replaced by its argument and nothing else changed
\* (substitute_def_expression), whatever the parameters, the call and the
\* replacement are.
THEOREM NamesReplaced == Subst!Spec => []DelimitedReplaced
<1>1. Subst!Init => Copying
  BY InitCopying
<1>2. Copying /\ [Subst!Next]_(Subst!vars) => Copying'
  BY StepCopying
<1>3. Copying => DelimitedReplaced
  BY MeantCopied DEF Copying, DelimitedReplaced, Subst!DelimitedReplaced
<1> QED BY <1>1, <1>2, <1>3, PTL DEF Subst!Spec

-----------------------------------------------------------------------------
(* How a call is split at its commas.                                      *)

\* How often e occurs among the first k elements of s.
Count(s, k, e) == Cardinality({j \in 1 .. k : s[j] = e})

\* By how much character c changes the depth of brackets, and the depth behind s.
Bracket(c) == IF c = "(" THEN 1 ELSE IF c = ")" THEN -1 ELSE 0
Level(s) == Subst!Depth(s, Len(s))
Comma == ","

LEMMA CountMore ==
    ASSUME NEW s, NEW k \in Nat, NEW e
    PROVE  /\ Count(s, k, e) \in Nat /\ Count(s, 0, e) = 0
           /\ Count(s, k + 1, e) = Count(s, k, e) + (IF s[k + 1] = e THEN 1 ELSE 0)
<1> DEFINE at == {j \in 1 .. k : s[j] = e}
<1>1. IsFiniteSet(at) /\ at \in SUBSET (1 .. k)
  <2>1. IsFiniteSet(1 .. k)
    BY FS_Interval
  <2> QED BY <2>1, FS_Subset
<1>2. {j \in 1 .. 0 : s[j] = e} = {}
  OBVIOUS
<1>3. Count(s, 0, e) = 0
  BY <1>2, FS_EmptySet DEF Count
<1>4. k + 1 \notin at
  OBVIOUS
<1>5. \A j \in 1 .. k + 1 : j \in 1 .. k \/ j = k + 1
  OBVIOUS
<1>6. CASE s[k + 1] = e
  <2>1. {j \in 1 .. k + 1 : s[j] = e} = at \union {k + 1}
    BY <1>5, <1>6
  <2> HIDE DEF at
  <2>2. Cardinality(at \union {k + 1}) = Cardinality(at) + 1 /\ Cardinality(at) \in Nat
    BY <1>1, <1>4, FS_AddElement, FS_CardinalityType
  <2> QED BY <1>3, <1>6, <2>1, <2>2 DEF Count, at
<1>7. CASE s[k + 1] # e
  <2>1. {j \in 1 .. k + 1 : s[j] = e} = at
    BY <1>5, <1>7
  <2> HIDE DEF at
  <2>2. Cardinality(at) \in Nat
    BY <1>1, FS_CardinalityType
  <2> QED BY <1>3, <1>7, <2>1, <2>2 DEF Count, at
<1> QED BY <1>6, <1>7

LEMMA SameCardinality == ASSUME NEW S PROVE Subst!Cardinality(S) = Cardinality(S)
BY Zenon DEF Subst!Cardinality, Cardinality

Opened(s, k) == Count(s, k, "(")
Closed(s, k) == Count(s, k, ")")

LEMMA DepthCounts ==
    ASSUME NEW s, NEW k
    PROVE  Subst!Depth(s, k) = Opened(s, k) - Closed(s, k)
BY SameCardinality, Zenon DEF Subst!Depth, Count, Opened, Closed

IsOpening(c) == c = "("
IsClosing(c) == c = ")"

LEMMA BracketIs ==
    ASSUME NEW c
    PROVE  /\ IsOpening(c) => Bracket(c) = 1 /\ ~IsClosing(c)
           /\ IsClosing(c) => Bracket(c) = -1 /\ ~IsOpening(c)
           /\ ~IsOpening(c) /\ ~IsClosing(c) => Bracket(c) = 0
<1>1. "(" # ")"
  BY Zenon
<1>2. CASE c = "("
  BY <1>1, <1>2, Zenon DEF IsOpening, IsClosing, Bracket
<1>3. CASE c = ")"
  BY <1>1, <1>3, Zenon DEF IsOpening, IsClosing, Bracket
<1>4. CASE c # "(" /\ c # ")"
  BY <1>4, Zenon DEF IsOpening, IsClosing, Bracket
<1> QED BY <1>2, <1>3, <1>4, Zenon

LEMMA OpenedMore ==
    ASSUME NEW s, NEW k \in Nat
    PROVE  /\ Opened(s, k) \in Nat /\ Opened(s, 0) = 0
           /\ Opened(s, k + 1) = Opened(s, k) + (IF IsOpening(s[k + 1]) THEN 1 ELSE 0)
<1>1. PICK e : e = "("
  BY Zenon
<1>2. \A j : Opened(s, j) = Count(s, j, e)
  BY <1>1, Zenon DEF Opened
<1>3. IsOpening(s[k + 1]) <=> s[k + 1] = e
  BY <1>1, Zenon DEF IsOpening
<1> QED BY <1>2, <1>3, CountMore

LEMMA ClosedMore ==
    ASSUME NEW s, NEW k \in Nat
    PROVE  /\ Closed(s, k) \in Nat /\ Closed(s, 0) = 0
           /\ Closed(s, k + 1) = Closed(s, k) + (IF IsClosing(s[k + 1]) THEN 1 ELSE 0)
<1>1. PICK e : e = ")"
  BY Zenon
<1>2. \A j : Closed(s, j) = Count(s, j, e)
  BY <1>1, Zenon DEF Closed
<1>3. IsClosing(s[k + 1]) <=> s[k + 1] = e
  BY <1>1, Zenon DEF IsClosing
<1> QED BY <1>2, <1>3, CountMore

LEMMA DepthMore ==
    ASSUME NEW s, NEW k \in Nat
    PROVE  /\ Subst!Depth(s, k) \in Int /\ Subst!Depth(s, 0) = 0
           /\ Subst!Depth(s, k + 1) = Subst!Depth(s, k) + Bracket(s[k + 1])
BY DepthCounts, OpenedMore, ClosedMore, BracketIs

\* The depth up to a position is that of any sequence that agrees so far.
LEMMA DepthAgrees ==
    ASSUME NEW s, NEW t, NEW k \in Nat, Agree(s, t, k)
    PROVE  Subst!Depth(s, k) = Subst!Depth(t, k)
<1>1. ASSUME NEW e PROVE {j \in 1 .. k : s[j] = e} = {j \in 1 .. k : t[j] = e}
  BY DEF Agree
<1>2. \A e : Count(s, k, e) = Count(t, k, e)
  BY <1>1 DEF Count
<1>3. Opened(s, k) = Opened(t, k) /\ Closed(s, k) = Closed(t, k)
  BY <1>2, Zenon DEF Opened, Closed
<1> QED BY <1>3, DepthCounts

\* What is written before the last of n arguments, and all of them.
WithCommas(a, n) == [k \in 1 .. n |-> Append(a[k], Comma)]
Joined(a) == Subst!FlattenSeq([k \in 1 .. Len(a) |-> IF k = Len(a) THEN a[k] ELSE Append(a[k], Comma)])

LEMMA WithCommasMore ==
    ASSUME NEW T, Comma \in T, NEW a, a \in Seq(Seq(T)), NEW n \in 0 .. Len(a)
    PROVE  /\ WithCommas(a, n) \in Seq(Seq(T)) /\ Len(WithCommas(a, n)) = n
           /\ n # 0 => WithCommas(a, n) = Append(WithCommas(a, n - 1), Append(a[n], Comma))
<1>1. \A k \in 1 .. Len(a) : Append(a[k], Comma) \in Seq(T)
  OBVIOUS
<1>2. ASSUME NEW m \in 0 .. Len(a) PROVE WithCommas(a, m) \in Seq(Seq(T)) /\ Len(WithCommas(a, m)) = m
  BY <1>1 DEF WithCommas
<1>3. ASSUME n # 0 PROVE WithCommas(a, n) = Append(WithCommas(a, n - 1), Append(a[n], Comma))
  <2>1. PICK s : s = WithCommas(a, n - 1)
    OBVIOUS
  <2>2. PICK e : e = Append(a[n], Comma)
    OBVIOUS
  <2>3. PICK u : u = Append(s, e)
    OBVIOUS
  <2>4. PICK v : v = WithCommas(a, n)
    OBVIOUS
  <2>5. n - 1 \in 0 .. Len(a) /\ n \in 1 .. Len(a)
    BY <1>3
  <2>6. s \in Seq(Seq(T)) /\ Len(s) = n - 1 /\ e \in Seq(T)
    BY <1>1, <1>2, <2>1, <2>2, <2>5
  <2>7. /\ u \in Seq(Seq(T)) /\ Len(u) = n /\ u[n] = e
        /\ \A k \in 1 .. n - 1 : u[k] = s[k]
    BY <2>3, <2>5, <2>6
  <2>8. v \in Seq(Seq(T)) /\ Len(v) = n
    BY <1>2, <2>4
  <2>9. ASSUME NEW k \in 1 .. Len(v) PROVE v[k] = u[k]
    <3>1. v[k] = Append(a[k], Comma)
      BY <2>4, <2>8 DEF WithCommas
    <3>2. CASE k = n
      BY <2>2, <2>7, <3>1, <3>2
    <3>3. CASE k # n
      <4>1. k \in 1 .. n - 1
        BY <2>8, <3>3
      <4>2. s[k] = Append(a[k], Comma)
        BY <2>1, <4>1 DEF WithCommas
      <4> QED BY <2>7, <3>1, <4>1, <4>2
    <3> QED BY <3>2, <3>3
  <2>10. u = v
    BY <2>7, <2>8, <2>9, SeqEqual
  <2> QED BY <2>1, <2>2, <2>3, <2>4, <2>10
<1> QED BY <1>2, <1>3

LEMMA JoinedLast ==
    ASSUME NEW T, Comma \in T, NEW a, a \in Seq(Seq(T)), Len(a) # 0
    PROVE  Joined(a) = Subst!FlattenSeq(WithCommas(a, Len(a) - 1)) \o a[Len(a)]
<1>1. PICK n : n = Len(a)
  OBVIOUS
<1>2. n \in Nat /\ n # 0 /\ n - 1 \in 0 .. Len(a) /\ n \in 1 .. n
  BY <1>1
<1>3. PICK s : s = WithCommas(a, n - 1)
  OBVIOUS
<1>4. s \in Seq(Seq(T)) /\ Len(s) = n - 1
  BY <1>2, <1>3, WithCommasMore
<1>5. PICK e : e = a[n]
  OBVIOUS
<1>6. e \in Seq(T)
  BY <1>1, <1>2, <1>5
<1>7. PICK u : u = Append(s, e)
  OBVIOUS
<1>8. /\ u \in Seq(Seq(T)) /\ Len(u) = n /\ u[n] = e
      /\ \A k \in 1 .. n - 1 : u[k] = s[k]
  BY <1>2, <1>4, <1>6, <1>7
<1>9. PICK v : v = [k \in 1 .. n |-> IF k = n THEN a[k] ELSE Append(a[k], Comma)]
  OBVIOUS
<1>10. v \in Seq(Seq(T)) /\ Len(v) = n
  <2>1. \A k \in 1 .. n : a[k] \in Seq(T) /\ Append(a[k], Comma) \in Seq(T)
    BY <1>1
  <2> QED BY <1>2, <1>9, <2>1
<1>11. ASSUME NEW k \in 1 .. Len(v) PROVE v[k] = u[k]
  <2>1. CASE k = n
    BY <1>2, <1>5, <1>8, <1>9, <2>1
  <2>2. CASE k # n
    <3>1. k \in 1 .. n - 1 /\ k \in 1 .. n
      BY <1>10, <2>2
    <3>2. v[k] = Append(a[k], Comma)
      BY <1>9, <2>2, <3>1
    <3>3. s[k] = Append(a[k], Comma)
      BY <1>3, <3>1 DEF WithCommas
    <3> QED BY <1>8, <3>1, <3>2, <3>3
  <2> QED BY <2>1, <2>2
<1>12. u = v
  BY <1>8, <1>10, <1>11, SeqEqual
<1>13. Joined(a) = Subst!FlattenSeq(v)
  BY <1>1, <1>9 DEF Joined
<1>14. Subst!FlattenSeq(Append(s, e)) = Subst!FlattenSeq(s) \o e
  BY <1>4, <1>6, FlattenedMore
<1> QED BY <1>1, <1>3, <1>5, <1>7, <1>12, <1>13, <1>14

LEMMA JoinedGrown ==
    ASSUME NEW T, Comma \in T, NEW a, a \in Seq(Seq(T)), Len(a) # 0, NEW c \in T
    PROVE  /\ Grown(a, c) \in Seq(Seq(T)) /\ Len(Grown(a, c)) = Len(a)
           /\ Grown(a, c)[Len(a)] = Append(a[Len(a)], c)
           /\ \A k \in 1 .. Len(a) - 1 : Grown(a, c)[k] = a[k]
           /\ Joined(Grown(a, c)) = Joined(a) \o <<c>>
<1>1. PICK n : n = Len(a)
  OBVIOUS
<1>2. n \in Nat /\ n # 0 /\ n \in 1 .. Len(a) /\ n - 1 \in 0 .. Len(a)
  BY <1>1
<1>3. PICK e : e = Append(a[n], c)
  OBVIOUS
<1>4. a[n] \in Seq(T) /\ e \in Seq(T)
  BY <1>2, <1>3
<1>5. PICK b : b = [a EXCEPT ![n] = e]
  OBVIOUS
<1>6. /\ b \in Seq(Seq(T)) /\ Len(b) = n /\ b[n] = e
      /\ \A k \in 1 .. n - 1 : b[k] = a[k]
  BY <1>1, <1>2, <1>4, <1>5
<1>7. b = Grown(a, c)
  BY <1>1, <1>3, <1>5 DEF Grown
<1>8. WithCommas(b, n - 1) = WithCommas(a, n - 1)
  BY <1>6 DEF WithCommas
<1>9. PICK s : s = Subst!FlattenSeq(WithCommas(a, n - 1))
  OBVIOUS
<1>10. s \in Seq(T)
  <2>1. WithCommas(a, n - 1) \in Seq(Seq(T))
    BY <1>2, WithCommasMore
  <2> QED BY <1>9, <2>1, Flattened
<1>11. Joined(a) = s \o a[n]
  BY <1>1, <1>2, <1>9, JoinedLast
<1>12. Joined(b) = s \o e
  <2>1. Joined(b) = Subst!FlattenSeq(WithCommas(b, n - 1)) \o b[n]
    BY <1>2, <1>6, JoinedLast
  <2> QED BY <1>6, <1>8, <1>9, <2>1
<1>13. s \o e = (s \o a[n]) \o <<c>>
  BY <1>3, <1>4, <1>10, OneMore
<1> QED BY <1>1, <1>3, <1>6, <1>7, <1>11, <1>12, <1>13

LEMMA JoinedNew ==
    ASSUME NEW T, Comma \in T, NEW a, a \in Seq(Seq(T)), Len(a) # 0
    PROVE  /\ Append(a, <<>>) \in Seq(Seq(T)) /\ Len(Append(a, <<>>)) = Len(a) + 1
           /\ Append(a, <<>>)[Len(a) + 1] = <<>>
           /\ \A k \in 1 .. Len(a) : Append(a, <<>>)[k] = a[k]
           /\ Joined(Append(a, <<>>)) = Joined(a) \o <<Comma>>
<1>1. PICK n : n = Len(a)
  OBVIOUS
<1>2. n \in Nat /\ n # 0 /\ n \in 1 .. Len(a) /\ n - 1 \in 0 .. Len(a) /\ <<>> \in Seq(T)
  BY <1>1
<1>3. PICK b : b = Append(a, <<>>)
  OBVIOUS
<1>4. /\ b \in Seq(Seq(T)) /\ Len(b) = n + 1 /\ b[n + 1] = <<>>
      /\ \A k \in 1 .. n : b[k] = a[k]
  BY <1>1, <1>2, <1>3
<1>5. WithCommas(b, n) = WithCommas(a, n)
  BY <1>4 DEF WithCommas
<1>6. PICK s : s = WithCommas(a, n - 1)
  OBVIOUS
<1>7. PICK e : e = Append(a[n], Comma)
  OBVIOUS
<1>8. s \in Seq(Seq(T)) /\ e \in Seq(T) /\ a[n] \in Seq(T)
  BY <1>2, <1>6, <1>7, WithCommasMore
<1>9. WithCommas(a, n) = Append(s, e)
  <2>1. n \in 0 .. Len(a)
    BY <1>1, <1>2
  <2>2. WithCommas(a, n) = Append(WithCommas(a, n - 1), Append(a[n], Comma))
    BY <1>2, <2>1, WithCommasMore
  <2> QED BY <1>6, <1>7, <2>2
<1>10. Subst!FlattenSeq(Append(s, e)) = Subst!FlattenSeq(s) \o e
  BY <1>8, FlattenedMore
<1>11. PICK l : l = Subst!FlattenSeq(s)
  OBVIOUS
<1>12. l \in Seq(T)
  BY <1>8, <1>11, Flattened
<1>13. Joined(a) = l \o a[n]
  BY <1>1, <1>2, <1>6, <1>11, JoinedLast
<1>14. Joined(b) = Subst!FlattenSeq(WithCommas(b, n)) \o b[n + 1]
  <2>1. Len(b) # 0 /\ Len(b) - 1 = n
    BY <1>2, <1>4
  <2> QED BY <1>4, <2>1, JoinedLast
<1>15. Joined(b) = (l \o e) \o <<>>
  BY <1>4, <1>5, <1>9, <1>10, <1>11, <1>14
<1>16. (l \o e) \o <<>> = l \o e
  <2>1. l \o e \in Seq(T)
    BY <1>8, <1>12
  <2> QED BY <2>1, ConcatEmptySeq
<1>17. l \o e = (l \o a[n]) \o <<Comma>>
  BY <1>7, <1>8, <1>12, OneMore
<1> QED BY <1>1, <1>3, <1>4, <1>13, <1>15, <1>16, <1>17

\* The commas of an argument stand inside brackets.
CommasInside(s) == \A c \in 1 .. Len(s) : s[c] = Comma => Subst!Depth(s, c) # 0

\* What has been split: the arguments joined are what was read, t up to k.
Outer(q, t, k, T) ==
    /\ q.sc = FALSE
    /\ q.args \in Seq(Seq(T)) /\ Len(q.args) # 0
    /\ Joined(q.args) = SubSeq(t, 1, k)
    /\ q.depth = Level(q.args[Len(q.args)])
    /\ \A j \in 1 .. Len(q.args) - 1 : Level(q.args[j]) = 0
    /\ \A j \in 1 .. Len(q.args) : CommasInside(q.args[j])

\* What reading c makes of s outside strings.
Turned(q, s, c) ==
    /\ q.sc = FALSE /\ q.depth = s.depth + Bracket(c)
    /\ q.depth # 0 \/ c # Comma => q.args = Grown(s.args, c)
    /\ q.depth = 0 /\ c = Comma => q.args = Append(s.args, <<>>)

LEMMA TurnIs ==
    ASSUME NEW s, NEW c, s.sc = FALSE, c # "quote"
    PROVE  Turned(Subst!Turn(s, c), s, c)
BY Zenon DEF Turned, Subst!Turn, Grown, Bracket, Comma

LEMMA CommaNoBracket == Bracket(Comma) = 0
<1>1. "," # "(" /\ "," # ")"
  BY Zenon
<1> QED BY <1>1, Zenon DEF Bracket, Comma

LEMMA LevelMore ==
    ASSUME NEW T, NEW s \in Seq(T), NEW c \in T
    PROVE  /\ Level(Append(s, c)) = Level(s) + Bracket(c)
           /\ Level(s) \in Int /\ Level(<<>>) = 0 /\ CommasInside(<<>>)
           /\ CommasInside(s) /\ (c = Comma => Level(Append(s, c)) # 0) => CommasInside(Append(s, c))
<1>1. PICK u : u = Append(s, c)
  OBVIOUS
<1>2. PICK n : n = Len(s)
  OBVIOUS
<1>3. n \in Nat /\ Len(u) = n + 1 /\ u[n + 1] = c /\ \A j \in 1 .. n : s[j] = u[j]
  BY <1>1, <1>2
<1>4. \A k \in 0 .. n : Subst!Depth(u, k) = Subst!Depth(s, k)
  <2> TAKE k \in 0 .. n
  <2>1. k \in Nat /\ Agree(u, s, k)
    BY <1>3 DEF Agree
  <2> QED BY <2>1, DepthAgrees
<1>5. Subst!Depth(u, n + 1) = Subst!Depth(u, n) + Bracket(c)
  BY <1>3, DepthMore
<1>6. Subst!Depth(s, n) \in Int /\ n \in 0 .. n
  BY <1>3, DepthMore
<1>7. Level(u) = Level(s) + Bracket(c)
  BY <1>2, <1>3, <1>4, <1>5, <1>6 DEF Level
<1>8. Level(s) \in Int
  BY <1>2, <1>6 DEF Level
<1>9. Level(<<>>) = 0
  <2>1. Len(<<>>) = 0
    OBVIOUS
  <2>2. Subst!Depth(<<>>, 0) = 0
    BY DepthMore
  <2> QED BY <2>1, <2>2 DEF Level
<1>10. CommasInside(<<>>)
  BY DEF CommasInside
<1>11. ASSUME CommasInside(s), c = Comma => Level(u) # 0 PROVE CommasInside(u)
  <2> SUFFICES ASSUME NEW j \in 1 .. Len(u), u[j] = Comma PROVE Subst!Depth(u, j) # 0
    BY DEF CommasInside
  <2>1. CASE j = n + 1
    BY <1>3, <1>11, <2>1 DEF Level
  <2>2. CASE j # n + 1
    <3>1. j \in 1 .. n /\ j \in 0 .. n
      BY <1>3, <2>2
    <3>2. s[j] = Comma
      BY <1>3, <3>1
    <3> QED BY <1>2, <1>4, <1>11, <3>1, <3>2 DEF CommasInside
  <2> QED BY <2>1, <2>2
<1> QED BY <1>1, <1>7, <1>8, <1>9, <1>10, <1>11

LEMMA TurnOuter ==
    ASSUME NEW T, Comma \in T, NEW t, t \in Seq(T), NEW k \in 1 .. Len(t), t[k] # "quote",
           NEW s, Outer(s, t, k - 1, T), NEW q, q = Subst!Turn(s, t[k])
    PROVE  Outer(q, t, k, T)
<1>1. PICK c : c = t[k]
  OBVIOUS
<1>2. PICK a : a = s.args
  OBVIOUS
<1>3. PICK n : n = Len(a)
  OBVIOUS
<1>4. /\ s.sc = FALSE /\ a \in Seq(Seq(T)) /\ Len(a) # 0 /\ Joined(a) = SubSeq(t, 1, k - 1)
      /\ s.depth = Level(a[n])
      /\ \A j \in 1 .. n - 1 : Level(a[j]) = 0
      /\ \A j \in 1 .. n : CommasInside(a[j])
  BY <1>2, <1>3 DEF Outer
<1>5. /\ q.sc = FALSE /\ q.depth = s.depth + Bracket(c)
      /\ q.depth # 0 \/ c # Comma => q.args = Grown(a, c)
      /\ q.depth = 0 /\ c = Comma => q.args = Append(a, <<>>)
  <2>1. Turned(q, s, c)
    BY <1>1, <1>4, TurnIs
  <2> QED BY <1>2, <2>1 DEF Turned
<1>6. n \in Nat /\ n \in 1 .. n /\ c \in T /\ a[n] \in Seq(T)
  BY <1>1, <1>3, <1>4
<1>7. SubSeq(t, 1, k) = SubSeq(t, 1, k - 1) \o <<c>>
  <2>1. 1 \in 1 .. Len(t) /\ k \in 1 .. Len(t)
    OBVIOUS
  <2> QED BY <1>1, <2>1, SubSeqRecursiveSecond
<1>8. /\ Level(Append(a[n], c)) = Level(a[n]) + Bracket(c) /\ Level(a[n]) \in Int
      /\ Level(<<>>) = 0 /\ CommasInside(<<>>)
      /\ (c = Comma => Level(Append(a[n], c)) # 0) => CommasInside(Append(a[n], c))
  <2>1. CommasInside(a[n])
    BY <1>4, <1>6
  <2> QED BY <1>6, <2>1, LevelMore, Zenon
<1>9. CASE q.depth # 0 \/ c # Comma
  <2>1. PICK b : b = Grown(a, c)
    OBVIOUS
  <2>2. /\ b \in Seq(Seq(T)) /\ Len(b) = n /\ b[n] = Append(a[n], c)
        /\ \A j \in 1 .. n - 1 : b[j] = a[j]
        /\ Joined(b) = Joined(a) \o <<c>>
    <3>1. /\ Grown(a, c) \in Seq(Seq(T)) /\ Len(Grown(a, c)) = Len(a)
          /\ Grown(a, c)[Len(a)] = Append(a[Len(a)], c)
          /\ \A j \in 1 .. Len(a) - 1 : Grown(a, c)[j] = a[j]
          /\ Joined(Grown(a, c)) = Joined(a) \o <<c>>
      BY <1>4, <1>6, JoinedGrown
    <3> QED BY <1>3, <2>1, <3>1
  <2>3. q.args = b
    BY <1>5, <1>9, <2>1
  <2>4. q.depth = Level(b[n]) /\ CommasInside(b[n])
    BY <1>4, <1>5, <1>8, <1>9, <2>2
  <2>5. \A j \in 1 .. n - 1 : Level(b[j]) = 0
    BY <1>4, <2>2
  <2>6. \A j \in 1 .. n : CommasInside(b[j])
    <3>1. \A j \in 1 .. n : j = n \/ j \in 1 .. n - 1
      BY <1>6
    <3>2. \A j \in 1 .. n - 1 : j \in 1 .. n
      BY <1>6
    <3> QED BY <1>4, <2>2, <2>4, <3>1, <3>2, Zenon
  <2>7. Joined(b) = SubSeq(t, 1, k)
    BY <1>4, <1>7, <2>2
  <2> QED BY <1>3, <1>4, <1>5, <2>2, <2>3, <2>4, <2>5, <2>6, <2>7 DEF Outer
<1>10. CASE q.depth = 0 /\ c = Comma
  <2>1. PICK b : b = Append(a, <<>>)
    OBVIOUS
  <2>2. /\ b \in Seq(Seq(T)) /\ Len(b) = n + 1 /\ b[n + 1] = <<>>
        /\ \A j \in 1 .. n : b[j] = a[j]
        /\ Joined(b) = Joined(a) \o <<Comma>>
    BY <1>3, <1>4, <2>1, JoinedNew
  <2>3. q.args = b
    BY <1>5, <1>10, <2>1
  <2>4. Level(a[n]) = 0
    BY <1>4, <1>5, <1>8, <1>10, CommaNoBracket
  <2>5. \A j \in 1 .. n : j = n \/ j \in 1 .. n - 1
    BY <1>6
  <2>6. \A j \in 1 .. n + 1 : j = n + 1 \/ j \in 1 .. n
    BY <1>6
  <2>7. \A j \in 1 .. n : Level(b[j]) = 0
    BY <1>4, <2>2, <2>4, <2>5, Zenon
  <2>8. \A j \in 1 .. n + 1 : CommasInside(b[j])
    BY <1>4, <1>8, <2>2, <2>6, Zenon
  <2>9. q.depth = Level(b[n + 1])
    BY <1>8, <1>10, <2>2
  <2>10. Joined(b) = SubSeq(t, 1, k)
    BY <1>4, <1>7, <1>10, <2>2
  <2>11. Len(b) # 0 /\ Len(b) - 1 = n
    BY <1>6, <2>2
  <2> QED BY <1>5, <2>2, <2>3, <2>7, <2>8, <2>9, <2>10, <2>11 DEF Outer
<1> QED BY <1>9, <1>10

LEMMA SplitOuter ==
    ASSUME NEW t \in Seq(STRING), ~Subst!Has(t, "quote"), NEW a, a = Subst!Split(t)
    PROVE  /\ Joined(a) = t
           /\ \A j \in 1 .. Len(a) - 1 : Level(a[j]) = 0
           /\ \A j \in 1 .. Len(a) : CommasInside(a[j])
           /\ DOMAIN a = 1 .. Len(a)
<1>1. PICK T : T = STRING \union {Comma}
  OBVIOUS
<1>2. Comma \in T /\ t \in Seq(T)
  <2>1. STRING \subseteq T /\ Comma \in T
    BY <1>1
  <2> QED BY <2>1, SeqMonotonic
<1>3. PICK f : Reads(f, t, Len(t)) /\ a = f[Len(t)].args
  BY SplitReads
<1>4. \A k \in 1 .. Len(t) : t[k] # "quote"
  BY DEF Subst!Has
<1> DEFINE S == {k \in 0 .. Len(t) : ~Outer(f[k], t, k, T)}
<1>5. S = {}
  <2> SUFFICES ASSUME S # {} PROVE FALSE
    OBVIOUS
  <2>1. PICK k \in S : \A l \in S : k <= l
    <3>1. S \subseteq Nat
      OBVIOUS
    <3> HIDE DEF S
    <3> QED BY <3>1, Least
  <2>2. k \in 0 .. Len(t) /\ ~Outer(f[k], t, k, T)
    OBVIOUS
  <2>3. f[k] = IF k = 0 THEN [sc |-> FALSE, depth |-> 0, args |-> << <<>> >>]
               ELSE Subst!Turn(f[k - 1], t[k])
    BY <1>3, <2>2 DEF Reads
  <2>4. CASE k = 0
    <3>1. f[k].sc = FALSE /\ f[k].depth = 0 /\ f[k].args = << <<>> >>
      BY <2>3, <2>4
    <3>2. PICK b : b = << <<>> >>
      OBVIOUS
    <3>3. b \in Seq(Seq(T)) /\ Len(b) = 1 /\ b[1] = <<>>
      BY <3>2
    <3>4. Level(<<>>) = 0 /\ CommasInside(<<>>)
      <4>1. <<>> \in Seq(T)
        OBVIOUS
      <4> QED BY <1>2, <4>1, LevelMore
    <3>5. Joined(b) = SubSeq(t, 1, 0)
      <4>1. Joined(b) = Subst!FlattenSeq(WithCommas(b, 0)) \o b[1]
        <5>1. Len(b) # 0 /\ Len(b) - 1 = 0
          BY <3>3
        <5> QED BY <1>2, <3>3, <5>1, JoinedLast
      <4>2. WithCommas(b, 0) = <<>>
        BY DEF WithCommas
      <4>3. Subst!FlattenSeq(<<>>) = <<>>
        BY DEF Subst!FlattenSeq
      <4>4. <<>> \o <<>> = <<>> /\ SubSeq(t, 1, 0) = <<>>
        BY SubSeqEmpty
      <4> QED BY <3>3, <4>1, <4>2, <4>3, <4>4
    <3>6. 1 - 1 = 0 /\ 1 # 0 /\ (\A j \in 1 .. 1 : j = 1) /\ (\A j \in 1 .. 0 : FALSE)
      OBVIOUS
    <3> QED BY <2>2, <2>4, <3>1, <3>2, <3>3, <3>4, <3>5, <3>6 DEF Outer
  <2>5. CASE k # 0
    <3>1. k - 1 \in 0 .. Len(t) /\ ~(k <= k - 1) /\ k \in 1 .. Len(t)
      BY <2>2, <2>5
    <3>2. Outer(f[k - 1], t, k - 1, T)
      BY <2>1, <3>1
    <3>3. f[k] = Subst!Turn(f[k - 1], t[k]) /\ t[k] # "quote"
      BY <1>4, <2>3, <2>5, <3>1
    <3>4. Outer(f[k], t, k, T)
      BY <1>2, <3>1, <3>2, <3>3, TurnOuter
    <3> QED BY <2>2, <3>4
  <2> QED BY <2>4, <2>5
<1>6. PICK n : n = Len(t)
  OBVIOUS
<1>7. Outer(f[n], t, n, T)
  <2>1. n \in 0 .. Len(t)
    BY <1>6
  <2> QED BY <1>5, <2>1
<1>8. SubSeq(t, 1, n) = t
  BY <1>6, SubSeqFull
<1>9. a \in Seq(Seq(T))
  BY <1>3, <1>6, <1>7 DEF Outer
<1> QED BY <1>3, <1>6, <1>7, <1>8, <1>9 DEF Outer

\* The arguments are those of the call.
SplitCall == call \in Seq(STRING) /\ args = Subst!Split(call)

LEMMA SplitIsOuter ==
    ASSUME SplitCall
    PROVE  SplitsAtOuterCommas
<1> SUFFICES ASSUME ~Subst!Has(call, "quote") PROVE SplitsAtOuterCommas
  BY Zenon DEF SplitsAtOuterCommas, Subst!SplitsAtOuterCommas
<1>1. /\ Joined(args) = call
      /\ \A j \in 1 .. Len(args) - 1 : Level(args[j]) = 0
      /\ \A j \in 1 .. Len(args) : CommasInside(args[j])
      /\ DOMAIN args = 1 .. Len(args)
  BY SplitOuter DEF SplitCall
<1>2. Subst!FlattenSeq([k \in DOMAIN args |->
          IF k = Len(args) THEN args[k] ELSE Append(args[k], ",")]) = call
  BY <1>1, Zenon DEF Joined, Comma
<1>3. \A k \in DOMAIN args, c \in 1 .. Len(call) :
          c \in DOMAIN args[k] /\ args[k][c] = "," => Subst!Depth(args[k], c) # 0
  <2>1. \A k \in DOMAIN args : DOMAIN args[k] = 1 .. Len(args[k])
    <3>1. IsArgs(args)
      BY SplitArgs DEF SplitCall
    <3>2. \A k \in DOMAIN args : args[k] \in Seq(STRING)
      BY <3>1 DEF IsArgs
    <3> QED BY <3>2
  <2> QED BY <1>1, <2>1, Zenon DEF CommasInside, Comma
<1>4. \A k \in 1 .. Len(args) - 1 : Subst!Depth(args[k], Len(args[k])) = 0
  BY <1>1 DEF Level
<1> QED BY <1>2, <1>3, <1>4, Zenon DEF SplitsAtOuterCommas, Subst!SplitsAtOuterCommas

\* The arguments of any call without quotes are what its commas outside
\* brackets separate (the first loop of substitute_def_expression).
THEOREM ArgumentsAtCommas == Subst!Spec => []SplitsAtOuterCommas
<1>1. Subst!Init => SplitCall
  BY SubstitutionAssumption DEF Subst!Init, SplitCall
<1>2. SplitCall /\ [Subst!Next]_(Subst!vars) => SplitCall'
  <2> SUFFICES ASSUME SplitCall, [Subst!Next]_(Subst!vars) PROVE SplitCall'
    OBVIOUS
  <2>1. call' = call /\ args' = args
    BY DEF Subst!Next, Subst!vars
  <2> QED BY <2>1 DEF SplitCall
<1>3. SplitCall => SplitsAtOuterCommas
  BY SplitIsOuter
<1> QED BY <1>1, <1>2, <1>3, PTL DEF Subst!Spec
=============================================================================
