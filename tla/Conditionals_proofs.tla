------------------------ MODULE Conditionals_proofs ------------------------
(***************************************************************************)
(* Proofs about Conditionals for every nesting limit, every set of headers *)
(* and any bound on #elif.  The argument: entry is the running sum of the  *)
(* counts of the open sections (Ledger), so that #endif takes off exactly  *)
(* what its section put on; in well-formed files no count is negative      *)
(* (Counts), so that the sum is zero only when every count is (Silent).    *)
(* A file is entered in live text and leaves the sections around it alone  *)
(* (Entered), so its end is in live text too, and the mode of the machine  *)
(* follows the counter.                                                    *)
(***************************************************************************)
EXTENDS Conditionals, FiniteSetTheorems, TLAPS

Ledger ==
    /\ indirection \in Slots =>
          shadow_count = entry[indirection] + shadow_state[indirection].count
    /\ \A i \in Slots : i < indirection =>
          entry[i + 1] = entry[i] + shadow_state[i].count

Counts ==
    /\ indirection >= -1
    /\ entry[-1] = 0 /\ shadow_state[-1].count = 0
    /\ \A i \in DOMAIN files : files[i].base >= -1
    /\ \A i \in Open :
          /\ shadow_state[i].count >= 0
          /\ entry[i] >= 0
          /\ shadow_state[i].disabled /\ ~else_read[i] => shadow_state[i].count >= 1

Silent ==
    \A i \in Open : entry[i] = 0 <=>
        \A j \in Open : j < i => shadow_state[j].count = 0

LEMMA Updated ==
    ASSUME NEW S, NEW T, NEW f \in [S -> T], NEW i, NEW v \in T
    PROVE  [f EXCEPT ![i] = v] \in [S -> T]
OBVIOUS

LEMMA FrontTyped ==
    ASSUME NEW S, NEW s \in Seq(S), s # <<>>
    PROVE  Front(s) \in Seq(S)
BY DEF Front

LEMMA LastTyped ==
    ASSUME NEW S, NEW s \in Seq(S), s # <<>>
    PROVE  Len(s) \in DOMAIN s /\ s[Len(s)] \in S
OBVIOUS

LEMMA ElementTyped ==
    ASSUME NEW S, NEW s \in Seq(S), NEW i \in DOMAIN s
    PROVE  s[i] \in S
OBVIOUS

LEMMA AppendTyped ==
    ASSUME NEW S, NEW s \in Seq(S), NEW e \in S
    PROVE  Append(s, e) \in Seq(S)
OBVIOUS

LEMMA InitTyped == Init => TypeOK
<1> SUFFICES ASSUME Init PROVE CondTypeOK /\ IoTypeOK /\ FlowTypeOK
  BY DEF TypeOK
<1>1. /\ indirection \in {-2} \union Slots
      /\ shadow_state \in [Slots -> [disabled : BOOLEAN, count : -MaxElif .. MaxElif]]
  BY NestingAssumption, ElifAssumption DEF Init, Slots, Taken, Frame
<1>2. CondTypeOK
  BY <1>1 DEF Init, CondTypeOK
<1>3. IoTypeOK
  BY DEF Init, IoTypeOK
<1>4. FlowTypeOK
  BY DEF Init, FlowTypeOK
<1> QED
  BY <1>2, <1>3, <1>4

LEMMA ReturnTyped ==
    ASSUME FlowTypeOK, NEW status \in Int,
           NEW kind \in {"if", "elif", "ifdef", "else", "endif", "plain", "error",
                        "unknown", "include"},
           Return(status, kind)
    PROVE  FlowTypeOK'
<1>1. stopped' \in BOOLEAN
  BY DEF Return
<1>2. global_state' \in {"gs_expression", "gs_skip_preprocessor"}
  BY DEF FlowTypeOK, Return
<1>3. directive' \in {"if", "elif", "ifdef", "else", "endif", "plain", "error",
                      "unknown", "include"}
  BY DEF Return
<1>4. passed' \in BOOLEAN
  BY DEF Return
<1> QED
  BY <1>1, <1>2, <1>3, <1>4 DEF FlowTypeOK

LEMMA PushTyped ==
    ASSUME CondTypeOK, NEW g \in {Taken, Skipped}, Push(g)
    PROVE  CondTypeOK'
<1> USE NestingAssumption, ElifAssumption
<1>1. indirection' \in Slots /\ shadow_count' \in Int
  BY DEF CondTypeOK, Push, Slots, Taken, Skipped, Frame
<1>2. g \in [disabled : BOOLEAN, count : -MaxElif .. MaxElif]
  <2>1. Taken \in [disabled : BOOLEAN, count : -MaxElif .. MaxElif]
    BY DEF Taken, Frame
  <2>2. Skipped \in [disabled : BOOLEAN, count : -MaxElif .. MaxElif]
    BY DEF Skipped, Frame
  <2> QED
    BY <2>1, <2>2
<1>3. /\ shadow_state' \in [Slots -> [disabled : BOOLEAN, count : -MaxElif .. MaxElif]]
      /\ entry' \in [Slots -> Int]
      /\ else_read' \in [Slots -> BOOLEAN]
  BY <1>2, Updated DEF CondTypeOK, Push
<1> QED
  BY <1>1, <1>3 DEF CondTypeOK

LEMMA NextGroupTyped ==
    ASSUME CondTypeOK, NEW dis \in BOOLEAN, NEW n, NextGroup(dis, n),
           else_read' \in [Slots -> BOOLEAN]
    PROVE  CondTypeOK' /\ indirection \in Slots
<1> USE ElifAssumption
<1>1. indirection \in Slots
  BY DEF NextGroup, InSection
<1>2. n \in Int /\ Cur.count \in Int
  BY <1>1 DEF CondTypeOK, NextGroup, Cur
<1>3. Frame(dis, n) \in [disabled : BOOLEAN, count : -MaxElif .. MaxElif]
  BY DEF NextGroup, Frame
<1>4. shadow_state' \in [Slots -> [disabled : BOOLEAN, count : -MaxElif .. MaxElif]]
  BY <1>3, Updated DEF CondTypeOK, NextGroup
<1>5. shadow_count' \in Int /\ UNCHANGED <<indirection, entry>>
  BY <1>2 DEF CondTypeOK, NextGroup
<1> QED
  BY <1>1, <1>4, <1>5 DEF CondTypeOK

\* The variables keep their types, whatever directives are read.
THEOREM TypeCorrect == Spec => []TypeOK
<1> USE NestingAssumption, ElifAssumption
<1>1. TypeOK /\ [Next]_vars => TypeOK'
  <2> SUFFICES ASSUME TypeOK, [Next]_vars PROVE CondTypeOK' /\ IoTypeOK' /\ FlowTypeOK'
    BY DEF TypeOK
  <2>0. CondTypeOK /\ IoTypeOK /\ FlowTypeOK
    BY DEF TypeOK
  <2>1. /\ UNCHANGED cond => CondTypeOK'
        /\ UNCHANGED io => IoTypeOK'
    BY <2>0 DEF CondTypeOK, IoTypeOK, cond, io
  <2>2. \A shadow : Resume(shadow) \in Int
    BY DEF Resume
  <2>3. ASSUME NEW v \in Values, If(v) PROVE CondTypeOK' /\ IoTypeOK' /\ FlowTypeOK'
    BY <2>3, <2>0, <2>1, PushTyped, ReturnTyped DEF If, Values
  <2>4. ASSUME NEW hit \in BOOLEAN, Ifdef(hit) PROVE CondTypeOK' /\ IoTypeOK' /\ FlowTypeOK'
    BY <2>4, <2>0, <2>1, <2>2, PushTyped, ReturnTyped DEF Ifdef
  <2>5. ASSUME NEW v \in Values, Elif(v) PROVE CondTypeOK' /\ IoTypeOK' /\ FlowTypeOK'
    <3>1. else_read' \in [Slots -> BOOLEAN] /\ UNCHANGED io
      BY <2>5, <2>0 DEF Elif, NextGroup, CondTypeOK, io
    <3>2. CondTypeOK'
      BY <2>5, <2>0, <3>1, NextGroupTyped DEF Elif
    <3> QED
      BY <2>5, <2>0, <2>1, <2>2, <3>1, <3>2, ReturnTyped DEF Elif
  <2>6. CASE Else
    <3>1. else_read' \in [Slots -> BOOLEAN] /\ UNCHANGED io /\ Cur.disabled \in BOOLEAN
      BY <2>6, <2>0 DEF Else, NextGroup, InSection, CondTypeOK, Cur, io
    <3>2. CondTypeOK'
      BY <2>6, <2>0, <3>1, NextGroupTyped DEF Else
    <3> QED
      BY <2>6, <2>0, <2>1, <2>2, <3>1, <3>2, ReturnTyped DEF Else
  <2>7. CASE Endif
    <3>1. indirection \in Slots /\ UNCHANGED io
      BY <2>7 DEF Endif, InSection, io
    <3>2. indirection' \in {-2} \union Slots
      BY <2>7, <3>1 DEF Endif, Slots
    <3>3. shadow_count' \in Int
      BY <2>7, <2>0, <3>1 DEF Endif, CondTypeOK, Cur
    <3>4. CondTypeOK'
      BY <2>7, <2>0, <3>2, <3>3, Updated DEF Endif, CondTypeOK
    <3> QED
      BY <2>7, <2>0, <2>1, <2>2, <3>1, <3>4, ReturnTyped DEF Endif
  <2>8. ASSUME NEW p \in Paths, Include(p) PROVE CondTypeOK' /\ IoTypeOK' /\ FlowTypeOK'
    <3>1. FlowTypeOK' /\ CondTypeOK'
      BY <2>8, <2>0, <2>1, ReturnTyped DEF Include
    <3>2. [name |-> p, base |-> indirection] \in [name : Paths, base : {-2} \union Slots]
      BY <2>0 DEF CondTypeOK
    <3>3. IoTypeOK'
      <4>1. CASE UNCHANGED io
        BY <4>1, <2>1
      <4>2. CASE Nest(p)
        BY <4>2, <2>0, <3>2, AppendTyped DEF Nest, IoTypeOK
      <4> QED
        BY <4>1, <4>2, <2>8 DEF Include
    <3> QED
      BY <3>1, <3>3
  <2>9. CASE EndOfFile
    <3>1. files # <<>> /\ files' = Front(files) /\ UNCHANGED <<cond, included>>
      BY <2>9 DEF EndOfFile
    <3>2. IoTypeOK'
      BY <2>0, <3>1, FrontTyped DEF IoTypeOK
    <3>3. FlowTypeOK'
      <4>1. CASE Return(1, "include")
        BY <4>1, <2>0, ReturnTyped
      <4>2. CASE stopped' = TRUE /\ UNCHANGED <<global_state, directive, passed>>
        BY <4>2, <2>0 DEF FlowTypeOK
      <4> QED
        BY <4>1, <4>2, <2>9 DEF EndOfFile
    <3> QED
      BY <2>1, <3>1, <3>2, <3>3
  <2>10. ASSUME NEW status \in {-942, 1}, Plain(status)
         PROVE  CondTypeOK' /\ IoTypeOK' /\ FlowTypeOK'
    BY <2>10, <2>0, <2>1, ReturnTyped DEF Plain
  <2>11. CASE Error \/ Unknown \/ MissingInclude
    BY <2>11, <2>0, <2>1, ReturnTyped DEF Error, Unknown, MissingInclude
  <2>12. CASE Throw \/ \E after_comment \in BOOLEAN : Text(after_comment)
    <3>1. UNCHANGED cond /\ UNCHANGED io
      BY <2>12 DEF Throw, Text
    <3>2. FlowTypeOK'
      BY <2>12, <2>0 DEF Throw, Text, FlowTypeOK
    <3> QED
      BY <2>1, <3>1, <3>2
  <2>13. CASE UNCHANGED vars
    BY <2>13, <2>0, <2>1 DEF vars, FlowTypeOK
  <2> QED
    BY <2>3, <2>4, <2>5, <2>6, <2>7, <2>8, <2>9, <2>10, <2>11, <2>12, <2>13 DEF Next
<1> QED
  BY InitTyped, <1>1, PTL DEF Spec

-----------------------------------------------------------------------------
LEMMA InitLedger == Init => Ledger
BY NestingAssumption DEF Init, Ledger, Slots, Taken, Frame

LEMMA PushLedger ==
    ASSUME CondTypeOK, Ledger, NEW g \in {Taken, Skipped}, Push(g)
    PROVE  Ledger'
<1>1. indirection' = indirection + 1 /\ indirection' \in Slots
  BY NestingAssumption DEF CondTypeOK, Push, Slots
<1>2. /\ shadow_state'[indirection'] = g
      /\ entry'[indirection'] = shadow_count
      /\ shadow_count' = shadow_count + g.count
  BY <1>1 DEF CondTypeOK, Push
<1>3. ASSUME NEW i \in Slots, i < indirection'
      PROVE  entry'[i + 1] = entry'[i] + shadow_state'[i].count
  <2>1. i <= indirection /\ i # indirection'
    BY <1>1, <1>3 DEF CondTypeOK, Slots
  <2>2. entry'[i] = entry[i] /\ shadow_state'[i] = shadow_state[i]
    BY <1>1, <2>1 DEF CondTypeOK, Push
  <2>3. CASE i = indirection
    BY <1>1, <1>2, <2>2, <2>3 DEF Ledger
  <2>4. CASE i < indirection
    <3>1. i + 1 \in Slots /\ i + 1 # indirection'
      BY <1>1, <2>4, NestingAssumption DEF CondTypeOK, Slots
    <3>2. entry'[i + 1] = entry[i + 1]
      BY <1>1, <3>1 DEF CondTypeOK, Push
    <3> QED
      BY <2>2, <2>4, <3>2 DEF Ledger
  <2> QED
    BY <2>1, <2>3, <2>4 DEF CondTypeOK, Slots
<1> QED
  BY <1>1, <1>2, <1>3 DEF Ledger

LEMMA NextGroupLedger ==
    ASSUME CondTypeOK, Ledger, NEW dis, NEW n, NextGroup(dis, n)
    PROVE  Ledger'
<1>1. indirection \in Slots /\ UNCHANGED <<indirection, entry>>
  BY DEF NextGroup, InSection
<1>2. n \in Int /\ shadow_state[indirection].count \in Int
  BY <1>1 DEF CondTypeOK, NextGroup
<1>3. /\ shadow_state'[indirection].count = n
      /\ \A i \in Slots : i # indirection => shadow_state'[i] = shadow_state[i]
  BY <1>1 DEF CondTypeOK, NextGroup, Frame
<1>4. shadow_count' = shadow_count + (n - shadow_state[indirection].count)
  BY DEF NextGroup, Cur
<1>5. entry[indirection] \in Int
  BY <1>1 DEF CondTypeOK
<1>6. shadow_count' = entry'[indirection] + n
  BY <1>1, <1>2, <1>4, <1>5 DEF Ledger
<1> QED
  BY <1>1, <1>3, <1>6 DEF Ledger, Slots

LEMMA EndifLedger ==
    ASSUME CondTypeOK, Ledger, Endif
    PROVE  Ledger' /\ shadow_count' = entry[indirection]
<1>1. /\ indirection \in Slots
      /\ indirection' = indirection - 1
      /\ UNCHANGED shadow_state
      /\ \A i \in Slots : i # indirection => entry'[i] = entry[i]
  BY DEF Endif, InSection, CondTypeOK
<1>2. shadow_state[indirection].count \in Int /\ entry[indirection] \in Int
  BY <1>1 DEF CondTypeOK
<1>3. shadow_count' = entry[indirection]
  BY <1>1, <1>2 DEF Endif, Cur, Ledger
<1>4. ASSUME indirection' \in Slots
      PROVE  shadow_count' = entry'[indirection'] + shadow_state'[indirection'].count
  <2>1. /\ indirection' < indirection
        /\ indirection' + 1 = indirection
    BY <1>1 DEF Slots
  <2>2. entry[indirection' + 1] = entry[indirection'] + shadow_state[indirection'].count
    BY <1>4, <2>1 DEF Ledger
  <2>3. indirection' # indirection
    BY <1>1 DEF Slots
  <2> QED
    BY <1>1, <1>3, <1>4, <2>1, <2>2, <2>3
<1>5. ASSUME NEW i \in Slots, i < indirection'
      PROVE  entry'[i + 1] = entry'[i] + shadow_state'[i].count
  <2>1. /\ i < indirection /\ i # indirection
        /\ i + 1 \in Slots /\ i + 1 # indirection
    BY <1>1, <1>5, NestingAssumption DEF Slots
  <2> QED
    BY <1>1, <2>1 DEF Ledger
<1> QED
  BY <1>3, <1>4, <1>5 DEF Ledger

\* Every step but #endif keeps the nesting level or raises it.
LEMMA StepLedger ==
    ASSUME CondTypeOK, Ledger, [Next]_vars
    PROVE  Ledger' /\ (indirection' < indirection => shadow_count' = entry[indirection])
<1>0. indirection \in Int
  BY DEF CondTypeOK, Slots
<1>1. ASSUME NEW g \in {Taken, Skipped}, Push(g)
      PROVE  Ledger' /\ ~(indirection' < indirection)
  <2>1. Ledger'
    BY <1>1, PushLedger
  <2> QED
    BY <1>0, <1>1, <2>1 DEF Push
<1>2. ASSUME NEW dis, NEW n, NextGroup(dis, n)
      PROVE  Ledger' /\ ~(indirection' < indirection)
  <2>1. Ledger'
    BY <1>2, NextGroupLedger
  <2> QED
    BY <1>0, <1>2, <2>1 DEF NextGroup
<1>3. ASSUME UNCHANGED cond
      PROVE  Ledger' /\ ~(indirection' < indirection)
  BY <1>0, <1>3 DEF cond, Ledger
<1>4. CASE \/ \E v \in Values : If(v) \/ Elif(v)
           \/ \E hit \in BOOLEAN : Ifdef(hit)
           \/ Else
  BY <1>4, <1>1, <1>2 DEF If, Elif, Ifdef, Else
<1>5. CASE Endif
  BY <1>5, EndifLedger
<1>6. ASSUME \/ \E status \in {-942, 1} : Plain(status)
             \/ Error \/ Unknown \/ Throw \/ MissingInclude \/ EndOfFile
             \/ \E p \in Paths : Include(p)
             \/ \E after_comment \in BOOLEAN : Text(after_comment)
             \/ UNCHANGED vars
      PROVE  UNCHANGED cond
  BY <1>6 DEF Plain, Error, Unknown, Throw, MissingInclude, EndOfFile, Include, Text, vars
<1> QED
  BY <1>3, <1>4, <1>5, <1>6 DEF Next

\* In any sequence of directives, well-formed or not, #endif gives
\* shadow_count the value it had when its section was opened.
THEOREM EndifRestoration == Spec => EndifRestores
<1>1. TypeOK /\ Ledger /\ [Next]_vars => Ledger'
  BY StepLedger DEF TypeOK
<1>2. TypeOK /\ Ledger /\ [Next]_vars =>
        [indirection' < indirection => shadow_count' = entry[indirection]]_vars
  BY StepLedger DEF TypeOK
<1> QED
  BY <1>1, <1>2, InitLedger, TypeCorrect, PTL DEF Spec, EndifRestores

-----------------------------------------------------------------------------
LEMMA InitCounts == Init => Counts /\ Silent
BY NestingAssumption DEF Init, Counts, Silent, Open, Slots, Taken, Frame

\* The section in which a directive of a well-formed file is read is not the
\* padding before shadow_state.
LEMMA SectionIsReal ==
    ASSUME WellFormed, IoTypeOK, Counts, InSection
    PROVE  indirection \in Slots /\ indirection >= 0
<1>1. Base >= -1 /\ Base \in Int
  <2>1. CASE files = <<>>
    BY <2>1 DEF Base
  <2>2. CASE files # <<>>
    <3>1. Len(files) \in DOMAIN files /\ Base = files[Len(files)].base
      BY <2>2, LastTyped DEF Base, Last, IoTypeOK
    <3>2. files[Len(files)] \in [name : Paths, base : {-2} \union Slots]
      BY <2>2, LastTyped DEF IoTypeOK
    <3> QED
      BY <3>1, <3>2 DEF Counts, Slots
  <2> QED
    BY <2>1, <2>2
<1> QED
  BY <1>1 DEF InSection, Slots

LEMMA PushCounts ==
    ASSUME CondTypeOK, Ledger, Counts, Silent, NEW g \in {Taken, Skipped}, Push(g), UNCHANGED io
    PROVE  Counts' /\ Silent'
<1>1. /\ indirection \in Slots
      /\ indirection' = indirection + 1
      /\ indirection' \in Slots /\ indirection' \in Nat
  BY NestingAssumption DEF CondTypeOK, Counts, Push, Slots
<1>2. /\ shadow_state'[indirection'] = g
      /\ entry'[indirection'] = shadow_count
      /\ shadow_count = entry[indirection] + shadow_state[indirection].count
  BY <1>1 DEF CondTypeOK, Push, Ledger
<1>3. ASSUME NEW i \in Slots, i # indirection'
      PROVE  /\ shadow_state'[i] = shadow_state[i]
             /\ entry'[i] = entry[i]
             /\ else_read'[i] = else_read[i]
  BY <1>1, <1>3 DEF CondTypeOK, Push
<1>4. Open' = Open \union {indirection'} /\ indirection \in Open /\ indirection' \notin Open
  BY <1>1 DEF Open, Slots
<1>5. \A i \in Open : i \in Slots /\ i # indirection' /\ i < indirection'
  BY <1>1 DEF Open, Slots
<1>6. /\ entry[indirection] \in Int /\ shadow_state[indirection].count \in Int
      /\ entry[indirection] >= 0 /\ shadow_state[indirection].count >= 0
  <2>1. entry[indirection] \in Int /\ shadow_state[indirection].count \in Int
    BY <1>1 DEF CondTypeOK
  <2> QED
    BY <1>4, <2>1 DEF Counts
<1>7. shadow_count = 0 <=> \A j \in Open : shadow_state[j].count = 0
  <2>1. shadow_count = 0 <=> entry[indirection] = 0 /\ shadow_state[indirection].count = 0
    BY <1>2, <1>6
  <2>2. \A j \in Open : j < indirection \/ j = indirection
    BY <1>1 DEF Open, Slots
  <2> QED
    BY <1>4, <2>1, <2>2 DEF Silent
<1>8. Counts'
  <2>1. -1 \in Slots /\ -1 # indirection'
    BY <1>1, NestingAssumption DEF Slots
  <2>2. entry'[-1] = 0 /\ shadow_state'[-1].count = 0
    BY <1>3, <2>1 DEF Counts
  <2>3. ASSUME NEW i \in Open'
        PROVE  /\ shadow_state'[i].count >= 0
               /\ entry'[i] >= 0
               /\ shadow_state'[i].disabled /\ ~else_read'[i] => shadow_state'[i].count >= 1
    <3>1. CASE i = indirection'
      <4>1. entry'[i] >= 0
        BY <1>2, <1>6, <3>1
      <4>2. g.count >= 0 /\ (g.disabled => g.count >= 1)
        BY DEF Taken, Skipped, Frame
      <4> QED
        BY <1>2, <3>1, <4>1, <4>2
    <3>2. CASE i \in Open
      BY <1>3, <1>5, <3>2 DEF Counts
    <3> QED
      BY <1>4, <3>1, <3>2
  <2>4. indirection' >= -1 /\ \A i \in DOMAIN files' : files'[i].base >= -1
    BY <1>1 DEF Counts, io
  <2> QED
    BY <2>2, <2>3, <2>4 DEF Counts
<1>9. ASSUME NEW i \in Open'
      PROVE  entry'[i] = 0 <=> \A j \in Open' : j < i => shadow_state'[j].count = 0
  <2>1. CASE i = indirection'
    BY <1>1, <1>2, <1>3, <1>4, <1>5, <1>7, <2>1
  <2>2. CASE i \in Open
    <3>1. ~(indirection' < i) /\ entry'[i] = entry[i]
      BY <1>1, <1>3, <1>5, <2>2 DEF Slots
    <3>2. \A j \in Open : shadow_state'[j] = shadow_state[j]
      BY <1>3, <1>5
    <3> QED
      BY <1>4, <3>1, <3>2, <2>2 DEF Silent
  <2> QED
    BY <1>4, <2>1, <2>2
<1> QED
  BY <1>8, <1>9 DEF Silent

LEMMA NextGroupCounts ==
    ASSUME WellFormed, CondTypeOK, IoTypeOK, Counts, Silent,
           NEW dis \in BOOLEAN, NEW n \in Nat, NextGroup(dis, n),
           else_read' \in [Slots -> BOOLEAN],
           \A i \in Slots : i # indirection => else_read'[i] = else_read[i],
           dis /\ ~else_read'[indirection] => n >= 1
    PROVE  Counts' /\ Silent'
<1>1. indirection \in Slots /\ indirection >= 0
  BY SectionIsReal DEF NextGroup
<1>2. /\ shadow_state'[indirection] = Frame(dis, n)
      /\ \A i \in Slots : i # indirection => shadow_state'[i] = shadow_state[i]
      /\ UNCHANGED <<indirection, entry, files>>
  BY <1>1 DEF CondTypeOK, NextGroup, io
<1>3. shadow_state'[indirection].disabled = dis /\ shadow_state'[indirection].count = n
  BY <1>2 DEF Frame
<1>4. Open' = Open /\ \A i \in Open : i \in Slots /\ (i = indirection \/ i < indirection)
  BY <1>1, <1>2 DEF Open, Slots
<1>5. -1 \in Slots /\ -1 # indirection
  BY <1>1, NestingAssumption DEF Slots
<1>6. ASSUME NEW i \in Open'
      PROVE  /\ shadow_state'[i].count >= 0
             /\ entry'[i] >= 0
             /\ shadow_state'[i].disabled /\ ~else_read'[i] => shadow_state'[i].count >= 1
  <2>1. CASE i = indirection
    BY <1>2, <1>3, <1>4, <2>1 DEF Counts
  <2>2. CASE i # indirection
    BY <1>2, <1>4, <2>2 DEF Counts
  <2> QED
    BY <2>1, <2>2
<1>7. Counts'
  BY <1>1, <1>2, <1>5, <1>6 DEF Counts
<1>8. \A i, j \in Open : j < i => shadow_state'[j] = shadow_state[j]
  BY <1>1, <1>2, <1>4 DEF Slots
<1> QED
  BY <1>2, <1>4, <1>7, <1>8 DEF Silent

LEMMA EndifCounts ==
    ASSUME WellFormed, CondTypeOK, IoTypeOK, Counts, Silent, Endif
    PROVE  Counts' /\ Silent'
<1>1. indirection \in Slots /\ indirection >= 0
  BY SectionIsReal DEF Endif
<1>2. /\ UNCHANGED <<shadow_state, files>>
      /\ indirection' = indirection - 1
      /\ \A i \in Slots : i # indirection => entry'[i] = entry[i] /\ else_read'[i] = else_read[i]
  BY DEF Endif, CondTypeOK, io
<1>3. Open' = Open \ {indirection} /\ Open \subseteq Slots
  BY <1>1, <1>2 DEF Open, Slots
<1>4. -1 \in Slots /\ -1 # indirection
  BY <1>1, NestingAssumption DEF Slots
<1>5. \A i \in Open' : ~(indirection < i)
  BY <1>1, <1>3 DEF Open, Slots
<1>6. Counts'
  <2>1. entry'[-1] = 0 /\ shadow_state'[-1].count = 0
    BY <1>2, <1>4 DEF Counts
  <2>2. ASSUME NEW i \in Open'
        PROVE  /\ shadow_state'[i].count >= 0
               /\ entry'[i] >= 0
               /\ shadow_state'[i].disabled /\ ~else_read'[i] => shadow_state'[i].count >= 1
    <3>1. i \in Open /\ i \in Slots /\ i # indirection
      BY <1>3
    <3>2. entry'[i] = entry[i] /\ else_read'[i] = else_read[i] /\ shadow_state'[i] = shadow_state[i]
      BY <1>2, <3>1
    <3> QED
      BY <3>1, <3>2 DEF Counts
  <2>3. indirection' >= -1 /\ \A i \in DOMAIN files' : files'[i].base >= -1
    BY <1>1, <1>2 DEF Counts, Slots
  <2> QED
    BY <2>1, <2>2, <2>3 DEF Counts
<1>7. ASSUME NEW i \in Open'
      PROVE  entry'[i] = 0 <=> \A j \in Open' : j < i => shadow_state'[j].count = 0
  BY <1>2, <1>3, <1>5 DEF Silent
<1> QED
  BY <1>6, <1>7 DEF Silent

\* What #else and #elif make of the section's frame in a well-formed file.
LEMMA ToggledFrame ==
    ASSUME WellFormed, CondTypeOK, IoTypeOK, Counts, InSection, ~else_read[indirection]
    PROVE  /\ indirection \in Slots /\ indirection \in Open /\ indirection >= 0
           /\ Cur.count \in Nat /\ Cur.disabled \in BOOLEAN
           /\ Cur.disabled => Cur.count >= 1
           /\ Toggled \in Nat
<1>1. indirection \in Slots /\ indirection >= 0
  BY SectionIsReal
<1>2. indirection \in Open
  BY <1>1 DEF Open, Slots
<1>3. Cur.count \in Int /\ Cur.disabled \in BOOLEAN
  BY <1>1 DEF CondTypeOK, Cur
<1>4. Cur.count >= 0 /\ (Cur.disabled => Cur.count >= 1)
  BY <1>2 DEF Counts, Cur
<1>5. Toggled \in Nat
  BY <1>3, <1>4 DEF Toggled
<1> QED
  BY <1>1, <1>2, <1>3, <1>4, <1>5

LEMMA ElseCounts ==
    ASSUME WellFormed, CondTypeOK, IoTypeOK, Counts, Silent, Else
    PROVE  Counts' /\ Silent'
<1>1. InSection /\ ~else_read[indirection] /\ NextGroup(Cur.disabled, Toggled)
  BY DEF Else, NextGroup
<1>2. indirection \in Slots /\ Cur.disabled \in BOOLEAN /\ Toggled \in Nat
  BY <1>1, ToggledFrame
<1>3. /\ else_read' \in [Slots -> BOOLEAN]
      /\ else_read'[indirection]
      /\ \A i \in Slots : i # indirection => else_read'[i] = else_read[i]
  BY <1>2 DEF Else, CondTypeOK
<1> QED
  BY <1>1, <1>2, <1>3, NextGroupCounts

LEMMA ElifCounts ==
    ASSUME WellFormed, CondTypeOK, IoTypeOK, Counts, Silent, NEW v \in Values, Elif(v)
    PROVE  Counts' /\ Silent'
<1> DEFINE n == IF v = 0 THEN Toggled + 1 ELSE Toggled
<1>1. InSection /\ ~else_read[indirection] /\ NextGroup(v = 0, n)
  BY DEF Elif, NextGroup
<1>2. Toggled \in Nat
  BY <1>1, ToggledFrame
<1>3. n \in Nat /\ (v = 0 => n >= 1)
  BY <1>2
<1>4. else_read' \in [Slots -> BOOLEAN] /\ else_read' = else_read
  BY DEF Elif, CondTypeOK
<1> HIDE DEF n
<1> QED
  BY <1>1, <1>3, <1>4, NextGroupCounts

LEMMA StepCounts ==
    ASSUME WellFormed, TypeOK, Ledger, Counts, Silent, [Next]_vars
    PROVE  Counts' /\ Silent'
<1>0. CondTypeOK /\ IoTypeOK
  BY DEF TypeOK
<1>1. CASE \/ \E v \in Values : If(v)
           \/ \E hit \in BOOLEAN : Ifdef(hit)
  <2>1. \E g \in {Taken, Skipped} : Push(g) /\ UNCHANGED io
    BY <1>1 DEF If, Ifdef
  <2> QED
    BY <1>0, <2>1, PushCounts
<1>2. CASE Else
  BY <1>0, <1>2, ElseCounts
<1>3. ASSUME NEW v \in Values, Elif(v) PROVE Counts' /\ Silent'
  BY <1>0, <1>3, ElifCounts
<1>4. CASE Endif
  BY <1>0, <1>4, EndifCounts
<1>5. ASSUME UNCHANGED cond, \A i \in DOMAIN files' : files'[i].base >= -1
      PROVE  Counts' /\ Silent'
  BY <1>5 DEF cond, Counts, Silent, Open
<1>6. ASSUME UNCHANGED cond, UNCHANGED io PROVE Counts' /\ Silent'
  <2>1. \A i \in DOMAIN files' : files'[i].base >= -1
    BY <1>6 DEF io, Counts
  <2> QED
    BY <1>5, <1>6, <2>1
<1>7. ASSUME NEW p \in Paths, Include(p) PROVE Counts' /\ Silent'
  <2>1. UNCHANGED cond
    BY <1>7 DEF Include
  <2>2. CASE UNCHANGED io
    BY <1>6, <2>1, <2>2
  <2>3. CASE Nest(p)
    <3>1. \A i \in DOMAIN files' : files'[i].base >= -1
      <4>1. \A i \in DOMAIN files' :
                \/ i \in DOMAIN files /\ files'[i] = files[i]
                \/ files'[i].base = indirection
        BY <1>0, <2>3 DEF Nest, IoTypeOK
      <4> QED
        BY <4>1 DEF Counts
    <3> QED
      BY <1>5, <2>1, <3>1
  <2> QED
    BY <1>7, <2>2, <2>3 DEF Include
<1>8. CASE EndOfFile
  <2>1. UNCHANGED cond /\ files' = Front(files) /\ files # <<>>
    BY <1>8 DEF EndOfFile
  <2>2. \A i \in DOMAIN files' : i \in DOMAIN files /\ files'[i] = files[i]
    BY <1>0, <2>1 DEF IoTypeOK, Front
  <2> QED
    BY <1>5, <2>1, <2>2 DEF Counts
<1>9. CASE \/ \E status \in {-942, 1} : Plain(status)
           \/ Error \/ Unknown \/ Throw \/ MissingInclude
           \/ \E after_comment \in BOOLEAN : Text(after_comment)
           \/ UNCHANGED vars
  <2>1. UNCHANGED cond /\ UNCHANGED io
    BY <1>9 DEF Plain, Error, Unknown, Throw, MissingInclude, Text, vars
  <2> QED
    BY <1>6, <2>1
<1> QED
  BY <1>1, <1>2, <1>3, <1>4, <1>7, <1>8, <1>9 DEF Next

IInv == TypeOK /\ Ledger /\ Counts /\ Silent

LEMMA InductiveInvariant == WellFormed /\ Spec => []IInv
<1>1. Init => IInv
  BY InitTyped, InitLedger, InitCounts DEF IInv
<1>2. WellFormed /\ IInv /\ TypeOK' /\ [Next]_vars => IInv'
  BY StepLedger, StepCounts DEF IInv, TypeOK
<1>3. Spec => []TypeOK
  BY TypeCorrect
<1> QED
  <2>1. CASE WellFormed
    BY <1>1, <1>2, <1>3, <2>1, PTL DEF Spec
  <2>2. CASE ~WellFormed
    BY <2>2
  <2> QED
    BY <2>1, <2>2

LEMMA SkippingExact == IInv => SkippedIffInSkippedGroup
<1> SUFFICES ASSUME IInv PROVE SkippedIffInSkippedGroup
  OBVIOUS
<1>1. indirection \in Slots /\ indirection \in Open
  BY NestingAssumption DEF IInv, TypeOK, CondTypeOK, Counts, Slots, Open
<1>2. entry[indirection] \in Int /\ shadow_state[indirection].count \in Int
  BY <1>1 DEF IInv, TypeOK, CondTypeOK
<1>3. shadow_count # 0 <=> entry[indirection] # 0 \/ shadow_state[indirection].count # 0
  BY <1>1, <1>2 DEF IInv, Ledger, Counts
<1>4. \A i \in Open : i < indirection \/ i = indirection
  BY <1>1 DEF Open, Slots
<1> QED
  BY <1>1, <1>3, <1>4 DEF IInv, Silent, SkippedIffInSkippedGroup, IsInativeCode

\* In a well-formed file, however deep its sections nest and however many
\* groups they have, text is skipped exactly when some open section is in a
\* group that is not its live one.
THEOREM SkippingIsExact == WellFormed /\ Spec => []SkippedIffInSkippedGroup
BY SkippingExact, InductiveInvariant, PTL

-----------------------------------------------------------------------------
Named == \A k \in DOMAIN files : files[k].name \in included

LEMMA IoSteps ==
    ASSUME [Next]_vars
    PROVE  \/ UNCHANGED io
           \/ \E p \in Paths : p \notin included /\ Nest(p)
           \/ files # <<>> /\ files' = Front(files) /\ UNCHANGED included
<1>1. CASE \/ \E v \in Values : If(v) \/ Elif(v)
           \/ \E hit \in BOOLEAN : Ifdef(hit)
           \/ Else \/ Endif
  BY <1>1 DEF If, Elif, Ifdef, Else, Endif, NextGroup, io
<1>2. CASE \/ \E status \in {-942, 1} : Plain(status)
           \/ Error \/ Unknown \/ Throw \/ MissingInclude
           \/ \E after_comment \in BOOLEAN : Text(after_comment)
           \/ UNCHANGED vars
  <2>1. UNCHANGED io
    BY <1>2 DEF Plain, Error, Unknown, Throw, MissingInclude, Text, vars
  <2> QED
    BY <2>1
<1>3. CASE \E p \in Paths : Include(p)
  <2>1. PICK p \in Paths : Include(p)
    BY <1>3
  <2>2. (p \notin included /\ Nest(p)) \/ UNCHANGED io
    BY <2>1 DEF Include
  <2> QED
    BY <2>2
<1>4. CASE EndOfFile
  BY <1>4 DEF EndOfFile
<1> QED
  BY <1>1, <1>2, <1>3, <1>4 DEF Next

LEMMA StepOnce ==
    ASSUME IoTypeOK, Named, NoNameOpenTwice, [Next]_vars
    PROVE  Named' /\ NoNameOpenTwice'
<1>1. CASE UNCHANGED io
  BY <1>1 DEF io, Named, NoNameOpenTwice
<1>2. ASSUME NEW p \in Paths, p \notin included, Nest(p)
      PROVE  Named' /\ NoNameOpenTwice'
  <2>1. /\ included' = included \union {p}
        /\ \A k \in DOMAIN files' :
              \/ k \in DOMAIN files /\ files'[k] = files[k]
              \/ k = Len(files) + 1 /\ files'[k].name = p
    BY <1>2 DEF Nest, IoTypeOK
  <2>2. \A k \in DOMAIN files : files[k].name # p
    BY <1>2 DEF Named
  <2>3. Named'
    BY <2>1 DEF Named
  <2>4. ASSUME NEW i \in DOMAIN files', NEW j \in DOMAIN files',
               files'[i].name = files'[j].name
        PROVE  i = j
    BY <2>1, <2>2, <2>4 DEF NoNameOpenTwice
  <2> QED
    BY <2>3, <2>4 DEF NoNameOpenTwice
<1>3. CASE files # <<>> /\ files' = Front(files) /\ UNCHANGED included
  <2>1. \A k \in DOMAIN files' : k \in DOMAIN files /\ files'[k] = files[k]
    BY <1>3 DEF IoTypeOK, Front
  <2> QED
    BY <1>3, <2>1 DEF Named, NoNameOpenTwice
<1> QED
  BY <1>1, <1>2, <1>3, IoSteps

\* As many names as directories, parts and headers make.
LEMMA NamesCounted ==
    ASSUME NEW n \in Nat
    PROVE  LET P == (Directories \X (0 .. n)) \X Headers
           IN  /\ IsFiniteSet(P)
               /\ Cardinality(P) = (Cardinality(Directories) * (n + 1)) * Cardinality(Headers)
<1>1. IsFiniteSet(Directories)
  BY FilesAssumption, FS_AddElement DEF Directories
<1>2. IsFiniteSet(0 .. n) /\ Cardinality(0 .. n) = n + 1
  BY FS_Interval
<1>3. /\ IsFiniteSet(Directories \X (0 .. n))
      /\ Cardinality(Directories \X (0 .. n)) = Cardinality(Directories) * (n + 1)
  BY <1>1, <1>2, FS_Product
<1> QED
  BY <1>3, FilesAssumption, FS_Product

\* Open files with different names are no more than there are names.
LEMMA NestingCounted ==
    ASSUME IoTypeOK, NoNameOpenTwice, NEW n \in Nat,
           \A i \in DOMAIN files : files[i].name.parts <= n
    PROVE  Len(files) <= (Cardinality(Directories) * (n + 1)) * Cardinality(Headers)
<1> DEFINE P == (Directories \X (0 .. n)) \X Headers
           Key(q) == <<<<q.dir, q.parts>>, q.file>>
           f == [i \in 1 .. Len(files) |-> Key(files[i].name)]
<1>1. Len(files) \in Nat /\ DOMAIN files = 1 .. Len(files)
  BY DEF IoTypeOK
<1>2. ASSUME NEW i \in 1 .. Len(files)
      PROVE  files[i].name \in Paths /\ files[i].name.parts <= n
  <2>1. i \in DOMAIN files
    BY <1>1
  <2>2. files[i] \in [name : Paths, base : {-2} \union Slots]
    BY <2>1, ElementTyped DEF IoTypeOK
  <2>3. files[i].name \in Paths
    BY <2>2
  <2>4. files[i].name.parts <= n
    BY <2>1
  <2> QED
    BY <2>3, <2>4
<1>3. ASSUME NEW i \in 1 .. Len(files) PROVE Key(files[i].name) \in P
  <2>1. /\ files[i].name.dir \in Directories
        /\ files[i].name.file \in Headers
        /\ files[i].name.parts \in 0 .. MaxParts
    BY <1>2, <1>3 DEF Paths
  <2>2. files[i].name.parts \in 0 .. n
    BY <1>2, <1>3, <2>1, PathAssumption
  <2> QED
    BY <2>1, <2>2
<1>4. ASSUME NEW q \in Paths, NEW r \in Paths, Key(q) = Key(r) PROVE q = r
  <2>1. q.dir = r.dir /\ q.parts = r.parts /\ q.file = r.file
    BY <1>4
  <2> QED
    BY <2>1 DEF Paths
<1>5. ASSUME NEW i \in 1 .. Len(files), NEW j \in 1 .. Len(files), f[i] = f[j]
      PROVE  i = j
  <2>1. Key(files[i].name) = Key(files[j].name)
    BY <1>5
  <2>2. files[i].name = files[j].name
    BY <1>2, <1>4, <2>1
  <2> QED
    BY <1>1, <2>2 DEF NoNameOpenTwice
<1>6. f \in [1 .. Len(files) -> P]
  BY <1>3
<1> HIDE DEF f, P, Key
<1>7. f \in Injection(1 .. Len(files), P)
  BY <1>5, <1>6 DEF Injection, IsInjective
<1>8. /\ IsFiniteSet(P)
      /\ Cardinality(P) = (Cardinality(Directories) * (n + 1)) * Cardinality(Headers)
  BY NamesCounted DEF P
<1>9. Cardinality(1 .. Len(files)) <= Cardinality(P)
  BY <1>7, <1>8, FS_Injection
<1>10. Cardinality(1 .. Len(files)) = Len(files)
  BY <1>1, FS_Interval
<1> QED
  BY <1>8, <1>9, <1>10

\* However headers include each other and spell the names, no name is open
\* twice: the names of the open files all stand in list_of_included_files.
\* So flows nest at most once for each name that is no longer than the longest
\* one, and a cycle of #include ends when its names stop growing.
THEOREM IncludesEndByName == Spec => []CyclesEndByName
<1>1. Init => Named /\ NoNameOpenTwice
  BY DEF Init, Named, NoNameOpenTwice
<1>2. TypeOK /\ Named /\ NoNameOpenTwice /\ [Next]_vars => Named' /\ NoNameOpenTwice'
  BY StepOnce DEF TypeOK
<1>3. TypeOK /\ NoNameOpenTwice => CyclesEndByName
  <2> SUFFICES ASSUME TypeOK, NoNameOpenTwice, NEW n \in 0 .. MaxParts,
                      \A i \in DOMAIN files : files[i].name.parts <= n
               PROVE  Len(files) <= (Cardinality(Directories) * (n + 1)) * Cardinality(Headers)
    BY DEF CyclesEndByName
  <2> QED
    BY NestingCounted, PathAssumption DEF TypeOK
<1> QED
  BY <1>1, <1>2, <1>3, TypeCorrect, PTL DEF Spec

-----------------------------------------------------------------------------
\* A file is entered in live text, and what was open then stays untouched
\* while it is read.
Entered ==
    /\ \A k, m \in DOMAIN files : k <= m => files[k].base <= files[m].base
    /\ \A k \in DOMAIN files :
          /\ files[k].base \in Int
          /\ files[k].base <= indirection
          /\ \A i \in Slots : i <= files[k].base => shadow_state[i].count = 0

\* The sections a well-formed file may touch are above every base.
LEMMA AboveBases ==
    ASSUME WellFormed, IoTypeOK, Entered, InSection
    PROVE  \A k \in DOMAIN files : files[k].base < indirection
<1> SUFFICES ASSUME NEW k \in DOMAIN files PROVE files[k].base < indirection
  OBVIOUS
<1>1. /\ files # <<>> /\ Len(files) \in DOMAIN files /\ k <= Len(files)
      /\ Base = files[Len(files)].base
  BY DEF IoTypeOK, Base, Last
<1>2. files[k].base <= Base /\ files[k].base \in Int /\ Base \in Int
  BY <1>1 DEF Entered
<1>3. Base < indirection /\ indirection \in Int
  BY DEF InSection, Slots
<1> QED
  BY <1>2, <1>3

LEMMA SectionsEntered ==
    ASSUME WellFormed, CondTypeOK, IoTypeOK, Counts, Entered, UNCHANGED io,
           \/ \E g \in {Taken, Skipped} : Push(g)
           \/ \E dis \in BOOLEAN : \E n \in Int : NextGroup(dis, n)
           \/ Endif
    PROVE  Entered'
<1>1. indirection \in Int /\ files' = files
  BY DEF CondTypeOK, Slots, io
<1>2. ASSUME NEW g \in {Taken, Skipped}, Push(g) PROVE Entered'
  <2>1. indirection' = indirection + 1
    BY <1>2 DEF Push
  <2>2. \A i \in Slots : i <= indirection => shadow_state'[i] = shadow_state[i]
    BY <1>1, <1>2 DEF Push, CondTypeOK, Slots
  <2>3. \A k \in DOMAIN files : \A i \in Slots : i <= files[k].base => i <= indirection
    BY <1>1 DEF Entered, Slots
  <2>4. \A k \in DOMAIN files : files[k].base <= indirection'
    BY <1>1, <2>1 DEF Entered
  <2> QED
    BY <1>1, <2>2, <2>3, <2>4 DEF Entered
<1>3. ASSUME NEW dis \in BOOLEAN, NEW n \in Int, NextGroup(dis, n) PROVE Entered'
  <2>1. indirection' = indirection /\ \A k \in DOMAIN files : files[k].base < indirection
    BY <1>3, AboveBases DEF NextGroup
  <2>2. \A i \in Slots : i < indirection => shadow_state'[i] = shadow_state[i]
    BY <1>1, <1>3 DEF NextGroup, CondTypeOK, Slots
  <2>3. \A k \in DOMAIN files : \A i \in Slots : i <= files[k].base => i < indirection
    BY <1>1, <2>1 DEF Entered, Slots
  <2> QED
    BY <1>1, <2>1, <2>2, <2>3 DEF Entered
<1>4. CASE Endif
  <2>1. /\ indirection' = indirection - 1 /\ UNCHANGED shadow_state
        /\ \A k \in DOMAIN files : files[k].base < indirection
    BY <1>4, AboveBases DEF Endif
  <2>2. \A k \in DOMAIN files : files[k].base <= indirection'
    BY <1>1, <2>1 DEF Entered
  <2> QED
    BY <1>1, <2>1, <2>2 DEF Entered
<1> QED
  BY <1>2, <1>3, <1>4

LEMMA NestEntered ==
    ASSUME CondTypeOK, IoTypeOK, Counts, Entered, SkippedIffInSkippedGroup,
           ~IsInativeCode, UNCHANGED cond, NEW p \in Paths, Nest(p)
    PROVE  Entered'
<1>1. indirection \in Int /\ indirection' = indirection /\ shadow_state' = shadow_state
  BY DEF CondTypeOK, Slots, cond
<1>2. \A i \in Slots : i <= indirection => shadow_state[i].count = 0
  BY DEF SkippedIffInSkippedGroup, Open
<1>3. Len(files) \in Nat /\ DOMAIN files = 1 .. Len(files) /\ DOMAIN files' = 1 .. Len(files) + 1
  BY DEF Nest, IoTypeOK
<1>4. \A k \in DOMAIN files' :
         \/ k \in DOMAIN files /\ files'[k] = files[k]
         \/ k = Len(files) + 1 /\ files'[k].base = indirection
  BY DEF Nest, IoTypeOK
<1>5. \A k \in DOMAIN files' : files'[k].base \in Int /\ files'[k].base <= indirection
  BY <1>1, <1>4 DEF Entered
<1>6. \A k \in DOMAIN files' : \A i \in Slots :
         i <= files'[k].base => shadow_state[i].count = 0
  BY <1>2, <1>4 DEF Entered
<1>7. ASSUME NEW k \in DOMAIN files', NEW m \in DOMAIN files', k <= m
      PROVE  files'[k].base <= files'[m].base
  <2>1. CASE m = Len(files) + 1
    <3>1. files'[m].base = indirection
      BY <1>3, <1>4, <2>1
    <3> QED
      BY <1>5, <3>1
  <2>2. CASE m # Len(files) + 1
    <3>1. k \in DOMAIN files /\ m \in DOMAIN files
      BY <1>3, <1>7, <2>2
    <3>2. files'[k] = files[k] /\ files'[m] = files[m]
      BY <1>3, <1>4, <3>1
    <3> QED
      BY <1>7, <3>1, <3>2 DEF Entered
  <2> QED
    BY <2>1, <2>2
<1> QED
  BY <1>1, <1>5, <1>6, <1>7 DEF Entered

LEMMA StepEntered ==
    ASSUME WellFormed, IInv, Entered, [Next]_vars
    PROVE  Entered'
<1>0. CondTypeOK /\ IoTypeOK /\ Counts /\ SkippedIffInSkippedGroup
  BY SkippingExact DEF IInv, TypeOK
<1>1. CASE \/ \E v \in Values : If(v)
           \/ \E hit \in BOOLEAN : Ifdef(hit)
  <2>1. \E g \in {Taken, Skipped} : Push(g) /\ UNCHANGED io
    BY <1>1 DEF If, Ifdef
  <2> QED
    BY <1>0, <2>1, SectionsEntered
<1>2. CASE Else
  <2>1. Cur.disabled \in BOOLEAN
    BY <1>0, <1>2 DEF Else, NextGroup, InSection, CondTypeOK, Cur
  <2>2. Toggled \in Int
    BY <1>0, <1>2 DEF Else, NextGroup, InSection, CondTypeOK, Cur, Toggled
  <2>3. NextGroup(Cur.disabled, Toggled) /\ UNCHANGED io
    BY <1>2 DEF Else, NextGroup
  <2> QED
    BY <1>0, <2>1, <2>2, <2>3, SectionsEntered
<1>3. ASSUME NEW v \in Values, Elif(v) PROVE Entered'
  <2>1. Toggled \in Int
    BY <1>0, <1>3 DEF Elif, NextGroup, InSection, CondTypeOK, Cur, Toggled
  <2> DEFINE n == IF v = 0 THEN Toggled + 1 ELSE Toggled
  <2>2. n \in Int /\ (v = 0) \in BOOLEAN
    BY <2>1
  <2>3. NextGroup(v = 0, n)
    BY <1>3 DEF Elif
  <2> HIDE DEF n
  <2>4. UNCHANGED io
    BY <2>3 DEF NextGroup
  <2> QED
    BY <1>0, <2>2, <2>3, <2>4, SectionsEntered
<1>4. CASE Endif
  <2>1. UNCHANGED io
    BY <1>4 DEF Endif
  <2> QED
    BY <1>0, <1>4, <2>1, SectionsEntered
<1>5. ASSUME NEW p \in Paths, Include(p) PROVE Entered'
  <2>1. UNCHANGED cond
    BY <1>5 DEF Include
  <2>2. CASE UNCHANGED io
    BY <2>1, <2>2 DEF cond, io, Entered
  <2>3. CASE ~IsInativeCode /\ Nest(p)
    BY <1>0, <2>1, <2>3, NestEntered
  <2> QED
    BY <1>5, <2>2, <2>3 DEF Include
<1>6. CASE EndOfFile
  <2>1. UNCHANGED cond /\ files' = Front(files) /\ files # <<>>
    BY <1>6 DEF EndOfFile
  <2>2. \A k \in DOMAIN files' : k \in DOMAIN files /\ files'[k] = files[k]
    BY <1>0, <2>1 DEF IoTypeOK, Front
  <2> QED
    BY <2>1, <2>2 DEF cond, Entered
<1>7. CASE \/ \E status \in {-942, 1} : Plain(status)
           \/ Error \/ Unknown \/ Throw \/ MissingInclude
           \/ \E after_comment \in BOOLEAN : Text(after_comment)
           \/ UNCHANGED vars
  <2>1. UNCHANGED cond /\ UNCHANGED io
    BY <1>7 DEF Plain, Error, Unknown, Throw, MissingInclude, Text, vars
  <2> QED
    BY <2>1 DEF cond, io, Entered
<1> QED
  BY <1>1, <1>2, <1>3, <1>4, <1>5, <1>6, <1>7 DEF Next

LEMMA EndOfFileLive ==
    ASSUME WellFormed, IInv, Entered, EndOfFile
    PROVE  ~IsInativeCode /\ ~IsInativeCode'
<1>1. IoTypeOK /\ CondTypeOK /\ SkippedIffInSkippedGroup
  BY SkippingExact DEF IInv, TypeOK
<1>2. files # <<>> /\ indirection = Base /\ UNCHANGED cond
  BY DEF EndOfFile
<1>3. Len(files) \in DOMAIN files /\ Base = files[Len(files)].base
  BY <1>1, <1>2 DEF IoTypeOK, Base, Last
<1>4. \A i \in Open : shadow_state[i].count = 0
  BY <1>2, <1>3 DEF Entered, Open
<1> QED
  BY <1>1, <1>2, <1>4 DEF SkippedIffInSkippedGroup, IsInativeCode, cond

LEMMA InductiveEntered == WellFormed /\ Spec => []Entered
<1>1. Init => Entered
  BY DEF Init, Entered
<1>2. CASE WellFormed
  <2>1. Spec => []IInv
    BY <1>2, InductiveInvariant
  <2>2. WellFormed /\ IInv /\ Entered /\ [Next]_vars => Entered'
    BY StepEntered
  <2> QED
    BY <1>1, <1>2, <2>1, <2>2, PTL DEF Spec
<1> QED
  BY <1>2

\* In a well-formed file an included header leaves its sections as it found
\* them, in live text, so that parse_include may answer 1 without asking what
\* the header did.
THEOREM HeadersAreNeutral == WellFormed /\ Spec => HeaderEndsLive
<1>1. CASE WellFormed
  <2>1. WellFormed /\ IInv /\ Entered /\ [Next]_vars =>
          [Len(files') < Len(files) => ~IsInativeCode']_vars
    <3> SUFFICES ASSUME WellFormed, IInv, Entered, Next, Len(files') < Len(files)
                 PROVE  ~IsInativeCode'
      BY DEF vars
    <3>1. IoTypeOK
      BY DEF IInv, TypeOK
    <3>2. ~(UNCHANGED io) /\ ~\E p \in Paths : Nest(p)
      <4>1. Len(files) \in Nat
        BY <3>1 DEF IoTypeOK
      <4>2. ~(UNCHANGED io)
        BY <4>1 DEF io
      <4>3. ASSUME NEW p \in Paths, Nest(p) PROVE Len(files') = Len(files) + 1
        <5>1. \A e : Len(Append(files, e)) = Len(files) + 1
          BY <3>1 DEF IoTypeOK
        <5> QED
          BY <4>3, <5>1 DEF Nest
      <4> QED
        BY <4>1, <4>2, <4>3
    <3>3. ASSUME NEW p \in Paths, Include(p) PROVE FALSE
      BY <3>2, <3>3 DEF Include, io
    <3>4. EndOfFile
      <4>1. CASE \/ \E v \in Values : If(v) \/ Elif(v)
                 \/ \E hit \in BOOLEAN : Ifdef(hit)
                 \/ Else \/ Endif
        BY <3>2, <4>1 DEF If, Ifdef, Elif, Else, Endif, NextGroup
      <4>2. CASE \/ \E status \in {-942, 1} : Plain(status)
                 \/ Error \/ Unknown \/ Throw \/ MissingInclude
                 \/ \E after_comment \in BOOLEAN : Text(after_comment)
        BY <3>2, <4>2 DEF Plain, Error, Unknown, Throw, MissingInclude, Text
      <4> QED
        BY <3>3, <4>1, <4>2 DEF Next
    <3> QED
      BY <3>4, EndOfFileLive
  <2>2. Spec => []IInv /\ []Entered
    BY <1>1, InductiveInvariant, InductiveEntered
  <2> QED
    BY <1>1, <2>1, <2>2, PTL DEF Spec, HeaderEndsLive
<1> QED
  BY <1>1

-----------------------------------------------------------------------------
LEMMA ReturnMode ==
    ASSUME NEW status \in Int, NEW kind, Return(status, kind),
           status > 0 /\ IsInativeCode' => kind = "if",
           status = 0 /\ ~IsInativeCode' => kind = "error"
    PROVE  ModeFollowsShadow'
<1>1. CASE status < 0
  BY <1>1 DEF Return, ModeFollowsShadow
<1>2. CASE status = 0
  BY <1>2 DEF Return, ModeFollowsShadow
<1>3. CASE status > 0
  BY <1>3 DEF Return, ModeFollowsShadow
<1> QED
  BY <1>1, <1>2, <1>3

LEMMA ResumeMode ==
    ASSUME NEW kind, Return(Resume(shadow_count'), kind)
    PROVE  ModeFollowsShadow'
<1>1. CASE shadow_count' # 0
  BY <1>1, ReturnMode DEF Resume, IsInativeCode
<1>2. CASE shadow_count' = 0
  BY <1>2, ReturnMode DEF Resume, IsInativeCode
<1> QED
  BY <1>1, <1>2

LEMMA CountIsNat == IInv => shadow_count \in Nat
<1> SUFFICES ASSUME IInv PROVE shadow_count \in Nat
  OBVIOUS
<1>1. indirection \in Slots /\ indirection \in Open
  BY NestingAssumption DEF IInv, TypeOK, CondTypeOK, Counts, Slots, Open
<1>2. entry[indirection] \in Int /\ shadow_state[indirection].count \in Int
  BY <1>1 DEF IInv, TypeOK, CondTypeOK
<1> QED
  BY <1>1, <1>2 DEF IInv, Ledger, Counts

LEMMA StepMode ==
    ASSUME WellFormed, IInv, Entered, ModeFollowsShadow, [Next]_vars
    PROVE  ModeFollowsShadow'
<1>0. shadow_count \in Nat
  BY CountIsNat
<1>1. /\ Push(Taken) => shadow_count' = shadow_count
      /\ Push(Skipped) => shadow_count' = shadow_count + 1
  BY <1>0 DEF Push, Taken, Skipped, Frame
<1>2. ASSUME NEW v \in Values, If(v) PROVE ModeFollowsShadow'
  <2>1. v \in Int /\ Return(v, "if")
    BY <1>2 DEF If, Values
  <2>2. v = 0 => shadow_count' # 0
    BY <1>0, <1>1, <1>2 DEF If
  <2> QED
    BY <2>1, <2>2, ReturnMode DEF IsInativeCode
<1>3. ASSUME NEW hit \in BOOLEAN, Ifdef(hit) PROVE ModeFollowsShadow'
  <2>1. CASE hit
    BY <1>1, <1>3, <2>1, ResumeMode DEF Ifdef
  <2>2. CASE ~hit
    <3>1. Return(0, "ifdef") /\ shadow_count' # 0
      BY <1>0, <1>1, <1>3, <2>2 DEF Ifdef
    <3> QED
      BY <3>1, ReturnMode DEF IsInativeCode
  <2> QED
    BY <2>1, <2>2
<1>4. CASE Else \/ Endif \/ \E v \in Values : Elif(v)
  BY <1>4, ResumeMode DEF Else, Endif, Elif
<1>5. ASSUME NEW status \in {-942, -947, 1}, NEW kind, UNCHANGED cond,
             Return(IF IsInativeCode THEN 0 ELSE status, kind)
      PROVE  ModeFollowsShadow'
  <2>1. IsInativeCode' <=> IsInativeCode
    BY <1>5 DEF cond, IsInativeCode
  <2>2. CASE IsInativeCode
    BY <1>5, <2>1, <2>2, ReturnMode
  <2>3. CASE ~IsInativeCode
    BY <1>5, <2>1, <2>3, ReturnMode
  <2> QED
    BY <2>2, <2>3
<1>6. CASE \/ \E status \in {-942, 1} : Plain(status)
           \/ MissingInclude
           \/ \E p \in Paths : Include(p)
  BY <1>5, <1>6 DEF Plain, MissingInclude, Include
<1>7. CASE Error \/ Unknown
  BY <1>7, ReturnMode DEF Error, Unknown
<1>8. CASE Throw
  BY <1>8 DEF Throw, ModeFollowsShadow
<1>9. CASE EndOfFile
  <2>1. ~IsInativeCode'
    BY <1>9, EndOfFileLive
  <2>2. CASE Return(1, "include")
    BY <2>1, <2>2, ReturnMode
  <2>3. CASE stopped' = TRUE
    BY <2>3 DEF ModeFollowsShadow
  <2> QED
    BY <1>9, <2>2, <2>3 DEF EndOfFile
<1>10. CASE UNCHANGED vars \/ \E after_comment \in BOOLEAN : Text(after_comment)
  <2>1. UNCHANGED <<cond, global_state, stopped, directive>>
    BY <1>10 DEF Text, vars
  <2> QED
    BY <2>1 DEF cond, ModeFollowsShadow, IsInativeCode
<1> QED
  BY <1>2, <1>3, <1>4, <1>6, <1>7, <1>8, <1>9, <1>10 DEF Next

\* In a well-formed file the character machine scans exactly where the
\* conditional state says so, except after an #if inside a skipped group and
\* after an #error in live text.
THEOREM ModeIsExact == WellFormed /\ Spec => []ModeFollowsShadow
<1>1. Init => ModeFollowsShadow
  BY DEF Init, ModeFollowsShadow, IsInativeCode
<1>2. CASE WellFormed
  <2>1. Spec => []IInv /\ []Entered
    BY <1>2, InductiveInvariant, InductiveEntered
  <2>2. WellFormed /\ IInv /\ Entered /\ ModeFollowsShadow /\ [Next]_vars => ModeFollowsShadow'
    BY StepMode
  <2> QED
    BY <1>1, <1>2, <2>1, <2>2, PTL DEF Spec
<1> QED
  BY <1>2

-----------------------------------------------------------------------------
\* The stack of sections that the counters stand for.
Sections == [i \in 1 .. indirection + 1 |-> Status(i - 1)]

LEMMA SectionsAreSeq ==
    ASSUME indirection \in Int, indirection >= -1
    PROVE  /\ Sections \in Seq(C!Status)
           /\ Len(Sections) = indirection + 1
           /\ \A i \in 1 .. indirection + 1 : Sections[i] = Status(i - 1)
<1>1. \A i : Status(i) \in C!Status
  BY DEF Status, C!Status
<1>2. indirection + 1 \in Nat
  OBVIOUS
<1>3. Sections \in [1 .. indirection + 1 -> C!Status]
  BY <1>1 DEF Sections
<1> QED
  BY <1>2, <1>3 DEF Sections

LEMMA SectionsAreSeqNext ==
    ASSUME NEW k \in Int, k >= -1, indirection' = k
    PROVE  /\ Sections' \in Seq(C!Status)
           /\ Len(Sections') = k + 1
           /\ \A i \in 1 .. k + 1 : Sections'[i] = Status(i - 1)'
<1>1. \A i : Status(i)' \in C!Status
  BY DEF Status, C!Status
<1>2. k + 1 \in Nat
  OBVIOUS
<1>3. Sections' = [i \in 1 .. k + 1 |-> Status(i - 1)']
  BY DEF Sections
<1>4. Sections' \in [1 .. k + 1 -> C!Status]
  BY <1>1, <1>3
<1> QED
  BY <1>2, <1>3, <1>4

LEMMA AppendPointwise ==
    ASSUME NEW T, NEW s \in Seq(T), NEW t \in Seq(T), NEW e \in T,
           Len(t) = Len(s) + 1, t[Len(t)] = e,
           \A i \in 1 .. Len(s) : t[i] = s[i]
    PROVE  t = Append(s, e)
OBVIOUS

LEMMA FrontPointwise ==
    ASSUME NEW T, NEW s \in Seq(T), NEW t \in Seq(T), s # <<>>,
           Len(t) = Len(s) - 1,
           \A i \in 1 .. Len(t) : t[i] = s[i]
    PROVE  t = SubSeq(s, 1, Len(s) - 1)
OBVIOUS

LEMMA ExceptPointwise ==
    ASSUME NEW T, NEW s \in Seq(T), NEW t \in Seq(T), s # <<>>, NEW e \in T,
           Len(t) = Len(s), t[Len(s)] = e,
           \A i \in 1 .. Len(s) : i # Len(s) => t[i] = s[i]
    PROVE  t = [s EXCEPT ![Len(s)] = e]
OBVIOUS

\* A section below the ones a step touches keeps its status.
LEMMA StatusKept ==
    ASSUME NEW i, shadow_state'[i] = shadow_state[i], else_read'[i] = else_read[i]
    PROVE  Status(i)' = Status(i)
BY DEF Status

LEMMA PushOpens ==
    ASSUME CondTypeOK, Counts, NEW g \in {Taken, Skipped}, Push(g)
    PROVE  Sections' = Append(Sections, C!Try(g = Taken))
<1>1. /\ indirection \in Int /\ indirection >= -1
      /\ indirection' = indirection + 1 /\ indirection' \in Slots
  BY NestingAssumption DEF CondTypeOK, Counts, Push, Slots
<1>2. /\ shadow_state'[indirection'] = g /\ ~else_read'[indirection']
      /\ \A i \in Slots : i # indirection' =>
            shadow_state'[i] = shadow_state[i] /\ else_read'[i] = else_read[i]
  BY <1>1 DEF CondTypeOK, Push
<1>3. ASSUME NEW k \in Slots, k = indirection + 1
      PROVE  Status(k)' = C!Try(g = Taken)
  <2>1. shadow_state'[k] = g /\ ~else_read'[k]
    BY <1>1, <1>2, <1>3
  <2>2. CASE g = Taken
    BY <2>1, <2>2 DEF Status, C!Try, Taken, Frame
  <2>3. CASE g = Skipped
    <3>1. g # Taken
      BY <2>3 DEF Taken, Skipped, Frame
    <3> QED
      BY <2>1, <2>3, <3>1 DEF Status, C!Try, Skipped, Frame
  <2> QED
    BY <2>2, <2>3
<1>4. C!Try(g = Taken) \in C!Status
  BY DEF C!Try, C!Status
<1>5. /\ Sections' \in Seq(C!Status)
      /\ Len(Sections') = indirection + 2
      /\ \A i \in 1 .. indirection + 2 : Sections'[i] = Status(i - 1)'
  <2>1. PICK k \in Int : k = indirection + 1
    BY <1>1
  <2>2. k >= -1 /\ indirection' = k /\ k + 1 = indirection + 2
    BY <1>1, <2>1
  <2> QED
    BY <2>2, SectionsAreSeqNext
<1>6. ASSUME NEW i \in 1 .. indirection + 1 PROVE Sections'[i] = Sections[i]
  <2>1. i - 1 \in Slots /\ i - 1 # indirection'
    BY <1>1, NestingAssumption DEF Slots
  <2>2. Status(i - 1)' = Status(i - 1)
    BY <1>2, <2>1, StatusKept
  <2> QED
    BY <1>1, <1>5, <2>2, SectionsAreSeq
<1>7. ASSUME NEW k, k = indirection + 1
      PROVE  Sections'[k + 1] = C!Try(g = Taken)
  <2>1. k + 1 \in 1 .. indirection + 2 /\ (k + 1) - 1 = k /\ k \in Slots
    BY <1>1, <1>7
  <2>2. Sections'[k + 1] = Status((k + 1) - 1)'
    BY <1>5, <2>1
  <2> QED
    BY <1>3, <1>7, <2>1, <2>2
<1>8. Sections'[indirection + 2] = C!Try(g = Taken)
  BY <1>1, <1>7
<1> QED
  BY <1>1, <1>4, <1>5, <1>6, <1>8, SectionsAreSeq, AppendPointwise

LEMMA GroupEnds ==
    ASSUME CondTypeOK, NEW dis \in BOOLEAN, NEW n, NextGroup(dis, n),
           indirection \in Slots, indirection >= 0,
           else_read' \in [Slots -> BOOLEAN],
           \A i \in Slots : i # indirection => else_read'[i] = else_read[i],
           NEW st \in C!Status,
           \A k \in Slots : k = indirection => Status(k)' = st
    PROVE  Sections' = [Sections EXCEPT ![Len(Sections)] = st]
<1>1. /\ indirection \in Int /\ indirection' = indirection
      /\ \A i \in Slots : i # indirection => shadow_state'[i] = shadow_state[i]
  BY DEF CondTypeOK, NextGroup, Slots
<1>2. /\ Sections' \in Seq(C!Status)
      /\ Len(Sections') = indirection + 1
      /\ \A i \in 1 .. indirection + 1 : Sections'[i] = Status(i - 1)'
  <2>1. PICK k \in Int : k = indirection
    BY <1>1
  <2>2. k >= -1 /\ indirection' = k
    BY <1>1, <2>1
  <2> QED
    BY <2>1, <2>2, SectionsAreSeqNext
<1>3. ASSUME NEW i \in 1 .. indirection + 1, i # indirection + 1
      PROVE  Sections'[i] = Sections[i]
  <2>1. i - 1 \in Slots /\ i - 1 # indirection
    BY <1>1, <1>3, NestingAssumption DEF Slots
  <2>2. Status(i - 1)' = Status(i - 1)
    BY <1>1, <2>1, StatusKept
  <2> QED
    BY <1>1, <1>2, <2>2, SectionsAreSeq
<1>4. ASSUME NEW k, k = indirection PROVE Sections'[k + 1] = st
  <2>1. k + 1 \in 1 .. indirection + 1 /\ (k + 1) - 1 = k /\ k \in Slots
    BY <1>1, <1>4
  <2>2. Sections'[k + 1] = Status((k + 1) - 1)'
    BY <1>2, <2>1
  <2> QED
    BY <1>4, <2>1, <2>2
<1>5. Len(Sections) = indirection + 1 /\ Sections \in Seq(C!Status)
  BY <1>1, SectionsAreSeq
<1>6. Sections # <<>> /\ Sections'[Len(Sections)] = st
  BY <1>1, <1>4, <1>5
<1> QED
  BY <1>2, <1>3, <1>5, <1>6, ExceptPointwise

LEMMA TopIsCurrent ==
    ASSUME indirection \in Int, indirection >= 0
    PROVE  Sections # <<>> /\ Sections[Len(Sections)] = Status(indirection)
<1>1. Len(Sections) = indirection + 1 /\ Sections[indirection + 1] = Status((indirection + 1) - 1)
  BY SectionsAreSeq
<1> QED
  BY <1>1, SectionsAreSeq

LEMMA ElseEnds ==
    ASSUME WellFormed, CondTypeOK, IoTypeOK, Counts, Else
    PROVE  /\ Sections # <<>>
           /\ Sections' = [Sections EXCEPT ![Len(Sections)] =
                 IF Sections[Len(Sections)] = "seek" THEN "live" ELSE "done"]
<1>1. InSection /\ ~else_read[indirection] /\ NextGroup(Cur.disabled, Toggled)
  BY DEF Else, NextGroup
<1>2. /\ indirection \in Slots /\ indirection >= 0 /\ Toggled \in Nat
      /\ Cur.disabled \in BOOLEAN /\ Cur.count \in Nat
      /\ Cur.disabled => Cur.count >= 1
  BY <1>1, ToggledFrame
<1>3. /\ else_read' \in [Slots -> BOOLEAN]
      /\ else_read'[indirection]
      /\ \A i \in Slots : i # indirection => else_read'[i] = else_read[i]
  BY <1>2 DEF Else, CondTypeOK
<1>4. shadow_state'[indirection] = Frame(Cur.disabled, Toggled)
  BY <1>1, <1>2 DEF NextGroup, CondTypeOK
<1>5. ASSUME NEW k \in Slots, k = indirection
      PROVE  Status(k)' = IF Status(k) = "seek" THEN "live" ELSE "done"
  <2>1. Status(k)' = IF Toggled = 0 THEN "live" ELSE "done"
    BY <1>3, <1>4, <1>5 DEF Status, Frame
  <2>2. Status(k) = "seek" <=> Toggled = 0
    BY <1>1, <1>2, <1>5 DEF Status, Toggled, Cur
  <2> QED
    BY <2>1, <2>2
<1>6. Sections # <<>> /\ Sections[Len(Sections)] = Status(indirection)
  BY <1>2, TopIsCurrent DEF Slots
<1> DEFINE st == IF Status(indirection) = "seek" THEN "live" ELSE "done"
<1>7. st \in C!Status /\ \A k \in Slots : k = indirection => Status(k)' = st
  BY <1>5 DEF C!Status
<1> HIDE DEF st
<1>8. Sections' = [Sections EXCEPT ![Len(Sections)] = st]
  BY <1>1, <1>2, <1>3, <1>7, GroupEnds
<1> QED
  BY <1>6, <1>8 DEF st

LEMMA ElifEnds ==
    ASSUME WellFormed, CondTypeOK, IoTypeOK, Counts, NEW v \in Values, Elif(v)
    PROVE  /\ Sections # <<>>
           /\ Sections' = [Sections EXCEPT ![Len(Sections)] =
                 IF Sections[Len(Sections)] = "seek" THEN C!Try(v # 0) ELSE "done"]
<1> DEFINE n == IF v = 0 THEN Toggled + 1 ELSE Toggled
<1>1. InSection /\ ~else_read[indirection] /\ NextGroup(v = 0, n)
  BY DEF Elif, NextGroup
<1>2. /\ indirection \in Slots /\ indirection >= 0 /\ Toggled \in Nat
      /\ Cur.disabled \in BOOLEAN /\ Cur.count \in Nat
      /\ Cur.disabled => Cur.count >= 1
  BY <1>1, ToggledFrame
<1>3. else_read' = else_read /\ else_read' \in [Slots -> BOOLEAN]
  BY DEF Elif, CondTypeOK
<1>4. shadow_state'[indirection].count = n /\ (shadow_state'[indirection].disabled <=> v = 0)
  BY <1>1, <1>2 DEF NextGroup, CondTypeOK, Frame
<1>5. ASSUME NEW k \in Slots, k = indirection
      PROVE  Status(k)' = IF Status(k) = "seek" THEN C!Try(v # 0) ELSE "done"
  <2>1. Status(k) = "seek" <=> Toggled = 0
    BY <1>1, <1>2, <1>5 DEF Status, Toggled, Cur
  <2>2. CASE v = 0
    <3>1. Status(k)' = IF Toggled + 1 = 1 THEN "seek" ELSE "done"
      BY <1>1, <1>2, <1>3, <1>4, <1>5, <2>2 DEF Status
    <3> QED
      BY <1>2, <2>1, <2>2, <3>1 DEF C!Try
  <2>3. CASE v # 0
    <3>1. Status(k)' = IF Toggled = 0 THEN "live" ELSE "done"
      BY <1>2, <1>4, <1>5, <2>3 DEF Status
    <3> QED
      BY <2>1, <2>3, <3>1 DEF C!Try
  <2> QED
    BY <2>2, <2>3
<1>6. Sections # <<>> /\ Sections[Len(Sections)] = Status(indirection)
  BY <1>2, TopIsCurrent DEF Slots
<1> DEFINE st == IF Status(indirection) = "seek" THEN C!Try(v # 0) ELSE "done"
<1>7. st \in C!Status /\ \A k \in Slots : k = indirection => Status(k)' = st
  BY <1>5 DEF C!Status, C!Try
<1> HIDE DEF st, n
<1>8. Sections' = [Sections EXCEPT ![Len(Sections)] = st]
  BY <1>1, <1>2, <1>3, <1>7, GroupEnds
<1> QED
  BY <1>6, <1>8 DEF st

LEMMA EndifCloses ==
    ASSUME WellFormed, CondTypeOK, IoTypeOK, Counts, Endif
    PROVE  Sections # <<>> /\ Sections' = SubSeq(Sections, 1, Len(Sections) - 1)
<1>1. indirection \in Slots /\ indirection >= 0
  BY SectionIsReal DEF Endif
<1>2. /\ indirection \in Int /\ indirection' = indirection - 1
      /\ UNCHANGED shadow_state
      /\ \A i \in Slots : i # indirection => else_read'[i] = else_read[i]
  BY <1>1 DEF Endif, CondTypeOK, Slots
<1>3. /\ Sections' \in Seq(C!Status)
      /\ Len(Sections') = indirection
      /\ \A i \in 1 .. indirection : Sections'[i] = Status(i - 1)'
  <2>1. PICK k \in Int : k = indirection - 1
    BY <1>2
  <2>2. k >= -1 /\ indirection' = k /\ k + 1 = indirection
    BY <1>1, <1>2, <2>1
  <2> QED
    BY <2>2, SectionsAreSeqNext
<1>4. ASSUME NEW i \in 1 .. indirection PROVE Sections'[i] = Sections[i]
  <2>1. i - 1 \in Slots /\ i - 1 # indirection
    BY <1>1, <1>2, NestingAssumption DEF Slots
  <2>2. Status(i - 1)' = Status(i - 1)
    BY <1>2, <2>1, StatusKept
  <2> QED
    BY <1>1, <1>2, <1>3, <2>2, SectionsAreSeq
<1>5. Sections \in Seq(C!Status) /\ Len(Sections) = indirection + 1 /\ Sections # <<>>
  BY <1>1, <1>2, SectionsAreSeq
<1> QED
  BY <1>2, <1>3, <1>4, <1>5, FrontPointwise

LEMMA StepImplements ==
    ASSUME WellFormed, CondTypeOK, IoTypeOK, Counts, [Next]_vars
    PROVE  C!Next \/ Sections' = Sections
<1>1. CASE \/ \E v \in Values : If(v)
           \/ \E hit \in BOOLEAN : Ifdef(hit)
  <2>1. PICK g \in {Taken, Skipped} : Push(g)
    BY <1>1 DEF If, Ifdef
  <2>2. Sections' = Append(Sections, C!Try(g = Taken))
    BY <2>1, PushOpens
  <2>3. C!Open(g = Taken)
    BY <2>2 DEF C!Open, Sections
  <2> QED
    BY <2>3 DEF C!Next
<1>2. CASE Else
  <2>1. C!Else
    BY <1>2, ElseEnds DEF C!Else, C!SetTop, C!Top, Sections
  <2> QED
    BY <2>1 DEF C!Next
<1>3. ASSUME NEW v \in Values, Elif(v) PROVE C!Next
  <2>1. C!Elif(v # 0)
    BY <1>3, ElifEnds DEF C!Elif, C!SetTop, C!Top, Sections
  <2> QED
    BY <2>1 DEF C!Next
<1>4. CASE Endif
  <2>1. C!Close
    BY <1>4, EndifCloses DEF C!Close, Sections
  <2> QED
    BY <2>1 DEF C!Next
<1>5. CASE \/ \E status \in {-942, 1} : Plain(status)
           \/ Error \/ Unknown \/ Throw \/ MissingInclude \/ EndOfFile
           \/ \E p \in Paths : Include(p)
           \/ \E after_comment \in BOOLEAN : Text(after_comment)
           \/ UNCHANGED vars
  <2>1. UNCHANGED cond
    BY <1>5 DEF Plain, Error, Unknown, Throw, MissingInclude, EndOfFile, Include, Text, vars
  <2> QED
    BY <2>1 DEF cond, Sections, Status
<1> QED
  BY <1>1, <1>2, <1>3, <1>4, <1>5 DEF Next

\* The counters of the lexical parser implement the stack of sections of
\* CondInclusion: every directive of a well-formed file does to them what
\* conditional inclusion says, for every nesting limit.
THEOREM Implementation == WellFormed /\ Spec => CSpec
<1>1. Init => C!Init
  <2> SUFFICES ASSUME Init PROVE Sections = <<>>
    BY DEF C!Init, Sections
  <2>1. Len(Sections) = 0 /\ Sections \in Seq(C!Status)
    BY SectionsAreSeq DEF Init
  <2> QED
    BY <2>1
<1>2. WellFormed /\ IInv /\ [Next]_vars => [C!Next]_Sections
  BY StepImplements DEF IInv, TypeOK
<1>3. WellFormed /\ IInv /\ [Next]_vars =>
        [C!Next]_([i \in 1 .. indirection + 1 |-> Status(i - 1)])
  BY <1>2 DEF Sections
<1>4. CASE WellFormed
  <2>1. Spec => []IInv
    BY <1>4, InductiveInvariant
  <2> QED
    BY <1>1, <1>3, <1>4, <2>1, PTL DEF Spec, CSpec, C!Spec
<1> QED
  BY <1>4
=============================================================================
