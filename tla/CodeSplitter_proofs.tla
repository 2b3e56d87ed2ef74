------------------------ MODULE CodeSplitter_proofs ------------------------
(***************************************************************************)
(* Proofs about CodeSplitter for every text: while lexemes are added, the  *)
(* two stacks of brackets agree, and the "{" that receives a block is the  *)
(* one that opened it.  The argument: the blocks on statement_stack, and   *)
(* the lists on stack, were made later the further in they are (Ascending),*)
(* so that adding to the innermost one disturbs none of the others.        *)
(* Then, while FixThree copies and erases statements as well, no list and  *)
(* no block has two owners.  For that the heap is seen as one function of  *)
(* place to text: each handler changes it at one text, or at two between   *)
(* which it moves lexemes, and what it leaves has the owners it had.  And  *)
(* a "{" that was moved has its block, if the text closes its blocks, so   *)
(* that FixThree, which goes into them, follows no null pointer.           *)
(***************************************************************************)
EXTENDS CodeSplitter, SequenceTheorems, FiniteSetTheorems, WellFoundedInduction, TLAPS

\* The lexemes that the tree can hold.
Lexems ==
    Alphabet \union {"{", ";"}
        \union UNION {{text[k] : k \in DOMAIN text} : text \in Programs \union {<<>>}}

HeapNodes == [lexem : Lexems, sequence : Nat, statements : Nat]

Shape ==
    /\ lexem_list \in Seq(HeapNodes)
    /\ lists \in Seq(Seq(HeapNodes))
    /\ blocks \in Seq(Seq(Seq(HeapNodes)))
    /\ current_node \in 0 .. Len(lists)
    /\ stack \in Seq(Nat)
    /\ \A k \in 1 .. Len(stack) : stack[k] \in 0 .. Len(lists)
    /\ mode_stack \in Seq(Opening)
    /\ Len(mode_stack) <= Len(stack)
    /\ current_statement \in 1 .. Len(blocks)
    /\ statement_stack \in Seq(Nat)

\* The elements of a stack ascend to top.
Ascending(s, top) ==
    \A k \in 1 .. Len(s) :
        s[k] < top /\ \A j \in 1 .. Len(s) : j < k => s[j] < s[k]

BlockOrder ==
    /\ Ascending(statement_stack, current_statement)
    /\ \A k \in 1 .. Len(statement_stack) : statement_stack[k] \in 1 .. Len(blocks)

Waiting(block) == block # <<>> /\ Last(block) # <<>> /\ Last(Last(block)) = Leaf("{")

BlocksInv ==
    BlockOrder /\ \A k \in 1 .. Len(statement_stack) : Waiting(blocks[statement_stack[k]])

\* The list around the k-th open bracket, and the list within it.
Inner(k) == IF k = Len(stack) THEN current_node ELSE stack[k + 1]

BracketsInv ==
    /\ Len(stack) = Len(mode_stack)
    /\ IF stack = <<>> THEN current_node = 0 ELSE stack[1] = 0
    /\ Ascending(stack, current_node)
    /\ \A k \in 1 .. Len(stack) :
          /\ List(stack[k]) # <<>>
          /\ Last(List(stack[k])) = Node(mode_stack[k], Inner(k), 0)

IInv ==
    /\ program \in Programs \union {<<>>}
    /\ status = "read" => Shape /\ BlocksInv /\ (~mismatched => BracketsInv)

-----------------------------------------------------------------------------
LEMMA AppendLast ==
    ASSUME NEW S, NEW s \in Seq(S), NEW x \in S
    PROVE  /\ Append(s, x) \in Seq(S)
           /\ Append(s, x) # <<>>
           /\ Last(Append(s, x)) = x
<1>1. Append(s, x) \in Seq(S) /\ Len(Append(s, x)) = Len(s) + 1
  OBVIOUS
<1>2. Append(s, x)[Len(s) + 1] = x
  OBVIOUS
<1>3. Append(s, x) # <<>>
  <2>1. Len(s) \in Nat /\ Len(<<>>) = 0
    OBVIOUS
  <2> QED
    BY <1>1, <2>1
<1> QED
  BY <1>1, <1>2, <1>3 DEF Last

LEMMA AppendFacts ==
    ASSUME NEW S, NEW s \in Seq(S), NEW x \in S
    PROVE  /\ Append(s, x) \in Seq(S)
           /\ Len(Append(s, x)) = Len(s) + 1
           /\ Append(s, x)[Len(s) + 1] = x
           /\ \A k \in 1 .. Len(s) : Append(s, x)[k] = s[k]
OBVIOUS

LEMMA LastPlace ==
    ASSUME NEW S, NEW s \in Seq(S), s # <<>>
    PROVE  /\ Len(s) \in 1 .. Len(s)
           /\ s[Len(s)] \in S
           /\ Last(s) = s[Len(s)]
BY DEF Last

LEMMA FrontFacts ==
    ASSUME NEW S, NEW s \in Seq(S), s # <<>>
    PROVE  /\ Front(s) \in Seq(S)
           /\ Len(Front(s)) = Len(s) - 1
           /\ \A k \in 1 .. Len(s) - 1 : Front(s)[k] = s[k]
           /\ Last(s) = s[Len(s)]
           /\ Last(s) \in S
           /\ Len(s) \in 1 .. Len(s)
<1>1. Len(s) \in 1 .. Len(s) /\ s[Len(s)] \in S /\ Last(s) = s[Len(s)]
  BY LastPlace
<1>2. Front(s) = SubSeq(s, 1, Len(s) - 1)
  BY DEF Front
<1>3. Len(s) - 1 \in 0 .. Len(s)
  BY <1>1
<1>4. Len(s) - 1 \in Int /\ 1 \in Int
  BY <1>1
<1>5. \A k \in 1 .. Len(s) - 1 : s[k] \in S
  BY <1>1
<1>6. SubSeq(s, 1, Len(s) - 1) \in Seq(S)
  BY <1>4, <1>5, SubSeqProperties
<1>7. Len(SubSeq(s, 1, Len(s) - 1)) = Len(s) - 1
  <2> DEFINE l == Len(s) - 1
  <2>1. l \in Int /\ 0 <= l /\ \A k \in 1 .. l : s[k] \in S
    BY <1>1, <1>5
  <2> HIDE DEF l
  <2>2. Len(SubSeq(s, 1, l)) = IF 1 <= l THEN l - 1 + 1 ELSE 0
    BY <2>1, <1>4, SubSeqProperties
  <2>3. Len(SubSeq(s, 1, l)) = l
    BY <2>1, <2>2
  <2> QED
    BY <2>3 DEF l
<1>8. \A k \in 1 .. Len(s) - 1 : SubSeq(s, 1, Len(s) - 1)[k] = s[k]
  <2> TAKE k \in 1 .. Len(s) - 1
  <2> DEFINE l == Len(s) - 1
  <2>1. l \in Int /\ k \in 1 .. l /\ 1 + k - 1 = k
    BY <1>1
  <2> QED
    BY <1>1, <2>1
<1> QED
  BY <1>1, <1>2, <1>6, <1>7, <1>8

LEMMA LeafTyped ==
    /\ \A lexem \in Lexems : Leaf(lexem) \in HeapNodes
    /\ Leaf("{") \in HeapNodes /\ Leaf(";") \in HeapNodes
<1>1. \A lexem \in Lexems : Leaf(lexem) \in HeapNodes
  BY DEF Leaf, Node, HeapNodes
<1>2. "{" \in Lexems /\ ";" \in Lexems
  BY DEF Lexems
<1> QED
  BY <1>1, <1>2, Zenon

\* Pushing on and popping off such a stack.
LEMMA AscendingAppend ==
    ASSUME NEW s \in Seq(Nat), NEW top \in Nat, NEW next \in Nat,
           Ascending(s, top), top < next
    PROVE  Ascending(Append(s, top), next)
<1> DEFINE t == Append(s, top)
<1>1. /\ t \in Seq(Nat) /\ Len(t) = Len(s) + 1 /\ t[Len(s) + 1] = top
      /\ \A k \in 1 .. Len(s) : t[k] = s[k]
  OBVIOUS
<1> HIDE DEF t
<1>2. Len(s) \in Nat /\ \A k \in 1 .. Len(s) : s[k] \in Nat /\ s[k] < top
  BY DEF Ascending
<1>3. ASSUME NEW k \in 1 .. Len(t)
      PROVE  t[k] < next
  BY <1>1, <1>2
<1>4. ASSUME NEW k \in 1 .. Len(t), NEW j \in 1 .. Len(t), j < k
      PROVE  t[j] < t[k]
  <2>1. j \in 1 .. Len(s) /\ t[j] = s[j]
    BY <1>1, <1>2, <1>4
  <2>2. CASE k = Len(s) + 1
    BY <1>1, <1>2, <2>1, <2>2
  <2>3. CASE k \in 1 .. Len(s)
    <3>1. s[j] < s[k]
      BY <2>1, <2>3, <1>4 DEF Ascending
    <3> QED
      BY <1>1, <2>1, <2>3, <3>1
  <2> QED
    BY <1>1, <1>2, <2>2, <2>3
<1>5. Ascending(t, next)
  BY <1>3, <1>4 DEF Ascending
<1> QED
  BY <1>5 DEF t

LEMMA AscendingFront ==
    ASSUME NEW s \in Seq(Nat), NEW top, s # <<>>, Ascending(s, top)
    PROVE  Ascending(Front(s), Last(s))
<1> DEFINE t == Front(s)
<1>1. /\ t \in Seq(Nat) /\ Len(t) = Len(s) - 1 /\ Last(s) = s[Len(s)]
      /\ \A k \in 1 .. Len(s) - 1 : t[k] = s[k]
      /\ Len(s) \in 1 .. Len(s)
  BY FrontFacts
<1> HIDE DEF t
<1>2. \A k \in 1 .. Len(t) :
         t[k] < Last(s) /\ \A j \in 1 .. Len(t) : j < k => t[j] < t[k]
  BY <1>1 DEF Ascending
<1> QED
  BY <1>2 DEF Ascending, t

\* A statement ends: only the innermost block changes.
LEMMA EndedFacts ==
    ASSUME Shape, NEW s \in Seq(HeapNodes)
    PROVE  /\ Ended(s) \in Seq(Seq(Seq(HeapNodes)))
           /\ Len(Ended(s)) = Len(blocks)
           /\ Ended(s)[current_statement] = Append(blocks[current_statement], s)
           /\ \A b \in 1 .. Len(blocks) : b # current_statement => Ended(s)[b] = blocks[b]
<1>1. blocks[current_statement] \in Seq(Seq(HeapNodes))
  BY DEF Shape
<1>2. Append(blocks[current_statement], s) \in Seq(Seq(HeapNodes))
  BY <1>1
<1> QED
  BY <1>2 DEF Shape, Ended

\* A block is attached: only the block around it changes.
LEMMA AttachFacts ==
    ASSUME NEW heap \in Seq(Seq(Seq(HeapNodes))), NEW b \in 1 .. Len(heap),
           Waiting(heap[b]), NEW c \in Nat
    PROVE  /\ Attach(heap, b, c) \in Seq(Seq(Seq(HeapNodes)))
           /\ Len(Attach(heap, b, c)) = Len(heap)
           /\ \A d \in 1 .. Len(heap) : d # b => Attach(heap, b, c)[d] = heap[d]
<1> DEFINE block == heap[b]
           s == block[Len(block)]
           n == s[Len(s)]
           n2 == [n EXCEPT !.statements = c]
           s2 == [s EXCEPT ![Len(s)] = n2]
           block2 == [block EXCEPT ![Len(block)] = s2]
<1>0. block # <<>>
  BY Zenon DEF Waiting
<1>1. block \in Seq(Seq(HeapNodes)) /\ block # <<>>
  BY <1>0
<1>a. Len(block) \in 1 .. Len(block) /\ s \in Seq(HeapNodes) /\ Last(block) = s
  BY <1>1, LastPlace
<1>b. s # <<>>
  BY <1>a DEF Waiting
<1>2. s \in Seq(HeapNodes) /\ s # <<>> /\ Len(s) \in 1 .. Len(s)
  BY <1>a, <1>b, LastPlace
<1>3. n \in HeapNodes
  BY <1>2
<1>4. n2 \in HeapNodes
  BY <1>3 DEF HeapNodes
<1>5. s2 \in Seq(HeapNodes)
  BY <1>2, <1>4
<1>6. block2 \in Seq(Seq(HeapNodes))
  BY <1>1, <1>a, <1>5
<1>7. Attach(heap, b, c) = [heap EXCEPT ![b] = block2]
  BY DEF Attach
<1> HIDE DEF block2
<1> QED
  BY <1>6, <1>7

-----------------------------------------------------------------------------
(***************************************************************************)
(* The actions of AddLexem, one lemma each.                                *)
(***************************************************************************)
Sound == Shape /\ BlocksInv /\ (~mismatched => BracketsInv)

\* Outside of brackets, and with none closed by another kind's, no list is
\* waiting.
LEMMA OutsideOfBrackets ==
    ASSUME Shape, BracketsInv, mode_stack = <<>>
    PROVE  stack = <<>> /\ current_node = 0
<1>1. Len(stack) = 0
  <2>1. Len(mode_stack) = 0
    OBVIOUS
  <2> QED
    BY <2>1 DEF BracketsInv
<1>2. stack = <<>>
  BY <1>1 DEF Shape
<1> QED
  BY <1>2 DEF BracketsInv

LEMMA OpenBlockKeeps ==
    ASSUME Sound, mode_stack = <<>>, OpenBlock, ~mismatched' => ~mismatched
    PROVE  Sound'
<1> DEFINE s == Append(lexem_list, Leaf("{"))
           cs == current_statement
<1>a. /\ lexem_list \in Seq(HeapNodes) /\ lists \in Seq(Seq(HeapNodes))
      /\ blocks \in Seq(Seq(Seq(HeapNodes))) /\ cs \in 1 .. Len(blocks)
      /\ statement_stack \in Seq(Nat)
  BY Zenon DEF Sound, Shape
<1>b. /\ blocks' = Append(Ended(s), <<>>)
      /\ lexem_list' = <<>>
      /\ statement_stack' = Append(statement_stack, cs)
      /\ current_statement' = Len(blocks) + 1
      /\ lists' = lists /\ current_node' = current_node
      /\ stack' = stack /\ mode_stack' = mode_stack
  BY DEF OpenBlock
<1>c. /\ BlockOrder
      /\ \A k \in 1 .. Len(statement_stack) : Waiting(blocks[statement_stack[k]])
  BY Zenon DEF Sound, BlocksInv
<1>0. Leaf("{") \in HeapNodes
  BY LeafTyped, Zenon
<1>1. s \in Seq(HeapNodes) /\ s # <<>> /\ Last(s) = Leaf("{")
  <2>1. \A x \in HeapNodes : /\ Append(lexem_list, x) \in Seq(HeapNodes)
                          /\ Append(lexem_list, x) # <<>>
                          /\ Last(Append(lexem_list, x)) = x
    BY <1>a, AppendLast, Zenon
  <2> QED
    BY <1>0, <2>1, Zenon
<1>2. blocks[cs] \in Seq(Seq(HeapNodes))
  BY <1>a
<1> HIDE DEF s
<1>3. /\ Ended(s) \in Seq(Seq(Seq(HeapNodes)))
      /\ Len(Ended(s)) = Len(blocks)
      /\ Ended(s)[cs] = Append(blocks[cs], s)
      /\ \A b \in 1 .. Len(blocks) : b # cs => Ended(s)[b] = blocks[b]
  BY <1>1, EndedFacts, Zenon DEF Sound
<1>4. Waiting(Ended(s)[cs])
  <2>1. /\ Append(blocks[cs], s) # <<>>
        /\ Last(Append(blocks[cs], s)) = s
    BY <1>1, <1>2, AppendLast, Zenon
  <2> QED
    BY <1>1, <1>3, <2>1, Zenon DEF Waiting
<1>6. /\ blocks' \in Seq(Seq(Seq(HeapNodes)))
      /\ Len(blocks') = Len(blocks) + 1
      /\ \A b \in 1 .. Len(blocks) : blocks'[b] = Ended(s)[b]
  BY <1>3, <1>b
<1>7. Shape'
  <2>1. statement_stack' \in Seq(Nat) /\ current_statement' \in 1 .. Len(blocks')
    BY <1>a, <1>b, <1>6
  <2>2. /\ current_node \in 0 .. Len(lists) /\ stack \in Seq(Nat)
        /\ \A k \in 1 .. Len(stack) : stack[k] \in 0 .. Len(lists)
        /\ mode_stack \in Seq(Opening) /\ Len(mode_stack) <= Len(stack)
    BY Zenon DEF Sound, Shape
  <2>3. lexem_list' \in Seq(HeapNodes)
    BY <1>b
  <2> QED
    BY <1>a, <1>b, <1>6, <2>1, <2>2, <2>3 DEF Shape
<1>8. BlocksInv'
  <2>2. /\ Len(statement_stack') = Len(statement_stack) + 1
        /\ statement_stack'[Len(statement_stack) + 1] = cs
        /\ \A k \in 1 .. Len(statement_stack) : statement_stack'[k] = statement_stack[k]
    BY <1>a, <1>b
  <2>3. BlockOrder'
    <3>1. Ascending(statement_stack', current_statement')
      <4>1. cs \in Nat /\ Len(blocks) + 1 \in Nat /\ cs < Len(blocks) + 1
        BY <1>a
      <4>2. Ascending(statement_stack, cs)
        BY <1>c DEF BlockOrder
      <4> QED
        BY <1>a, <1>b, <4>1, <4>2, AscendingAppend
    <3>2. \A k \in 1 .. Len(statement_stack') : statement_stack'[k] \in 1 .. Len(blocks')
      <4>1. Len(statement_stack) \in Nat /\ Len(blocks) \in Nat
        BY <1>a
      <4>2. \A k \in 1 .. Len(statement_stack) : statement_stack[k] \in 1 .. Len(blocks)
        BY <1>c DEF BlockOrder
      <4>3. ASSUME NEW k \in 1 .. Len(statement_stack')
            PROVE  statement_stack'[k] \in 1 .. Len(blocks')
        <5>1. k \in 1 .. Len(statement_stack) \/ k = Len(statement_stack) + 1
          BY <2>2, <4>1
        <5>2. statement_stack'[k] \in 1 .. Len(blocks)
          BY <1>a, <2>2, <4>2, <5>1
        <5> QED
          BY <1>6, <4>1, <5>2
      <4> QED
        BY <4>3, Zenon
    <3> QED
      BY <3>1, <3>2, Zenon DEF BlockOrder, Ascending
  <2>4. ASSUME NEW k \in 1 .. Len(statement_stack')
        PROVE  Waiting(blocks'[statement_stack'[k]])
    <3>1. CASE k = Len(statement_stack) + 1
      BY <1>a, <1>4, <1>6, <2>2, <3>1
    <3>2. CASE k \in 1 .. Len(statement_stack)
      <4>1. /\ statement_stack[k] \in 1 .. Len(blocks)
            /\ statement_stack[k] # cs
            /\ Waiting(blocks[statement_stack[k]])
        BY <1>a, <1>c, <3>2 DEF BlockOrder, Ascending
      <4> QED
        BY <1>3, <1>6, <2>2, <3>2, <4>1
    <3> QED
      BY <1>a, <2>2, <3>1, <3>2
  <2> QED
    BY <2>3, <2>4, Zenon DEF BlocksInv, Waiting
<1>9. ~mismatched' => BracketsInv'
  <2> SUFFICES ASSUME ~mismatched PROVE BracketsInv'
    OBVIOUS
  <2>1. stack = <<>> /\ current_node = 0 /\ Len(stack) = Len(mode_stack)
    BY OutsideOfBrackets, Zenon DEF Sound, BracketsInv
  <2> QED
    BY <1>b, <2>1 DEF BracketsInv, Ascending
<1> QED
  BY <1>7, <1>8, <1>9 DEF Sound

LEMMA SemicolonKeeps ==
    ASSUME Sound, mode_stack = <<>>, Semicolon, ~mismatched' => ~mismatched
    PROVE  Sound'
<1> DEFINE s == Append(lexem_list, Leaf(";"))
<1>a. /\ lexem_list \in Seq(HeapNodes) /\ current_statement \in 1 .. Len(blocks)
      /\ statement_stack \in Seq(Nat)
  BY Zenon DEF Sound, Shape
<1>b. /\ blocks' = Ended(s)
      /\ lexem_list' = <<>>
      /\ statement_stack' = statement_stack /\ current_statement' = current_statement
      /\ lists' = lists /\ current_node' = current_node
      /\ stack' = stack /\ mode_stack' = mode_stack
  BY DEF Semicolon, nesting
<1>1. s \in Seq(HeapNodes)
  <2>1. Leaf(";") \in HeapNodes
    BY LeafTyped, Zenon
  <2>2. \A x \in HeapNodes : Append(lexem_list, x) \in Seq(HeapNodes)
    BY <1>a
  <2> QED
    BY <2>1, <2>2, Zenon
<1> HIDE DEF s
<1>3. /\ blocks' \in Seq(Seq(Seq(HeapNodes)))
      /\ Len(blocks') = Len(blocks)
      /\ \A b \in 1 .. Len(blocks) : b # current_statement => blocks'[b] = blocks[b]
  BY <1>1, <1>b, EndedFacts DEF Sound
<1>4. Shape'
  <2>1. /\ lists \in Seq(Seq(HeapNodes)) /\ current_node \in 0 .. Len(lists) /\ stack \in Seq(Nat)
        /\ \A k \in 1 .. Len(stack) : stack[k] \in 0 .. Len(lists)
        /\ mode_stack \in Seq(Opening) /\ Len(mode_stack) <= Len(stack)
    BY Zenon DEF Sound, Shape
  <2>2. lexem_list' \in Seq(HeapNodes)
    BY <1>b
  <2> QED
    BY <1>a, <1>b, <1>3, <2>1, <2>2 DEF Shape
<1>5. BlocksInv'
  <2>0. /\ BlockOrder
        /\ \A k \in 1 .. Len(statement_stack) : Waiting(blocks[statement_stack[k]])
    BY Zenon DEF Sound, BlocksInv
  <2>1. BlockOrder'
    BY <1>b, <1>3, <2>0 DEF BlockOrder, Ascending
  <2>2. \A k \in 1 .. Len(statement_stack) :
           blocks'[statement_stack[k]] = blocks[statement_stack[k]]
    BY <1>a, <1>3, <2>0 DEF BlockOrder, Ascending
  <2>3. \A k \in 1 .. Len(statement_stack') : Waiting(blocks'[statement_stack'[k]])
    BY <1>b, <2>0, <2>2
  <2> QED
    BY <2>1, <2>3, Zenon DEF BlocksInv, Waiting
<1>6. ~mismatched' => BracketsInv'
  <2> SUFFICES ASSUME ~mismatched PROVE BracketsInv'
    OBVIOUS
  <2>1. stack = <<>> /\ current_node = 0 /\ Len(stack) = Len(mode_stack)
    BY OutsideOfBrackets, Zenon DEF Sound, BracketsInv
  <2> QED
    BY <1>b, <2>1 DEF BracketsInv, Ascending
<1> QED
  BY <1>4, <1>5, <1>6 DEF Sound

LEMMA CloseBlockKeeps ==
    ASSUME Sound, mode_stack = <<>>, CloseBlock, ~mismatched' => ~mismatched,
           status = "read", status' = "read"
    PROVE  Sound'
<1> DEFINE all == IF lexem_list = <<>> THEN blocks ELSE Ended(lexem_list)
           outer == Last(statement_stack)
           cs == current_statement
<1>a. /\ lexem_list \in Seq(HeapNodes) /\ lists \in Seq(Seq(HeapNodes))
      /\ blocks \in Seq(Seq(Seq(HeapNodes))) /\ cs \in 1 .. Len(blocks)
      /\ statement_stack \in Seq(Nat)
  BY Zenon DEF Sound, Shape
<1>b. /\ statement_stack # <<>>
      /\ blocks' = Attach(all, outer, cs)
      /\ current_statement' = outer
      /\ statement_stack' = Front(statement_stack)
      /\ lexem_list' = <<>>
      /\ lists' = lists /\ current_node' = current_node
      /\ stack' = stack /\ mode_stack' = mode_stack
  BY DEF CloseBlock
<1>c. /\ Ascending(statement_stack, cs)
      /\ \A k \in 1 .. Len(statement_stack) : statement_stack[k] \in 1 .. Len(blocks)
      /\ \A k \in 1 .. Len(statement_stack) : Waiting(blocks[statement_stack[k]])
  BY Zenon DEF Sound, BlocksInv, BlockOrder
<1>1. /\ all \in Seq(Seq(Seq(HeapNodes)))
      /\ Len(all) = Len(blocks)
      /\ \A b \in 1 .. Len(blocks) : b # cs => all[b] = blocks[b]
  <2>1. /\ Ended(lexem_list) \in Seq(Seq(Seq(HeapNodes)))
        /\ Len(Ended(lexem_list)) = Len(blocks)
        /\ \A b \in 1 .. Len(blocks) : b # cs => Ended(lexem_list)[b] = blocks[b]
    BY <1>a, EndedFacts, Zenon DEF Sound
  <2> QED
    BY <1>a, <2>1
<1> HIDE DEF all
<1>2. /\ Front(statement_stack) \in Seq(Nat)
      /\ Len(Front(statement_stack)) = Len(statement_stack) - 1
      /\ \A k \in 1 .. Len(statement_stack) - 1 : Front(statement_stack)[k] = statement_stack[k]
      /\ outer = statement_stack[Len(statement_stack)]
      /\ Len(statement_stack) \in 1 .. Len(statement_stack)
  BY <1>a, <1>b, FrontFacts
<1> HIDE DEF outer
<1>3. \A k \in 1 .. Len(statement_stack) : statement_stack[k] \in Nat /\ statement_stack[k] # cs
  BY <1>a, <1>c DEF Ascending
<1>4. outer \in 1 .. Len(blocks) /\ outer # cs /\ Waiting(all[outer])
  BY <1>1, <1>2, <1>3, <1>c
<1>5. /\ blocks' \in Seq(Seq(Seq(HeapNodes)))
      /\ Len(blocks') = Len(blocks)
      /\ \A d \in 1 .. Len(blocks) : d # outer => blocks'[d] = all[d]
  <2>1. outer \in 1 .. Len(all) /\ cs \in Nat
    BY <1>a, <1>1, <1>4
  <2>2. /\ Attach(all, outer, cs) \in Seq(Seq(Seq(HeapNodes)))
        /\ Len(Attach(all, outer, cs)) = Len(all)
        /\ \A d \in 1 .. Len(all) : d # outer => Attach(all, outer, cs)[d] = all[d]
    BY <1>1, <1>4, <2>1, AttachFacts, Zenon
  <2> QED
    BY <1>b, <1>1, <2>2
<1>6. Shape'
  <2>1. /\ current_node \in 0 .. Len(lists) /\ stack \in Seq(Nat)
        /\ \A k \in 1 .. Len(stack) : stack[k] \in 0 .. Len(lists)
        /\ mode_stack \in Seq(Opening) /\ Len(mode_stack) <= Len(stack)
    BY Zenon DEF Sound, Shape
  <2>2. lexem_list' \in Seq(HeapNodes)
    BY <1>b
  <2> QED
    BY <1>a, <1>b, <1>2, <1>4, <1>5, <2>1, <2>2 DEF Shape
<1>7. BlocksInv'
  <2>1. Ascending(statement_stack', current_statement')
    <3>1. Ascending(Front(statement_stack), Last(statement_stack))
      BY <1>a, <1>b, <1>c, AscendingFront
    <3> QED
      BY <1>b, <3>1 DEF outer
  <2>2. ASSUME NEW k \in 1 .. Len(statement_stack')
        PROVE  /\ statement_stack'[k] \in 1 .. Len(blocks')
               /\ Waiting(blocks'[statement_stack'[k]])
    <3>1. k \in 1 .. Len(statement_stack) /\ k < Len(statement_stack)
      BY <1>b, <1>2
    <3>2. statement_stack'[k] = statement_stack[k]
      BY <1>b, <1>2, <3>1
    <3>3. statement_stack[k] \in 1 .. Len(blocks) /\ statement_stack[k] # outer
      BY <1>c, <1>2, <1>3, <3>1 DEF Ascending
    <3>4. blocks'[statement_stack[k]] = blocks[statement_stack[k]]
      BY <1>1, <1>3, <1>5, <3>1, <3>3
    <3> QED
      BY <1>c, <1>5, <3>1, <3>2, <3>3, <3>4
  <2> QED
    BY <2>1, <2>2, Zenon DEF BlocksInv, BlockOrder, Waiting, Ascending
<1>8. ~mismatched' => BracketsInv'
  <2> SUFFICES ASSUME ~mismatched PROVE BracketsInv'
    OBVIOUS
  <2>1. stack = <<>> /\ current_node = 0 /\ Len(stack) = Len(mode_stack)
    BY OutsideOfBrackets, Zenon DEF Sound, BracketsInv
  <2> QED
    BY <1>b, <2>1 DEF BracketsInv, Ascending
<1> QED
  BY <1>6, <1>7, <1>8 DEF Sound

\* The blocks are not touched within brackets.
LEMMA BlocksUntouched ==
    ASSUME BlocksInv,
           blocks' = blocks, current_statement' = current_statement,
           statement_stack' = statement_stack
    PROVE  BlocksInv'
BY DEF BlocksInv, BlockOrder, Ascending, Waiting

\* A lexeme is pushed: only the list current_node points to changes.
LEMMA PushFacts ==
    ASSUME Shape, NEW node \in HeapNodes, Push(node)
    PROVE  /\ lexem_list' \in Seq(HeapNodes)
           /\ lists' \in Seq(Seq(HeapNodes))
           /\ Len(lists') = Len(lists)
           /\ \A id \in 0 .. Len(lists) : id # current_node => List(id)' = List(id)
<1>a. /\ lexem_list \in Seq(HeapNodes) /\ lists \in Seq(Seq(HeapNodes))
      /\ current_node \in 0 .. Len(lists)
  BY Zenon DEF Shape
<1>1. CASE current_node = 0
  <2>1. lexem_list' = Append(lexem_list, node) /\ lists' = lists
    BY <1>1 DEF Push
  <2> QED
    BY <1>a, <1>1, <2>1 DEF List
<1>2. CASE current_node # 0
  <2>1. /\ lists' = [lists EXCEPT ![current_node] = Append(@, node)]
        /\ lexem_list' = lexem_list
    BY <1>2 DEF Push
  <2>2. current_node \in 1 .. Len(lists) /\ lists[current_node] \in Seq(HeapNodes)
    BY <1>a, <1>2
  <2>3. Append(lists[current_node], node) \in Seq(HeapNodes)
    BY <2>2
  <2>4. /\ lists' \in Seq(Seq(HeapNodes)) /\ Len(lists') = Len(lists)
        /\ \A id \in 1 .. Len(lists) : id # current_node => lists'[id] = lists[id]
    BY <1>a, <2>1, <2>2, <2>3
  <2> QED
    BY <1>a, <1>2, <2>1, <2>4 DEF List
<1> QED
  BY <1>1, <1>2

LEMMA OtherKeeps ==
    ASSUME Sound, NEW lexem \in Lexems, Other(lexem), ~mismatched' => ~mismatched
    PROVE  Sound'
<1>1. Leaf(lexem) \in HeapNodes /\ Push(Leaf(lexem))
  BY LeafTyped DEF Other
<1>2. /\ blocks' = blocks /\ current_statement' = current_statement
      /\ statement_stack' = statement_stack /\ current_node' = current_node
      /\ stack' = stack /\ mode_stack' = mode_stack
  BY DEF Other, nesting
<1>3. /\ lexem_list' \in Seq(HeapNodes)
      /\ lists' \in Seq(Seq(HeapNodes))
      /\ Len(lists') = Len(lists)
      /\ \A id \in 0 .. Len(lists) : id # current_node => List(id)' = List(id)
  BY <1>1, PushFacts, Zenon DEF Sound
<1>4. Shape'
  <2>1. Shape
    BY DEF Sound
  <2> QED
    BY <1>2, <1>3, <2>1 DEF Shape
<1>5. BlocksInv'
  BY <1>2, BlocksUntouched, Zenon DEF Sound
<1>6. ~mismatched' => BracketsInv'
  <2> SUFFICES ASSUME ~mismatched PROVE BracketsInv'
    OBVIOUS
  <2>1. BracketsInv /\ Shape
    BY Zenon DEF Sound
  <2>2. ASSUME NEW k \in 1 .. Len(stack)
        PROVE  List(stack[k])' = List(stack[k])
    <3>1. stack[k] \in 0 .. Len(lists) /\ stack[k] # current_node
      BY <2>1 DEF BracketsInv, Ascending, Shape
    <3>2. \A id \in 0 .. Len(lists) : id # current_node => List(id)' = List(id)
      BY <1>3
    <3> QED
      BY <1>2, <3>1, <3>2 DEF List
  <2> QED
    BY <1>2, <2>1, <2>2 DEF BracketsInv, Ascending, Inner
<1> QED
  BY <1>4, <1>5, <1>6 DEF Sound

\* A bracket opens: its lexeme is pushed, and the list it owns is new.
LEMMA OpenBracketFacts ==
    ASSUME Shape, NEW lexem \in Lexems, OpenBracket(lexem)
    PROVE  /\ lexem_list' \in Seq(HeapNodes)
           /\ lists' \in Seq(Seq(HeapNodes))
           /\ Len(lists') = Len(lists) + 1
           /\ \A id \in 0 .. Len(lists) : id # current_node => List(id)' = List(id)
           /\ \A id \in 0 .. Len(lists) : id = current_node =>
                 List(id)' = Append(List(id), Node(lexem, Len(lists) + 1, 0))
           /\ List(current_node) \in Seq(HeapNodes)
           /\ Node(lexem, Len(lists) + 1, 0) \in HeapNodes
<1> DEFINE node == Node(lexem, Len(lists) + 1, 0)
           empty == <<>>
<1>a. /\ lexem_list \in Seq(HeapNodes) /\ lists \in Seq(Seq(HeapNodes))
      /\ current_node \in 0 .. Len(lists)
  BY Zenon DEF Shape
<1>b. node \in HeapNodes
  BY <1>a DEF Node, HeapNodes
<1>c. List(current_node) \in Seq(HeapNodes)
  BY <1>a DEF List
<1>d. IF current_node = 0
      THEN lexem_list' = Append(lexem_list, node) /\ lists' = Append(lists, empty)
      ELSE /\ lists' = Append([lists EXCEPT ![current_node] = Append(@, node)], empty)
           /\ lexem_list' = lexem_list
  BY DEF OpenBracket
<1>e. empty \in Seq(HeapNodes)
  OBVIOUS
<1> HIDE DEF node, empty
<1> DEFINE Facts ==
             /\ lexem_list' \in Seq(HeapNodes)
             /\ lists' \in Seq(Seq(HeapNodes))
             /\ Len(lists') = Len(lists) + 1
             /\ \A id \in 0 .. Len(lists) : id # current_node => List(id)' = List(id)
             /\ \A id \in 0 .. Len(lists) : id = current_node => List(id)' = Append(List(id), node)
<1>f. \A h \in Seq(Seq(HeapNodes)) :
         /\ Append(h, empty) \in Seq(Seq(HeapNodes))
         /\ Len(Append(h, empty)) = Len(h) + 1
         /\ \A id \in 1 .. Len(h) : Append(h, empty)[id] = h[id]
  <2> TAKE h \in Seq(Seq(HeapNodes))
  <2> DEFINE Lists == Seq(HeapNodes)
  <2>1. h \in Seq(Lists) /\ empty \in Lists
    BY <1>e
  <2> HIDE DEF Lists
  <2>2. /\ Append(h, empty) \in Seq(Lists)
        /\ Len(Append(h, empty)) = Len(h) + 1
        /\ \A id \in 1 .. Len(h) : Append(h, empty)[id] = h[id]
    BY <2>1, AppendFacts
  <2> QED
    BY <2>2 DEF Lists
<1>g. Append(lexem_list, node) \in Seq(HeapNodes)
  BY <1>a, <1>b
<1>3. Facts
  <2>1. CASE current_node = 0
    <3>0. lists' = Append(lists, empty) /\ lexem_list' = Append(lexem_list, node)
      BY <1>d, <2>1
    <3>1. /\ lexem_list' \in Seq(HeapNodes)
          /\ lexem_list' = Append(lexem_list, node)
      BY <1>g, <3>0
    <3>2. /\ lists' \in Seq(Seq(HeapNodes))
          /\ Len(lists') = Len(lists) + 1
          /\ \A id \in 1 .. Len(lists) : lists'[id] = lists[id]
      BY <1>a, <1>f, <3>0, Zenon
    <3>3. \A id \in 0 .. Len(lists) : id = 0 \/ id \in 1 .. Len(lists)
      BY <1>a
    <3>4. \A id \in 0 .. Len(lists) : id # current_node => List(id)' = List(id)
      BY <2>1, <3>2, <3>3 DEF List
    <3>5. \A id \in 0 .. Len(lists) : id = current_node => List(id)' = Append(List(id), node)
      BY <2>1, <3>1 DEF List
    <3> QED
      BY <3>1, <3>2, <3>4, <3>5
  <2>2. CASE current_node # 0
    <3>1. current_node \in 1 .. Len(lists) /\ lists[current_node] \in Seq(HeapNodes)
      BY <1>a, <2>2
    <3>2. Append(lists[current_node], node) \in Seq(HeapNodes)
      BY <1>b, <3>1
    <3> DEFINE mid == [lists EXCEPT ![current_node] = Append(lists[current_node], node)]
    <3>3. /\ mid \in Seq(Seq(HeapNodes)) /\ Len(mid) = Len(lists)
          /\ \A id \in 1 .. Len(lists) : id # current_node => mid[id] = lists[id]
          /\ mid[current_node] = Append(lists[current_node], node)
      BY <1>a, <3>1, <3>2
    <3>4. lists' = Append(mid, empty) /\ lexem_list' = lexem_list
      BY <1>d, <2>2
    <3> HIDE DEF mid
    <3>5. /\ lists' \in Seq(Seq(HeapNodes)) /\ Len(lists') = Len(lists) + 1
          /\ \A id \in 1 .. Len(lists) : lists'[id] = mid[id]
      <4>1. mid \in Seq(Seq(HeapNodes)) /\ lists' = Append(mid, empty)
        BY <3>3, <3>4
      <4>2. /\ lists' \in Seq(Seq(HeapNodes)) /\ Len(lists') = Len(mid) + 1
            /\ \A id \in 1 .. Len(mid) : lists'[id] = mid[id]
        BY <1>f, <4>1, Zenon
      <4> QED
        BY <3>3, <4>2
    <3>6. \A id \in 1 .. Len(lists) : id # current_node => lists'[id] = lists[id]
      BY <3>3, <3>5
    <3>7. lists'[current_node] = Append(lists[current_node], node)
      BY <3>1, <3>3, <3>5
    <3>8. \A id \in 0 .. Len(lists) : id = 0 \/ id \in 1 .. Len(lists)
      BY <1>a
    <3>9. \A id \in 0 .. Len(lists) : id # current_node => List(id)' = List(id)
      BY <3>4, <3>6, <3>8 DEF List
    <3>10. \A id \in 0 .. Len(lists) : id = current_node => List(id)' = Append(List(id), node)
      BY <2>2, <3>7 DEF List
    <3> QED
      BY <1>a, <3>4, <3>5, <3>9, <3>10
  <2> QED
    BY <2>1, <2>2
<1> QED
  BY <1>b, <1>c, <1>3 DEF node

LEMMA OpenBracketKeeps ==
    ASSUME Sound, NEW lexem \in Lexems, lexem \in Opening, OpenBracket(lexem),
           ~mismatched' => ~mismatched
    PROVE  Sound'
<1> DEFINE node == Node(lexem, Len(lists) + 1, 0)
<1>a. /\ blocks' = blocks /\ current_statement' = current_statement
      /\ statement_stack' = statement_stack
      /\ stack' = Append(stack, current_node)
      /\ current_node' = Len(lists) + 1
      /\ mode_stack' = Append(mode_stack, lexem)
  BY DEF OpenBracket
<1>b. /\ lists \in Seq(Seq(HeapNodes)) /\ current_node \in 0 .. Len(lists)
      /\ stack \in Seq(Nat) /\ mode_stack \in Seq(Opening)
      /\ \A k \in 1 .. Len(stack) : stack[k] \in 0 .. Len(lists)
      /\ Len(mode_stack) <= Len(stack)
      /\ blocks \in Seq(Seq(Seq(HeapNodes)))
      /\ current_statement \in 1 .. Len(blocks) /\ statement_stack \in Seq(Nat)
  BY Zenon DEF Sound, Shape
<1>c. /\ lexem_list' \in Seq(HeapNodes)
      /\ lists' \in Seq(Seq(HeapNodes))
      /\ Len(lists') = Len(lists) + 1
      /\ \A id \in 0 .. Len(lists) : id # current_node => List(id)' = List(id)
      /\ \A id \in 0 .. Len(lists) : id = current_node => List(id)' = Append(List(id), node)
      /\ List(current_node) \in Seq(HeapNodes)
      /\ node \in HeapNodes
  BY OpenBracketFacts, Zenon DEF Sound
<1>d. /\ stack' \in Seq(Nat) /\ Len(stack') = Len(stack) + 1
      /\ stack'[Len(stack) + 1] = current_node
      /\ \A k \in 1 .. Len(stack) : stack'[k] = stack[k]
      /\ mode_stack' \in Seq(Opening) /\ Len(mode_stack') = Len(mode_stack) + 1
      /\ mode_stack'[Len(mode_stack) + 1] = lexem
      /\ \A k \in 1 .. Len(mode_stack) : mode_stack'[k] = mode_stack[k]
  BY <1>a, <1>b
<1>e. Len(stack) \in Nat /\ Len(mode_stack) \in Nat /\ Len(lists) \in Nat
  BY <1>b
<1>4. Shape'
  <2>1. ASSUME NEW k \in 1 .. Len(stack')
        PROVE  stack'[k] \in 0 .. Len(lists')
    <3>1. k \in 1 .. Len(stack) \/ k = Len(stack) + 1
      BY <1>d, <1>e
    <3>2. stack'[k] \in 0 .. Len(lists)
      BY <1>b, <1>d, <3>1
    <3> QED
      BY <1>c, <1>e, <3>2
  <2>2. current_node' \in 0 .. Len(lists') /\ Len(mode_stack') <= Len(stack')
    BY <1>a, <1>b, <1>c, <1>d, <1>e
  <2> QED
    BY <1>a, <1>b, <1>c, <1>d, <2>1, <2>2 DEF Shape
<1>5. BlocksInv'
  BY <1>a, BlocksUntouched, Zenon DEF Sound
<1>6. ~mismatched' => BracketsInv'
  <2> SUFFICES ASSUME ~mismatched PROVE BracketsInv'
    OBVIOUS
  <2>1. /\ Len(stack) = Len(mode_stack)
        /\ IF stack = <<>> THEN current_node = 0 ELSE stack[1] = 0
        /\ Ascending(stack, current_node)
        /\ \A k \in 1 .. Len(stack) :
              /\ List(stack[k]) # <<>>
              /\ Last(List(stack[k])) = Node(mode_stack[k], Inner(k), 0)
    BY Zenon DEF Sound, BracketsInv
  <2>2. Ascending(stack', current_node')
    BY <1>a, <1>b, <1>e, <2>1, AscendingAppend
  <2>3. stack' # <<>> /\ stack'[1] = 0
    <3>1. CASE stack = <<>>
      BY <1>d, <2>1, <3>1
    <3>2. CASE stack # <<>>
      <4>1. 1 \in 1 .. Len(stack)
        BY <1>b, <3>2
      <4>2. stack' # <<>>
        BY <1>d, <1>e
      <4> QED
        BY <1>d, <2>1, <3>2, <4>1, <4>2
    <3> QED
      BY <3>1, <3>2
  <2>4. ASSUME NEW k \in 1 .. Len(stack')
        PROVE  /\ List(stack[k])' # <<>>
               /\ Last(List(stack[k])') = Node(mode_stack'[k], Inner(k)', 0)
    <3>1. CASE k = Len(stack) + 1
      <4>1. List(stack[k])' = Append(List(current_node), node)
        <5>2. \A id \in 0 .. Len(lists) : id = current_node =>
                 (IF id = 0 THEN lexem_list' ELSE lists'[id]) = Append(List(id), node)
          BY <1>c DEF List
        <5>3. List(stack[k])' = (IF current_node = 0 THEN lexem_list' ELSE lists'[current_node])
          BY <1>d, <3>1 DEF List
        <5> QED
          BY <1>b, <5>2, <5>3
      <4>2. Inner(k)' = Len(lists) + 1 /\ mode_stack'[k] = lexem
        BY <1>a, <1>d, <2>1, <3>1 DEF Inner
      <4>3. /\ Append(List(current_node), node) # <<>>
            /\ Last(Append(List(current_node), node)) = node
        BY <1>c, AppendLast, Zenon
      <4> QED
        BY <4>1, <4>2, <4>3
    <3>2. CASE k \in 1 .. Len(stack)
      <4>0. stack[k] < current_node
        BY <2>1, <3>2 DEF Ascending
      <4>1. stack[k] \in 0 .. Len(lists) /\ stack[k] # current_node /\ stack'[k] = stack[k]
        <5>1. stack[k] \in 0 .. Len(lists) /\ stack'[k] = stack[k]
          BY <1>b, <1>d, <3>2
        <5>2. stack[k] # current_node
          BY <1>b, <4>0, <5>1
        <5> QED
          BY <5>1, <5>2
      <4>2. List(stack[k])' = List(stack[k])
        BY <1>c, <4>1 DEF List
      <4>3. Inner(k)' = Inner(k)
        <5>1. CASE k = Len(stack)
          <6>1. k # Len(stack') /\ stack'[k + 1] = current_node
            BY <1>d, <1>e, <5>1
          <6> QED
            BY <5>1, <6>1 DEF Inner
        <5>2. CASE k < Len(stack)
          <6>1. /\ k # Len(stack') /\ k # Len(stack)
                /\ k + 1 \in 1 .. Len(stack)
            BY <1>d, <1>e, <3>2, <5>2
          <6> QED
            BY <1>d, <6>1 DEF Inner
        <5> QED
          BY <1>e, <3>2, <5>1, <5>2
      <4>4. mode_stack'[k] = mode_stack[k]
        BY <1>d, <2>1, <3>2
      <4> QED
        BY <2>1, <3>2, <4>2, <4>3, <4>4
    <3> QED
      BY <1>d, <1>e, <3>1, <3>2
  <2>5. Len(stack') = Len(mode_stack')
    BY <1>d, <2>1
  <2> QED
    BY <2>2, <2>3, <2>4, <2>5 DEF BracketsInv, Ascending
<1> QED
  BY <1>4, <1>5, <1>6 DEF Sound

LEMMA CloseBracketKeeps ==
    ASSUME Sound, NEW lexem, mode_stack # <<>>, CloseBracket(lexem),
           ~mismatched' => ~mismatched /\ Last(mode_stack) = Partner(lexem)
    PROVE  Sound'
<1>a. /\ lexem_list \in Seq(HeapNodes) /\ lists \in Seq(Seq(HeapNodes))
      /\ blocks \in Seq(Seq(Seq(HeapNodes)))
      /\ current_node \in 0 .. Len(lists)
      /\ current_statement \in 1 .. Len(blocks) /\ statement_stack \in Seq(Nat)
  BY Zenon DEF Sound, Shape
<1>b. /\ stack \in Seq(Nat) /\ mode_stack \in Seq(Opening)
      /\ \A k \in 1 .. Len(stack) : stack[k] \in 0 .. Len(lists)
      /\ Len(mode_stack) <= Len(stack)
  BY Zenon DEF Sound, Shape
<1>c. /\ blocks' = blocks /\ current_statement' = current_statement
      /\ statement_stack' = statement_stack
      /\ lexem_list' = lexem_list /\ lists' = lists
      /\ mode_stack' = Front(mode_stack)
  BY DEF CloseBracket, tree
<1>d. /\ Front(mode_stack) \in Seq(Opening)
      /\ Len(Front(mode_stack)) = Len(mode_stack) - 1
      /\ \A k \in 1 .. Len(mode_stack) - 1 : Front(mode_stack)[k] = mode_stack[k]
      /\ Len(mode_stack) \in 1 .. Len(mode_stack)
  BY <1>b, FrontFacts
<1>e. stack # <<>> /\ Len(stack) \in Nat /\ Len(mode_stack) \in Nat
  BY <1>b, <1>d
<1>f. /\ Front(stack) \in Seq(Nat)
      /\ Len(Front(stack)) = Len(stack) - 1
      /\ \A k \in 1 .. Len(stack) - 1 : Front(stack)[k] = stack[k]
      /\ Last(stack) = stack[Len(stack)]
      /\ Len(stack) \in 1 .. Len(stack)
  BY <1>b, <1>e, FrontFacts
<1>1. CASE Last(mode_stack) = Partner(lexem)
  <2>a. current_node' = Last(stack) /\ stack' = Front(stack)
    BY <1>1 DEF CloseBracket
  <2>1. Shape'
    <3>1. current_node' \in 0 .. Len(lists')
      BY <1>b, <1>c, <1>f, <2>a
    <3>2. \A k \in 1 .. Len(stack') : stack'[k] \in 0 .. Len(lists')
      <4>1. \A k \in 1 .. Len(stack) - 1 : stack[k] \in 0 .. Len(lists)
        BY <1>b, <1>e
      <4>2. \A k \in 1 .. Len(stack') : k \in 1 .. Len(stack) - 1 /\ stack'[k] = stack[k]
        BY <1>f, <2>a
      <4> QED
        BY <1>c, <4>1, <4>2
    <3>3. Len(mode_stack') <= Len(stack')
      BY <1>b, <1>c, <1>d, <1>e, <1>f, <2>a
    <3> QED
      BY <1>a, <1>c, <1>d, <1>f, <2>a, <3>1, <3>2, <3>3 DEF Shape
  <2>2. ~mismatched' => BracketsInv'
    <3> SUFFICES ASSUME ~mismatched PROVE BracketsInv'
      OBVIOUS
    <3>1. /\ Len(stack) = Len(mode_stack)
          /\ stack[1] = 0
          /\ Ascending(stack, current_node)
          /\ \A k \in 1 .. Len(stack) :
                /\ List(stack[k]) # <<>>
                /\ Last(List(stack[k])) = Node(mode_stack[k], Inner(k), 0)
      BY <1>e, Zenon DEF Sound, BracketsInv
    <3>2. Ascending(stack', current_node')
      BY <1>b, <1>e, <2>a, <3>1, AscendingFront
    <3>3. IF stack' = <<>> THEN current_node' = 0 ELSE stack'[1] = 0
      <4>1. CASE Len(stack) = 1
        <5>1. stack' = <<>>
          BY <1>f, <2>a, <4>1
        <5> QED
          BY <1>f, <2>a, <3>1, <4>1, <5>1
      <4>2. CASE Len(stack) > 1
        <5>1. 1 \in 1 .. Len(stack) - 1 /\ Len(stack') # 0
          BY <1>e, <1>f, <2>a, <4>2
        <5>2. stack'[1] = 0 /\ stack' # <<>>
          BY <1>f, <2>a, <3>1, <5>1
        <5> QED
          BY <5>2
      <4> QED
        BY <1>f, <4>1, <4>2
    <3>4. ASSUME NEW k \in 1 .. Len(stack')
          PROVE  /\ List(stack[k])' # <<>>
                 /\ Last(List(stack[k])') = Node(mode_stack'[k], Inner(k)', 0)
      <4>1. k \in 1 .. Len(stack) /\ k \in 1 .. Len(stack) - 1
        BY <1>e, <1>f, <2>a
      <4>2. stack'[k] = stack[k] /\ mode_stack'[k] = mode_stack[k]
        BY <1>c, <1>d, <1>f, <2>a, <3>1, <4>1
      <4>3. List(stack[k])' = List(stack[k])
        BY <1>c, <4>2 DEF List
      <4>4. Inner(k)' = Inner(k)
        <5>1. CASE k = Len(stack) - 1
          BY <1>e, <1>f, <2>a, <5>1 DEF Inner
        <5>2. CASE k < Len(stack) - 1
          <6>1. k + 1 \in 1 .. Len(stack) - 1
            BY <1>e, <4>1, <5>2
          <6>2. k # Len(stack') /\ k # Len(stack)
            BY <1>e, <1>f, <2>a, <4>1, <5>2
          <6> QED
            BY <1>f, <2>a, <6>1, <6>2 DEF Inner
        <5> QED
          BY <1>e, <4>1, <5>1, <5>2
      <4> QED
        BY <3>1, <4>1, <4>2, <4>3, <4>4
    <3>5. Len(stack') = Len(mode_stack')
      BY <1>c, <1>d, <1>f, <2>a, <3>1
    <3> QED
      BY <3>2, <3>3, <3>4, <3>5 DEF BracketsInv, Ascending
  <2>3. BlocksInv'
    BY <1>c, BlocksUntouched, Zenon DEF Sound
  <2> QED
    BY <2>1, <2>2, <2>3 DEF Sound
<1>2. CASE Last(mode_stack) # Partner(lexem)
  <2>a. current_node' = current_node /\ stack' = stack
    BY <1>2 DEF CloseBracket
  <2>1. Shape'
    <3>1. Len(mode_stack') <= Len(stack')
      BY <1>b, <1>c, <1>d, <1>e, <2>a
    <3> QED
      BY <1>a, <1>b, <1>c, <1>d, <2>a, <3>1 DEF Shape
  <2>2. mismatched'
    BY <1>2
  <2>3. BlocksInv'
    BY <1>c, BlocksUntouched, Zenon DEF Sound
  <2> QED
    BY <2>1, <2>2, <2>3 DEF Sound
<1> QED
  BY <1>1, <1>2

-----------------------------------------------------------------------------
LEMMA InitInv == Init => IInv
<1> SUFFICES ASSUME Init PROVE IInv
  OBVIOUS
<1>a. /\ lexem_list = <<>> /\ lists = <<>> /\ blocks = << <<>> >> /\ current_node = 0
      /\ stack = <<>> /\ mode_stack = <<>> /\ current_statement = 1
      /\ statement_stack = <<>> /\ program \in Programs \union {<<>>}
  BY DEF Init
<1>1. Shape
  <2>1. lexem_list \in Seq(HeapNodes) /\ stack \in Seq(Nat) /\ statement_stack \in Seq(Nat)
    BY <1>a
  <2>2. lists \in Seq(Seq(HeapNodes)) /\ Len(lists) = 0
    BY <1>a
  <2>3. mode_stack \in Seq(Opening) /\ Len(mode_stack) = 0 /\ Len(stack) = 0
    BY <1>a
  <2>4. blocks \in Seq(Seq(Seq(HeapNodes))) /\ Len(blocks) = 1
    <3> DEFINE empty == <<>>
    <3>1. empty \in Seq(Seq(HeapNodes))
      OBVIOUS
    <3>2. blocks = <<empty>>
      BY <1>a
    <3> HIDE DEF empty
    <3> QED
      BY <3>1, <3>2
  <2> QED
    BY <1>a, <2>1, <2>2, <2>3, <2>4 DEF Shape
<1>2. BlocksInv
  BY <1>a DEF BlocksInv, BlockOrder, Ascending
<1>3. BracketsInv
  BY <1>a DEF BracketsInv, Ascending
<1> QED
  BY <1>a, <1>1, <1>2, <1>3 DEF IInv

LEMMA AddLexemKeeps ==
    ASSUME IInv, NEW lexem \in Lexems, AddLexem(lexem), status' = "read"
    PROVE  Sound'
<1>1. Sound /\ status = "read" /\ Treat(lexem)
  BY Zenon DEF IInv, Sound, AddLexem
<1>2. /\ ~mismatched' => ~mismatched
      /\ mode_stack # <<>> /\ lexem \in Closing /\ ~mismatched' =>
            Last(mode_stack) = Partner(lexem)
  BY Zenon DEF AddLexem
<1>3. CASE mode_stack = <<>> /\ OpenBlock
  BY <1>1, <1>2, <1>3, OpenBlockKeeps
<1>4. CASE mode_stack = <<>> /\ CloseBlock
  BY <1>1, <1>2, <1>4, CloseBlockKeeps
<1>5. CASE mode_stack = <<>> /\ Semicolon
  BY <1>1, <1>2, <1>5, SemicolonKeeps
<1>6. CASE lexem \in Opening /\ OpenBracket(lexem)
  BY <1>1, <1>2, <1>6, OpenBracketKeeps
<1>7. CASE mode_stack # <<>> /\ lexem \in Closing /\ CloseBracket(lexem)
  BY <1>1, <1>2, <1>7, CloseBracketKeeps
<1>8. CASE mode_stack = <<>> /\ Other(lexem)
  BY <1>1, <1>2, <1>8, OtherKeeps
<1>9. CASE lexem \notin Opening \union Closing /\ Other(lexem)
  BY <1>1, <1>2, <1>9, OtherKeeps
<1> QED
  BY <1>1, <1>3, <1>4, <1>5, <1>6, <1>7, <1>8, <1>9, Zenon DEF Treat

LEMMA NextInv == IInv /\ [Next]_vars => IInv'
<1> SUFFICES ASSUME IInv, [Next]_vars PROVE IInv'
  OBVIOUS
<1>1. ASSUME NEW lexem \in Alphabet \union {program[k] : k \in DOMAIN program}, AddLexem(lexem)
      PROVE  IInv'
  <2>1. lexem \in Lexems
    <3>1. CASE lexem \in Alphabet
      BY <3>1 DEF Lexems
    <3>2. CASE lexem \in {program[k] : k \in DOMAIN program}
      <4>1. program \in Programs \union {<<>>}
        BY DEF IInv
      <4>2. lexem \in UNION {{text[k] : k \in DOMAIN text} : text \in Programs \union {<<>>}}
        BY <3>2, <4>1
      <4> QED
        BY <4>2 DEF Lexems
    <3> QED
      BY <3>1, <3>2
  <2>2. program' = program
    BY <1>1 DEF AddLexem
  <2>3. status' = "read" => Sound'
    BY <1>1, <2>1, AddLexemKeeps
  <2> QED
    BY <2>2, <2>3 DEF IInv, Sound
<1>2. CASE CodeThree
  BY <1>2 DEF CodeThree, IInv
<1>3. CASE FixThree
  <2>1. status' # "read" /\ program' = program
    BY <1>3 DEF FixThree, Returned, Join, Keep, MoveElse, Proceed
  <2> QED
    BY <2>1 DEF IInv
<1>4. CASE UNCHANGED vars
  <2>1. /\ lexem_list' = lexem_list /\ lists' = lists /\ blocks' = blocks
        /\ current_node' = current_node /\ stack' = stack /\ mode_stack' = mode_stack
        /\ current_statement' = current_statement /\ statement_stack' = statement_stack
        /\ status' = status /\ mismatched' = mismatched /\ program' = program
    BY <1>4 DEF vars, tree, nesting
  <2>2. Shape' <=> Shape
    BY <2>1 DEF Shape
  <2>3. BlocksInv' <=> BlocksInv
    BY <2>1 DEF BlocksInv, BlockOrder, Ascending, Waiting
  <2>4. BracketsInv' <=> BracketsInv
    BY <2>1 DEF BracketsInv, Ascending, Inner, List
  <2> QED
    BY <2>1, <2>2, <2>3, <2>4 DEF IInv
<1> QED
  BY <1>1, <1>2, <1>3, <1>4 DEF Next

LEMMA Strengthening == IInv => BracketsNest /\ BlocksWait
<1> SUFFICES ASSUME IInv, status = "read" PROVE BracketsNest /\ BlocksWait
  BY DEF BracketsNest, BlocksWait
<1>1. Shape /\ BlocksInv /\ (~mismatched => BracketsInv)
  BY DEF IInv
<1>2. stack \in Seq(Nat) /\ statement_stack \in Seq(Nat) /\ current_node \in Nat
  BY <1>1 DEF Shape
<1>3. BlocksWait
  <2>1. DOMAIN statement_stack = 1 .. Len(statement_stack)
    BY <1>2
  <2> QED
    BY <1>1, <2>1, Zenon DEF BlocksInv, BlocksWait, Waiting
<1>4. BracketsNest
  <2> SUFFICES ASSUME ~mismatched PROVE BracketsNest
    BY Zenon DEF BracketsNest
  <2> DEFINE path == Append(stack, current_node)
  <2>1. /\ Len(stack) = Len(mode_stack)
        /\ IF stack = <<>> THEN current_node = 0 ELSE stack[1] = 0
        /\ \A k \in 1 .. Len(stack) :
              /\ List(stack[k]) # <<>>
              /\ Last(List(stack[k])) = Node(mode_stack[k], Inner(k), 0)
    BY <1>1, Zenon DEF BracketsInv
  <2>2. /\ path[Len(stack) + 1] = current_node
        /\ \A k \in 1 .. Len(stack) : path[k] = stack[k]
        /\ DOMAIN stack = 1 .. Len(stack) /\ Len(stack) \in Nat
    BY <1>2
  <2> HIDE DEF path
  <2>3. path[1] = 0
    <3>1. CASE Len(stack) = 0
      BY <1>2, <2>1, <2>2, <3>1
    <3>2. CASE Len(stack) # 0
      <4>1. 1 \in 1 .. Len(stack) /\ stack # <<>>
        BY <2>2, <3>2
      <4> QED
        BY <2>1, <2>2, <4>1
    <3> QED
      BY <3>1, <3>2
  <2>4. \A k \in 1 .. Len(stack) : path[k + 1] = Inner(k)
    <3> TAKE k \in 1 .. Len(stack)
    <3>1. CASE k = Len(stack)
      BY <2>2, <3>1 DEF Inner
    <3>2. CASE k < Len(stack)
      <4>1. k + 1 \in 1 .. Len(stack) /\ k # Len(stack)
        <5>1. Len(stack) \in Nat
          BY <2>2
        <5> QED
          BY <3>2, <5>1
      <4> QED
        BY <2>2, <4>1 DEF Inner
    <3> QED
      BY <2>2, <3>1, <3>2
  <2>5. \A k \in DOMAIN stack :
           /\ List(path[k]) # <<>>
           /\ Last(List(path[k])) = Node(mode_stack[k], path[k + 1], 0)
    BY <2>1, <2>2, <2>4
  <2> QED
    BY <2>1, <2>3, <2>5, Zenon DEF BracketsNest, path
<1> QED
  BY <1>3, <1>4

\* In every text without a mismatched bracket, however deep it nests, AddLexem's
\* two stacks of brackets agree with the tree.
THEOREM BracketsAgree == Spec => []BracketsNest
<1>1. IInv => BracketsNest
  BY Strengthening
<1> QED
  BY <1>1, InitInv, NextInv, PTL DEF Spec

\* In every text, mismatched brackets included, the lexeme CloseBlock gives the
\* finished block to is the "{" that announced it.
THEOREM BlocksAwaited == Spec => []BlocksWait
<1>1. IInv => BlocksWait
  BY Strengthening
<1> QED
  BY <1>1, InitInv, NextInv, PTL DEF Spec

LEMMA Least ==
    ASSUME NEW S, S \subseteq Nat, S # {}
    PROVE  \E n \in S : \A m \in S : n <= m
<1> DEFINE I == {0 .. n : n \in S}
<1>1. I \subseteq FiniteSubsetsOf(Nat) /\ I # {}
  <2>1. \A n \in S : IsFiniteSet(0 .. n) /\ 0 .. n \in SUBSET Nat
    BY FS_Interval
  <2> QED BY <2>1 DEF FiniteSubsetsOf
<1>2. PICK x \in I : \A y \in I : <<y, x>> \notin StrictSubsetOrdering(Nat)
  <2> HIDE DEF I
  <2>1. IsWellFoundedOn(StrictSubsetOrdering(Nat), FiniteSubsetsOf(Nat))
    BY FS_StrictSubsetOrderingWellFounded
  <2> QED BY <1>1, <2>1, WFMin
<1>3. PICK n \in S : x = 0 .. n
  OBVIOUS
<1>4. ASSUME NEW m \in S, ~(n <= m) PROVE FALSE
  <2>1. 0 .. m \in I /\ 0 .. m \subseteq 0 .. n /\ n \in 0 .. n /\ n \notin 0 .. m
    BY <1>4
  <2>2. <<0 .. m, 0 .. n>> \in StrictSubsetOrdering(Nat)
    <3>1. <<0 .. m, 0 .. n>> \in (SUBSET Nat) \X (SUBSET Nat)
      BY <2>1
    <3> QED BY <2>1, <3>1 DEF StrictSubsetOrdering
  <2> QED BY <1>2, <1>3, <2>1, <2>2
<1> QED BY <1>4

\* The function h by which FlattenSeq joins the first n sequences of s.
Flattens(h, s, n) == h = [k \in 1 .. n |-> IF k = 1 THEN s[k] ELSE h[k - 1] \o s[k]]

Agree(s, t, n) == \A k \in 1 .. n : s[k] = t[k]

LEMMA FlattensExist ==
    ASSUME NEW s, NEW n \in Nat
    PROVE  \E h : Flattens(h, s, n)
<1> DEFINE S == {m \in Nat : ~\E h : Flattens(h, s, m)}
<1> SUFFICES ASSUME S # {} PROVE FALSE
  OBVIOUS
<1>1. PICK m \in S : \A l \in S : m <= l
  BY Least
<1>2. CASE m = 0
  <2> DEFINE h == [k \in 1 .. 0 |-> s[k]]
  <2>1. h = [k \in 1 .. 0 |-> IF k = 1 THEN s[k] ELSE h[k - 1] \o s[k]]
    OBVIOUS
  <2> QED BY <1>2, <2>1 DEF Flattens
<1>3. CASE m # 0
  <2>1. m \in Nat /\ m - 1 \in Nat /\ ~(m <= m - 1)
    BY <1>3
  <2>2. m - 1 \notin S
    BY <1>1, <2>1
  <2>3. PICK g : Flattens(g, s, m - 1)
    BY <2>1, <2>2
  <2> DEFINE h == [k \in 1 .. m |-> IF k = 1 THEN s[k] ELSE g[k - 1] \o s[k]]
  <2>4. ASSUME NEW k \in 1 .. m - 1 PROVE h[k] = g[k]
    <3>1. k \in 1 .. m
      BY <2>1
    <3>2. h[k] = IF k = 1 THEN s[k] ELSE g[k - 1] \o s[k]
      BY <3>1
    <3>3. g[k] = IF k = 1 THEN s[k] ELSE g[k - 1] \o s[k]
      BY <2>3 DEF Flattens
    <3> QED BY <3>2, <3>3
  <2>5. h = [k \in 1 .. m |-> IF k = 1 THEN s[k] ELSE h[k - 1] \o s[k]]
    <3>1. \A k \in 1 .. m : k # 1 => k - 1 \in 1 .. m - 1
      BY <2>1
    <3>2. \A k \in 1 .. m : k # 1 => h[k - 1] \o s[k] = g[k - 1] \o s[k]
      BY <2>4, <3>1
    <3> QED BY <3>2
  <2> QED BY <2>5 DEF Flattens
<1> QED BY <1>2, <1>3

LEMMA FlattensTo ==
    ASSUME NEW s, Len(s) \in Nat, Len(s) # 0
    PROVE  \E h : Flattens(h, s, Len(s)) /\ FlattenSeq(s) = h[Len(s)]
<1> DEFINE h == CHOOSE h : h = [k \in 1 .. Len(s) |-> IF k = 1 THEN s[k] ELSE h[k - 1] \o s[k]]
<1>1. FlattenSeq(s) = h[Len(s)]
  BY DEF FlattenSeq
<1>2. Flattens(h, s, Len(s))
  BY FlattensExist DEF Flattens
<1> QED BY <1>1, <1>2

LEMMA Flattened ==
    ASSUME NEW T, NEW s \in Seq(Seq(T))
    PROVE  FlattenSeq(s) \in Seq(T)
<1>1. CASE Len(s) = 0
  <2>1. s = <<>>
    BY <1>1
  <2> QED BY <1>1, <2>1 DEF FlattenSeq
<1>2. CASE Len(s) # 0
  <2>1. PICK h : Flattens(h, s, Len(s)) /\ FlattenSeq(s) = h[Len(s)]
    BY <1>2, FlattensTo
  <2> DEFINE S == {k \in 1 .. Len(s) : h[k] \notin Seq(T)}
  <2>2. ASSUME S # {} PROVE FALSE
    <3>1. PICK k \in S : \A l \in S : k <= l
      <4>1. S \subseteq Nat
        OBVIOUS
      <4> HIDE DEF S
      <4> QED BY <2>2, <4>1, Least
    <3>2. k \in 1 .. Len(s) /\ h[k] \notin Seq(T) /\ s[k] \in Seq(T)
      OBVIOUS
    <3>3. h[k] = IF k = 1 THEN s[k] ELSE h[k - 1] \o s[k]
      BY <2>1, <3>2 DEF Flattens
    <3>4. k # 1
      BY <3>2, <3>3
    <3>5. k - 1 \in 1 .. Len(s) /\ ~(k <= k - 1)
      BY <3>2, <3>4
    <3>6. h[k - 1] \in Seq(T)
      BY <3>1, <3>5
    <3>7. h[k - 1] \o s[k] \in Seq(T)
      BY <3>2, <3>6
    <3> QED BY <3>2, <3>3, <3>4, <3>7
  <2>3. Len(s) \in 1 .. Len(s)
    BY <1>2
  <2> QED BY <2>1, <2>2, <2>3
<1> QED BY <1>1, <1>2

-----------------------------------------------------------------------------
(***************************************************************************)
(* The heap as one function: the s-th statement of block b, or with b = 0  *)
(* the list s, which has no lexemes where there is none.                   *)
(***************************************************************************)
Heap(line, sequences, bodies) ==
    [b \in Nat |-> [s \in Nat |->
        IF b = 0 THEN IF s = 0 THEN line
                      ELSE IF s \in 1 .. Len(sequences) THEN sequences[s] ELSE <<>>
        ELSE IF b \in 1 .. Len(bodies)
             THEN IF s \in 1 .. Len(bodies[b]) THEN bodies[b][s] ELSE <<>>
             ELSE <<>>]]

Placed(T) == {p \in Nat \X Nat \X Nat : p[3] \in 1 .. Len(T[p[1]][p[2]])}
At(T, p) == T[p[1]][p[2]][p[3]]

SequencesOf(T) == {At(T, p).sequence : p \in Placed(T)} \ {0}
BodiesOf(T) == {At(T, p).statements : p \in Placed(T)} \ {0}

Single(T) ==
    \A p, q \in Placed(T) :
       /\ At(T, p).sequence = At(T, q).sequence /\ At(T, p).sequence # 0 => p = q
       /\ At(T, p).statements = At(T, q).statements /\ At(T, p).statements # 0 => p = q

Later(T) ==
    \A p \in Placed(T) :
       /\ At(T, p).sequence # 0 /\ p[1] = 0 => p[2] < At(T, p).sequence
       /\ At(T, p).statements # 0 => p[1] # 0 /\ p[1] < At(T, p).statements

Tree(T) == Single(T) /\ Later(T)

\* U is made of lexemes of T, that at p of the one at g[p]; only the statement
\* being read leaves the block it is in.
Carries(T, U, g) ==
    /\ \A p \in Placed(U) : g[p] \in Placed(T) /\ At(U, p) = At(T, g[p])
    /\ \A p, q \in Placed(U) : g[p] = g[q] => p = q
    /\ \A p \in Placed(U) : /\ p[1] = 0 => g[p] = p
                            /\ g[p][1] # 0 => g[p][1] = p[1]

Reaches(T, U, g) == \A p \in Placed(T) : \E q \in Placed(U) : g[q] = p

LEMMA TreeCarried ==
    ASSUME NEW T, NEW U, NEW g, Carries(T, U, g), Tree(T)
    PROVE  /\ Tree(U)
           /\ SequencesOf(U) \subseteq SequencesOf(T)
           /\ BodiesOf(U) \subseteq BodiesOf(T)
<1>1. ASSUME NEW p \in Placed(U), NEW q \in Placed(U)
      PROVE  /\ At(U, p).sequence = At(U, q).sequence /\ At(U, p).sequence # 0 => p = q
             /\ At(U, p).statements = At(U, q).statements /\ At(U, p).statements # 0 => p = q
  <2>1. /\ g[p] \in Placed(T) /\ At(U, p) = At(T, g[p])
        /\ g[q] \in Placed(T) /\ At(U, q) = At(T, g[q])
        /\ g[p] = g[q] => p = q
    BY DEF Carries
  <2>2. /\ At(T, g[p]).sequence = At(T, g[q]).sequence /\ At(T, g[p]).sequence # 0 => g[p] = g[q]
        /\ At(T, g[p]).statements = At(T, g[q]).statements /\ At(T, g[p]).statements # 0
             => g[p] = g[q]
    BY <2>1 DEF Tree, Single
  <2> QED BY <2>1, <2>2, Zenon
<1>2. ASSUME NEW p \in Placed(U)
      PROVE  /\ At(U, p).sequence # 0 /\ p[1] = 0 => p[2] < At(U, p).sequence
             /\ At(U, p).statements # 0 => p[1] # 0 /\ p[1] < At(U, p).statements
  <2>1. /\ g[p] \in Placed(T) /\ At(U, p) = At(T, g[p])
        /\ p[1] = 0 => g[p] = p
        /\ g[p][1] # 0 => g[p][1] = p[1]
    BY DEF Carries
  <2>2. /\ At(T, g[p]).sequence # 0 /\ g[p][1] = 0 => g[p][2] < At(T, g[p]).sequence
        /\ At(T, g[p]).statements # 0 => g[p][1] # 0 /\ g[p][1] < At(T, g[p]).statements
    BY <2>1 DEF Tree, Later
  <2> QED BY <2>1, <2>2, Zenon
<1>3. \A p \in Placed(U) : g[p] \in Placed(T) /\ At(U, p) = At(T, g[p])
  BY DEF Carries
<1> QED BY <1>1, <1>2, <1>3, Zenon DEF Tree, Single, Later, SequencesOf, BodiesOf

LEMMA AllReached ==
    ASSUME NEW T, NEW U, NEW g, Carries(T, U, g), Reaches(T, U, g), Tree(T)
    PROVE  SequencesOf(U) = SequencesOf(T) /\ BodiesOf(U) = BodiesOf(T)
<1>1. SequencesOf(U) \subseteq SequencesOf(T) /\ BodiesOf(U) \subseteq BodiesOf(T)
  BY TreeCarried, Zenon
<1>2. \A p \in Placed(T) : \E q \in Placed(U) : At(U, q) = At(T, p)
  <2> TAKE p \in Placed(T)
  <2>1. PICK q \in Placed(U) : g[q] = p
    BY DEF Reaches
  <2>2. At(U, q) = At(T, g[q])
    BY DEF Carries
  <2> QED BY <2>1, <2>2
<1>3. SequencesOf(T) \subseteq SequencesOf(U) /\ BodiesOf(T) \subseteq BodiesOf(U)
  BY <1>2, Zenon DEF SequencesOf, BodiesOf
<1> QED BY <1>1, <1>3, Zenon

\* U is T but for the lexeme at place p, which may be a new one; what it owns
\* more than before, n or c, belongs to no other.
Alters(T, U, p, n, c) ==
    /\ p \in Placed(U)
    /\ Placed(U) = Placed(T) \union {p}
    /\ \A q \in Placed(U) : q # p => At(U, q) = At(T, q)
    /\ \/ At(U, p).sequence = n
       \/ p \in Placed(T) /\ At(U, p).sequence = At(T, p).sequence
    /\ p \in Placed(T) => At(T, p).sequence \in {0, At(U, p).sequence} /\ At(T, p).statements = 0
    /\ At(U, p).statements = c
    /\ n # 0 => n \notin SequencesOf(T) /\ At(U, p).sequence = n /\ (p[1] = 0 => p[2] < n)
    /\ c # 0 => c \notin BodiesOf(T) /\ p[1] # 0 /\ p[1] < c

LEMMA TreeAltered ==
    ASSUME NEW T, NEW U, NEW p, NEW n, NEW c, Alters(T, U, p, n, c), Tree(T)
    PROVE  /\ Tree(U)
           /\ SequencesOf(U) = SequencesOf(T) \union ({n} \ {0})
           /\ BodiesOf(U) = BodiesOf(T) \union ({c} \ {0})
<1>1. ASSUME NEW q \in Placed(U), q # p
      PROVE  q \in Placed(T) /\ At(U, q) = At(T, q)
  BY <1>1, Zenon DEF Alters
<1>2. ASSUME NEW q \in Placed(U), q # p
      PROVE  /\ At(U, p).sequence = At(U, q).sequence => At(U, p).sequence = 0
             /\ At(U, p).statements = At(U, q).statements => At(U, p).statements = 0
  <2>1. q \in Placed(T) /\ At(U, q) = At(T, q)
    BY <1>1, <1>2
  <2>2. ASSUME At(U, p).sequence = At(U, q).sequence, At(U, p).sequence # 0 PROVE FALSE
    <3>1. At(U, p).sequence \in SequencesOf(T)
      BY <2>1, <2>2, Zenon DEF SequencesOf
    <3>2. p \in Placed(T) /\ At(U, p).sequence = At(T, p).sequence
      BY <2>2, <3>1, Zenon DEF Alters
    <3> QED BY <1>2, <2>1, <2>2, <3>2, Zenon DEF Tree, Single
  <2>3. ASSUME At(U, p).statements = At(U, q).statements, At(U, p).statements # 0 PROVE FALSE
    <3>1. At(U, p).statements \in BodiesOf(T)
      BY <2>1, <2>3, Zenon DEF BodiesOf
    <3> QED BY <2>3, <3>1, Zenon DEF Alters
  <2> QED BY <2>2, <2>3
<1>3. Single(U)
  <2> SUFFICES ASSUME NEW q \in Placed(U), NEW r \in Placed(U)
               PROVE  /\ At(U, q).sequence = At(U, r).sequence /\ At(U, q).sequence # 0 => q = r
                      /\ At(U, q).statements = At(U, r).statements /\ At(U, q).statements # 0 => q = r
    BY Zenon DEF Single
  <2>1. CASE q = p
    BY <1>2, <2>1, Zenon
  <2>2. CASE r = p
    BY <1>2, <2>2, Zenon
  <2>3. CASE q # p /\ r # p
    BY <1>1, <2>3, Zenon DEF Tree, Single
  <2> QED BY <2>1, <2>2, <2>3
<1>4. Later(U)
  <2> SUFFICES ASSUME NEW q \in Placed(U)
               PROVE  /\ At(U, q).sequence # 0 /\ q[1] = 0 => q[2] < At(U, q).sequence
                      /\ At(U, q).statements # 0 => q[1] # 0 /\ q[1] < At(U, q).statements
    BY Zenon DEF Later
  <2>1. CASE q # p
    BY <1>1, <2>1, Zenon DEF Tree, Later
  <2>2. CASE q = p
    <3>1. At(U, p).sequence # 0 /\ p[1] = 0 => p[2] < At(U, p).sequence
      <4>1. CASE n # 0
        BY <4>1, Zenon DEF Alters
      <4>2. CASE n = 0
        BY <4>2, Zenon DEF Alters, Tree, Later
      <4> QED BY <4>1, <4>2
    <3>2. At(U, p).statements # 0 => p[1] # 0 /\ p[1] < At(U, p).statements
      BY Zenon DEF Alters
    <3> QED BY <2>2, <3>1, <3>2
  <2> QED BY <2>1, <2>2
<1>5. SequencesOf(U) = SequencesOf(T) \union ({n} \ {0})
  <2>1. ASSUME NEW q \in Placed(U) PROVE At(U, q).sequence \in SequencesOf(T) \union {n} \union {0}
    <3>1. CASE q # p
      BY <1>1, <3>1, Zenon DEF SequencesOf
    <3>2. CASE q = p
      BY <3>2, Zenon DEF SequencesOf, Alters
    <3> QED BY <3>1, <3>2
  <2>2. ASSUME NEW q \in Placed(T)
        PROVE  At(T, q).sequence # 0 => \E r \in Placed(U) : At(U, r).sequence = At(T, q).sequence
    BY Zenon DEF Alters
  <2>3. n # 0 => p \in Placed(U) /\ At(U, p).sequence = n
    BY Zenon DEF Alters
  <2> QED BY <2>1, <2>2, <2>3, Zenon DEF SequencesOf
<1>6. BodiesOf(U) = BodiesOf(T) \union ({c} \ {0})
  <2>1. ASSUME NEW q \in Placed(U) PROVE At(U, q).statements \in BodiesOf(T) \union {c} \union {0}
    <3>1. CASE q # p
      BY <1>1, <3>1, Zenon DEF BodiesOf
    <3>2. CASE q = p
      BY <3>2, Zenon DEF BodiesOf, Alters
    <3> QED BY <3>1, <3>2
  <2>2. ASSUME NEW q \in Placed(T)
        PROVE  At(T, q).statements # 0 => \E r \in Placed(U) : At(U, r).statements = At(T, q).statements
    BY Zenon DEF Alters
  <2>3. c # 0 => p \in Placed(U) /\ At(U, p).statements = c
    BY Zenon DEF Alters
  <2> QED BY <2>1, <2>2, <2>3, Zenon DEF BodiesOf
<1> QED BY <1>3, <1>4, <1>5, <1>6 DEF Tree

\* Lexeme node is added to the end of text s of b.
Pushes(T, U, b, s, node) ==
    /\ b \in Nat /\ s \in Nat /\ node \in HeapNodes /\ T[b][s] \in Seq(HeapNodes)
    /\ U[b][s] = Append(T[b][s], node)
    /\ \A c, t \in Nat : c # b \/ t # s => U[c][t] = T[c][t]

LEMMA PlacePushed ==
    ASSUME NEW T, NEW U, NEW b, NEW s, NEW node, Pushes(T, U, b, s, node)
    PROVE  \E p \in Placed(U) :
              /\ p[1] = b /\ p[2] = s
              /\ p \notin Placed(T) /\ Placed(U) = Placed(T) \union {p}
              /\ At(U, p) = node
              /\ \A q \in Placed(U) : q # p => At(U, q) = At(T, q)
<1> DEFINE n == Len(T[b][s]) + 1
           p == <<b, s, n>>
<1>1. /\ b \in Nat /\ s \in Nat /\ n \in Nat /\ n - 1 = Len(T[b][s])
      /\ Len(U[b][s]) = n /\ U[b][s][n] = node
      /\ \A k \in 1 .. n - 1 : U[b][s][k] = T[b][s][k]
      /\ n \in 1 .. n
  BY DEF Pushes
<1>2. \A c, t \in Nat : c # b \/ t # s => U[c][t] = T[c][t]
  BY DEF Pushes
<1> HIDE DEF n
<1>3. p \in Nat \X Nat \X Nat /\ p[1] = b /\ p[2] = s /\ p[3] = n
  BY <1>1
<1>4. p \in Placed(U) /\ p \notin Placed(T) /\ At(U, p) = node
  BY <1>1, <1>3 DEF Placed, At
<1>5. ASSUME NEW q \in Nat \X Nat \X Nat, q # p
      PROVE  /\ q \in Placed(U) <=> q \in Placed(T)
             /\ q \in Placed(U) => At(U, q) = At(T, q)
  <2>1. q[1] \in Nat /\ q[2] \in Nat /\ q[3] \in Nat /\ q = <<q[1], q[2], q[3]>>
    OBVIOUS
  <2>2. CASE q[1] # b \/ q[2] # s
    BY <1>2, <2>1, <2>2 DEF Placed, At
  <2>3. CASE q[1] = b /\ q[2] = s
    <3>1. q[3] # n
      BY <1>5, <2>1, <2>3
    <3>2. q[3] \in 1 .. n <=> q[3] \in 1 .. n - 1
      BY <1>1, <2>1, <3>1
    <3> QED BY <1>1, <2>3, <3>2 DEF Placed, At
  <2> QED BY <2>2, <2>3
<1>6. Placed(U) \subseteq Nat \X Nat \X Nat /\ Placed(T) \subseteq Nat \X Nat \X Nat
  BY DEF Placed
<1>7. Placed(U) = Placed(T) \union {p}
  BY <1>4, <1>5, <1>6
<1>8. \A q \in Placed(U) : q # p => At(U, q) = At(T, q)
  BY <1>5, <1>6
<1> QED BY <1>3, <1>4, <1>7, <1>8

\* A lexeme is added that owns nothing, or in a list the new list n.
LEMMA TreePushed ==
    ASSUME NEW T, NEW U, NEW b, NEW s, NEW node, Pushes(T, U, b, s, node), Tree(T),
           node.statements = 0,
           node.sequence # 0 => node.sequence \notin SequencesOf(T) /\ s < node.sequence
    PROVE  /\ Tree(U)
           /\ SequencesOf(U) = SequencesOf(T) \union ({node.sequence} \ {0})
           /\ BodiesOf(U) = BodiesOf(T)
<1>1. PICK p \in Placed(U) :
              /\ p[1] = b /\ p[2] = s
              /\ p \notin Placed(T) /\ Placed(U) = Placed(T) \union {p}
              /\ At(U, p) = node
              /\ \A q \in Placed(U) : q # p => At(U, q) = At(T, q)
  BY PlacePushed, Zenon
<1>2. Alters(T, U, p, node.sequence, 0)
  BY <1>1, Zenon DEF Alters
<1> DEFINE n == node.sequence
<1>3. Alters(T, U, p, n, 0)
  BY <1>2
<1> HIDE DEF n
<1>4. /\ Tree(U)
      /\ SequencesOf(U) = SequencesOf(T) \union ({n} \ {0})
      /\ BodiesOf(U) = BodiesOf(T) \union ({0} \ {0})
  BY <1>3, TreeAltered
<1> QED BY <1>4 DEF n

\* The statement being read becomes statement n of block b.
Ends(T, U, b, n) ==
    /\ b \in Nat /\ b # 0 /\ n \in Nat
    /\ U[0][0] = <<>> /\ T[b][n] = <<>> /\ U[b][n] = T[0][0]
    /\ \A c, t \in Nat : (c # 0 \/ t # 0) /\ (c # b \/ t # n) => U[c][t] = T[c][t]

LEMMA TreeEnded ==
    ASSUME NEW T, NEW U, NEW b, NEW n, Ends(T, U, b, n), Tree(T)
    PROVE  Tree(U) /\ SequencesOf(U) = SequencesOf(T) /\ BodiesOf(U) = BodiesOf(T)
<1> DEFINE g == [p \in Nat \X Nat \X Nat |-> IF p[1] = b /\ p[2] = n THEN <<0, 0, p[3]>> ELSE p]
<1>1. /\ b \in Nat /\ b # 0 /\ n \in Nat
      /\ U[0][0] = <<>> /\ T[b][n] = <<>> /\ U[b][n] = T[0][0]
      /\ \A c, t \in Nat : (c # 0 \/ t # 0) /\ (c # b \/ t # n) => U[c][t] = T[c][t]
  BY DEF Ends
<1>2. Placed(U) \subseteq Nat \X Nat \X Nat /\ Placed(T) \subseteq Nat \X Nat \X Nat
  BY DEF Placed
<1>3. ASSUME NEW p \in Placed(U)
      PROVE  /\ p \in Nat \X Nat \X Nat /\ p = <<p[1], p[2], p[3]>>
             /\ p[1] # 0 \/ p[2] # 0
  <2>1. p \in Nat \X Nat \X Nat /\ p[3] \in 1 .. Len(U[p[1]][p[2]])
    BY DEF Placed
  <2> QED BY <1>1, <2>1
<1>4. ASSUME NEW p \in Placed(U)
      PROVE  g[p] \in Placed(T) /\ At(U, p) = At(T, g[p])
  <2>1. p \in Nat \X Nat \X Nat /\ p[3] \in 1 .. Len(U[p[1]][p[2]])
    BY DEF Placed
  <2>2. CASE p[1] = b /\ p[2] = n
    <3>1. g[p] = <<0, 0, p[3]>> /\ p[3] \in Nat
      BY <2>1, <2>2
    <3> HIDE DEF g
    <3>2. g[p][1] = 0 /\ g[p][2] = 0 /\ g[p][3] = p[3] /\ g[p] \in Nat \X Nat \X Nat
      BY <3>1
    <3> QED BY <1>1, <2>1, <2>2, <3>2 DEF Placed, At
  <2>3. CASE ~(p[1] = b /\ p[2] = n)
    <3>1. g[p] = p
      BY <2>1, <2>3
    <3> HIDE DEF g
    <3> QED BY <1>1, <1>3, <2>1, <2>3, <3>1 DEF Placed, At
  <2> QED BY <2>2, <2>3
<1>5. ASSUME NEW p \in Placed(U)
      PROVE  /\ p[1] = 0 => g[p] = p
             /\ g[p][1] # 0 => g[p][1] = p[1]
             /\ p[1] = b /\ p[2] = n => g[p] = <<0, 0, p[3]>>
             /\ ~(p[1] = b /\ p[2] = n) => g[p] = p
  BY <1>1, <1>2
<1>6. ASSUME NEW p \in Placed(U), NEW q \in Placed(U), g[p] = g[q]
      PROVE  p = q
  <2> HIDE DEF g
  <2> QED BY <1>3, <1>5, <1>6
<1>7. Reaches(T, U, g)
  <2> SUFFICES ASSUME NEW p \in Placed(T) PROVE \E q \in Placed(U) : g[q] = p
    BY DEF Reaches
  <2>1. p \in Nat \X Nat \X Nat /\ p[3] \in 1 .. Len(T[p[1]][p[2]]) /\ p = <<p[1], p[2], p[3]>>
    BY DEF Placed
  <2>2. CASE p[1] = 0 /\ p[2] = 0
    <3> DEFINE q == <<b, n, p[3]>>
    <3>1. q \in Nat \X Nat \X Nat /\ q[1] = b /\ q[2] = n /\ q[3] = p[3]
      BY <1>1, <2>1
    <3> HIDE DEF q
    <3>2. q \in Placed(U)
      BY <1>1, <2>1, <2>2, <3>1 DEF Placed
    <3>3. g[q] = p
      BY <2>1, <2>2, <3>1
    <3> QED BY <3>2, <3>3
  <2>3. CASE ~(p[1] = 0 /\ p[2] = 0)
    <3>1. ~(p[1] = b /\ p[2] = n)
      BY <1>1, <2>1
    <3>2. p \in Placed(U) /\ g[p] = p
      BY <1>1, <2>1, <2>3, <3>1 DEF Placed
    <3> QED BY <3>2
  <2> QED BY <2>2, <2>3
<1> HIDE DEF g
<1>8. Carries(T, U, g)
  BY <1>4, <1>5, <1>6 DEF Carries
<1> QED BY <1>7, <1>8, TreeCarried, AllReached

\* Statement m of block b is erased, the lexemes of it from the i-th on having
\* been copied to the end of statement d, before it.
Joins(T, U, b, d, m, i) ==
    /\ b \in Nat /\ d \in Nat /\ m \in Nat /\ i \in Nat /\ b # 0 /\ d < m /\ 1 <= i
    /\ Len(T[b][d]) \in Nat /\ Len(T[b][m]) \in Nat /\ i <= Len(T[b][m]) + 1
    /\ Len(U[b][d]) = Len(T[b][d]) + Len(T[b][m]) - i + 1
    /\ \A k \in 1 .. Len(T[b][d]) : U[b][d][k] = T[b][d][k]
    /\ \A k \in Len(T[b][d]) + 1 .. Len(U[b][d]) : U[b][d][k] = T[b][m][k - Len(T[b][d]) + i - 1]
    /\ \A s \in Nat : s < m /\ s # d => U[b][s] = T[b][s]
    /\ \A s \in Nat : m <= s => U[b][s] = T[b][s + 1]
    /\ \A c, s \in Nat : c # b => U[c][s] = T[c][s]

LEMMA TreeJoined ==
    ASSUME NEW T, NEW U, NEW b, NEW d, NEW m, NEW i, Joins(T, U, b, d, m, i), Tree(T)
    PROVE  /\ Tree(U)
           /\ SequencesOf(U) \subseteq SequencesOf(T)
           /\ BodiesOf(U) \subseteq BodiesOf(T)
<1> DEFINE l == Len(T[b][d])
           h == Len(T[b][m])
           Moved(p) == p[1] = b /\ p[2] = d /\ p[3] > l
           Behind(p) == p[1] = b /\ m <= p[2]
           g == [p \in Nat \X Nat \X Nat |->
                    IF Moved(p) THEN <<b, m, p[3] - l + i - 1>>
                    ELSE IF Behind(p) THEN <<b, p[2] + 1, p[3]>> ELSE p]
<1>1. /\ b \in Nat /\ d \in Nat /\ m \in Nat /\ i \in Nat /\ b # 0 /\ d < m /\ 1 <= i
      /\ l \in Nat /\ h \in Nat /\ i <= h + 1
      /\ Len(U[b][d]) = l + h - i + 1
      /\ \A k \in 1 .. l : U[b][d][k] = T[b][d][k]
      /\ \A k \in l + 1 .. l + h - i + 1 : U[b][d][k] = T[b][m][k - l + i - 1]
      /\ \A s \in Nat : s < m /\ s # d => U[b][s] = T[b][s]
      /\ \A s \in Nat : m <= s => U[b][s] = T[b][s + 1]
      /\ \A c, s \in Nat : c # b => U[c][s] = T[c][s]
  BY DEF Joins
<1>0. h = Len(T[b][m]) /\ l = Len(T[b][d])
  OBVIOUS
<1>n. /\ b \in Nat /\ d \in Nat /\ m \in Nat /\ i \in Nat /\ l \in Nat /\ h \in Nat
      /\ d < m /\ 1 <= i /\ i <= h + 1
  BY <1>1
<1> HIDE DEF l, h
<1>2. ASSUME NEW p \in Placed(U)
      PROVE  /\ p \in Nat \X Nat \X Nat /\ p[3] \in 1 .. Len(U[p[1]][p[2]])
             /\ p[1] \in Nat /\ p[2] \in Nat /\ p[3] \in Nat
             /\ p = <<p[1], p[2], p[3]>>
             /\ Moved(p) => g[p] = <<b, m, p[3] - l + i - 1>>
             /\ ~Moved(p) /\ Behind(p) => g[p] = <<b, p[2] + 1, p[3]>>
             /\ ~Moved(p) /\ ~Behind(p) => g[p] = p
  <2>1. p \in Nat \X Nat \X Nat /\ p[3] \in 1 .. Len(U[p[1]][p[2]])
    BY DEF Placed
  <2>2. p[1] \in Nat /\ p[2] \in Nat /\ p[3] \in Nat /\ p = <<p[1], p[2], p[3]>>
    BY <2>1
  <2>3. g[p] = IF Moved(p) THEN <<b, m, p[3] - l + i - 1>>
               ELSE IF Behind(p) THEN <<b, p[2] + 1, p[3]>> ELSE p
    BY <2>1
  <2> HIDE DEF g, Moved, Behind
  <2> QED BY <2>1, <2>2, <2>3
<1> HIDE DEF g
<1>3. ASSUME NEW p \in Placed(U)
      PROVE  /\ g[p] \in Placed(T) /\ At(U, p) = At(T, g[p])
             /\ p[1] = 0 => g[p] = p
             /\ g[p][1] # 0 => g[p][1] = p[1]
  <2>1. CASE Moved(p)
    <3>1. p[3] \in l + 1 .. l + h - i + 1
      <4>1. p[3] \in 1 .. Len(U[b][d]) /\ p[3] > l
        BY <1>2, <2>1
      <4>2. p[3] \in 1 .. l + h - i + 1
        BY <1>1, <4>1
      <4> QED BY <1>n, <4>1, <4>2
    <3> DEFINE k == p[3] - l + i - 1
    <3>2. k \in Nat /\ k \in 1 .. h /\ At(U, p) = T[b][m][k]
      <4>1. p[1] = b /\ p[2] = d
        BY <2>1
      <4>2. U[b][d][p[3]] = T[b][m][p[3] - l + i - 1]
        BY <1>1, <3>1
      <4>3. p[3] - l + i - 1 \in 1 .. h
        BY <1>n, <3>1
      <4> QED BY <4>1, <4>2, <4>3 DEF At
    <3>3. g[p] = <<b, m, k>>
      BY <1>2, <2>1
    <3> HIDE DEF k
    <3>4. g[p][1] = b /\ g[p][2] = m /\ g[p][3] = k /\ g[p] \in Nat \X Nat \X Nat
      BY <1>1, <3>2, <3>3
    <3> QED BY <1>0, <1>1, <2>1, <3>2, <3>4 DEF Placed, At
  <2>2. CASE ~Moved(p) /\ Behind(p)
    <3> DEFINE s == p[2] + 1
    <3>1. s \in Nat /\ U[b][p[2]] = T[b][s]
      <4>1. p[2] \in Nat /\ m <= p[2]
        BY <1>2, <2>2
      <4>2. \A t \in Nat : m <= t => U[b][t] = T[b][t + 1]
        BY <1>1
      <4>3. U[b][p[2]] = T[b][p[2] + 1]
        BY <4>1, <4>2, Zenon
      <4> QED BY <4>1, <4>3
    <3>2. g[p] = <<b, s, p[3]>>
      BY <1>2, <2>2
    <3> HIDE DEF s
    <3>3. g[p][1] = b /\ g[p][2] = s /\ g[p][3] = p[3] /\ g[p] \in Nat \X Nat \X Nat
      BY <1>1, <1>2, <3>1, <3>2
    <3> QED BY <1>1, <1>2, <2>2, <3>1, <3>3 DEF Placed, At
  <2>3. CASE ~Moved(p) /\ ~Behind(p)
    <3>1. g[p] = p
      BY <1>2, <2>3
    <3>2. CASE p[1] # b
      <4>1. U[p[1]][p[2]] = T[p[1]][p[2]]
        <5>1. p[1] \in Nat /\ p[2] \in Nat
          BY <1>2
        <5> QED BY <1>1, <3>2, <5>1
      <4> QED BY <1>2, <3>1, <4>1 DEF Placed, At
    <3>3. CASE p[1] = b /\ p[2] # d
      <4>1. U[b][p[2]] = T[b][p[2]]
        <5>1. p[2] \in Nat /\ p[2] < m
          BY <1>1, <1>2, <2>3, <3>3
        <5> QED BY <1>1, <3>3, <5>1
      <4> QED BY <1>2, <3>1, <3>3, <4>1 DEF Placed, At
    <3>4. CASE p[1] = b /\ p[2] = d
      <4>1. p[3] \in 1 .. l
        BY <1>1, <1>2, <2>3, <3>4
      <4>2. U[b][d][p[3]] = T[b][d][p[3]]
        BY <1>1, <4>1
      <4>3. p \in Nat \X Nat \X Nat /\ p[3] \in 1 .. Len(T[p[1]][p[2]])
        BY <1>0, <1>2, <3>4, <4>1
      <4>4. At(U, p) = At(T, p) /\ p \in Placed(T)
        BY <3>4, <4>2, <4>3 DEF Placed, At
      <4> QED BY <1>1, <3>1, <4>4
    <3> QED BY <3>2, <3>3, <3>4
  <2> QED BY <2>1, <2>2, <2>3
<1>4. ASSUME NEW p \in Placed(U)
      PROVE  /\ Moved(p) => /\ g[p][1] = b /\ g[p][2] = m /\ g[p][3] = p[3] - l + i - 1
             /\ ~Moved(p) /\ Behind(p) => /\ g[p][1] = b /\ g[p][2] = p[2] + 1 /\ g[p][3] = p[3]
             /\ ~Moved(p) /\ ~Behind(p) => g[p] = p
  BY <1>2
<1>5. ASSUME NEW p \in Placed(U), NEW q \in Placed(U), g[p] = g[q]
      PROVE  p[1] = q[1] /\ p[2] = q[2] /\ p[3] = q[3]
  <2>1. CASE Moved(p)
    <3>1. Moved(q)
      <4>1. g[q][1] = b /\ g[q][2] = m
        BY <1>4, <1>5, <2>1
      <4>2. ASSUME ~Moved(q) PROVE FALSE
        <5>1. CASE Behind(q)
          BY <1>1, <1>2, <1>4, <4>1, <4>2, <5>1
        <5>2. CASE ~Behind(q)
          BY <1>1, <1>2, <1>4, <4>1, <4>2, <5>2
        <5> QED BY <5>1, <5>2
      <4> QED BY <4>2
    <3>2. p[3] - l + i - 1 = q[3] - l + i - 1
      BY <1>4, <1>5, <2>1, <3>1
    <3>3. p[3] = q[3]
      <4>1. p[3] \in Nat /\ q[3] \in Nat
        BY <1>2
      <4> QED BY <1>1, <3>2, <4>1
    <3> QED BY <2>1, <3>1, <3>3
  <2>2. CASE ~Moved(p) /\ Behind(p)
    <3>1. g[q][1] = b /\ g[q][2] = p[2] + 1 /\ g[q][3] = p[3]
      BY <1>4, <1>5, <2>2
    <3>2. p[2] \in Nat /\ q[2] \in Nat /\ p[2] + 1 > m
      BY <1>1, <1>2, <2>2
    <3>3. ~Moved(q)
      BY <1>1, <1>4, <3>1, <3>2
    <3>4. Behind(q)
      BY <1>1, <1>4, <3>1, <3>2, <3>3
    <3>5. q[2] + 1 = p[2] + 1 /\ q[3] = p[3]
      BY <1>4, <3>1, <3>3, <3>4
    <3> QED BY <2>2, <3>2, <3>4, <3>5
  <2>3. CASE ~Moved(p) /\ ~Behind(p)
    <3>1. g[q] = p
      BY <1>4, <1>5, <2>3
    <3>2. p[2] \in Nat /\ q[2] \in Nat
      BY <1>2
    <3>3. ~Moved(q)
      BY <1>1, <1>4, <2>3, <3>1, <3>2
    <3>4. ~Behind(q)
      BY <1>1, <1>4, <2>3, <3>1, <3>2, <3>3
    <3> QED BY <1>4, <3>1, <3>3, <3>4
  <2> QED BY <2>1, <2>2, <2>3
<1>6. ASSUME NEW p \in Placed(U), NEW q \in Placed(U), g[p] = g[q]
      PROVE  p = q
  BY <1>2, <1>5, <1>6
<1>7. Carries(T, U, g)
  BY <1>3, <1>6 DEF Carries
<1> QED BY <1>7, TreeCarried

\* Lexeme k of statement s of block b, which owned nothing, receives block c.
Attaches(T, U, b, s, k, c) ==
    /\ b \in Nat /\ s \in Nat /\ k \in 1 .. Len(T[b][s]) /\ Len(T[b][s]) \in Nat
    /\ Len(U[b][s]) = Len(T[b][s])
    /\ T[b][s][k].sequence = 0 /\ T[b][s][k].statements = 0
    /\ U[b][s][k].sequence = 0 /\ U[b][s][k].statements = c
    /\ \A n \in 1 .. Len(T[b][s]) : n # k => U[b][s][n] = T[b][s][n]
    /\ \A d, t \in Nat : d # b \/ t # s => U[d][t] = T[d][t]

LEMMA TreeAttached ==
    ASSUME NEW T, NEW U, NEW b, NEW s, NEW k, NEW c, Attaches(T, U, b, s, k, c), Tree(T),
           c \notin BodiesOf(T), c # 0, b # 0, b < c
    PROVE  /\ Tree(U)
           /\ SequencesOf(U) = SequencesOf(T)
           /\ BodiesOf(U) = BodiesOf(T) \union {c}
<1> DEFINE p == <<b, s, k>>
<1>1. /\ b \in Nat /\ s \in Nat /\ k \in 1 .. Len(T[b][s]) /\ Len(T[b][s]) \in Nat
      /\ Len(U[b][s]) = Len(T[b][s])
      /\ T[b][s][k].sequence = 0 /\ T[b][s][k].statements = 0
      /\ U[b][s][k].sequence = 0 /\ U[b][s][k].statements = c
      /\ \A n \in 1 .. Len(T[b][s]) : n # k => U[b][s][n] = T[b][s][n]
      /\ \A d, t \in Nat : d # b \/ t # s => U[d][t] = T[d][t]
  BY DEF Attaches
<1>2. p \in Nat \X Nat \X Nat /\ p[1] = b /\ p[2] = s /\ p[3] = k
  BY <1>1
<1>3. p \in Placed(U) /\ p \in Placed(T)
  BY <1>1, <1>2 DEF Placed
<1>4. /\ At(T, p).sequence = 0 /\ At(T, p).statements = 0
      /\ At(U, p).sequence = 0 /\ At(U, p).statements = c
  BY <1>1, <1>2 DEF At
<1>5. ASSUME NEW q \in Nat \X Nat \X Nat, q # p
      PROVE  /\ q \in Placed(U) <=> q \in Placed(T)
             /\ q \in Placed(U) => At(U, q) = At(T, q)
  <2>1. q[1] \in Nat /\ q[2] \in Nat /\ q[3] \in Nat /\ q = <<q[1], q[2], q[3]>>
    OBVIOUS
  <2>2. CASE q[1] # b \/ q[2] # s
    BY <1>1, <2>1, <2>2 DEF Placed, At
  <2>3. CASE q[1] = b /\ q[2] = s
    <3>1. q[3] # k
      BY <1>5, <2>1, <2>3
    <3> QED BY <1>1, <2>3, <3>1 DEF Placed, At
  <2> QED BY <2>2, <2>3
<1>6. Placed(U) \subseteq Nat \X Nat \X Nat /\ Placed(T) \subseteq Nat \X Nat \X Nat
  BY DEF Placed
<1>7. Placed(U) = Placed(T) \union {p}
  BY <1>3, <1>5, <1>6
<1>8. \A q \in Placed(U) : q # p => At(U, q) = At(T, q)
  BY <1>5, <1>6
<1> HIDE DEF p
<1>9. Alters(T, U, p, 0, c)
  BY <1>2, <1>3, <1>4, <1>7, <1>8, Zenon DEF Alters
<1>10. /\ Tree(U)
       /\ SequencesOf(U) = SequencesOf(T) \union ({0} \ {0})
       /\ BodiesOf(U) = BodiesOf(T) \union ({c} \ {0})
  BY <1>9, TreeAltered
<1> QED BY <1>10

Typed(line, sequences, bodies) ==
    /\ line \in Seq(HeapNodes)
    /\ sequences \in Seq(Seq(HeapNodes))
    /\ bodies \in Seq(Seq(Seq(HeapNodes)))

Shows(H, line, sequences, bodies) ==
    /\ H[0][0] = line
    /\ \A s \in 1 .. Len(sequences) : H[0][s] = sequences[s]
    /\ \A s \in Nat : s > Len(sequences) => H[0][s] = <<>>
    /\ \A b \in 1 .. Len(bodies) : \A s \in 1 .. Len(bodies[b]) : H[b][s] = bodies[b][s]
    /\ \A b \in 1 .. Len(bodies) : \A s \in Nat : s \notin 1 .. Len(bodies[b]) => H[b][s] = <<>>
    /\ \A b, s \in Nat : b > Len(bodies) => H[b][s] = <<>>
    /\ \A b, s \in Nat : H[b][s] \in Seq(HeapNodes)

LEMMA HeapText ==
    ASSUME NEW line, NEW sequences, NEW bodies, Typed(line, sequences, bodies),
           NEW H, H = Heap(line, sequences, bodies)
    PROVE  Shows(H, line, sequences, bodies)
<1>1. /\ line \in Seq(HeapNodes) /\ Len(sequences) \in Nat /\ Len(bodies) \in Nat
      /\ \A s \in 1 .. Len(sequences) : sequences[s] \in Seq(HeapNodes)
      /\ \A b \in 1 .. Len(bodies) : bodies[b] \in Seq(Seq(HeapNodes)) /\ Len(bodies[b]) \in Nat
      /\ \A b \in 1 .. Len(bodies) : \A s \in 1 .. Len(bodies[b]) : bodies[b][s] \in Seq(HeapNodes)
  BY DEF Typed
<1>2. <<>> \in Seq(HeapNodes)
  OBVIOUS
<1>3. \A b, s \in Nat :
         H[b][s] = IF b = 0 THEN IF s = 0 THEN line
                      ELSE IF s \in 1 .. Len(sequences) THEN sequences[s] ELSE <<>>
                   ELSE IF b \in 1 .. Len(bodies)
                        THEN IF s \in 1 .. Len(bodies[b]) THEN bodies[b][s] ELSE <<>>
                        ELSE <<>>
  BY DEF Heap
<1>4. \A s \in Nat :
         H[0][s] = IF s = 0 THEN line
                   ELSE IF s \in 1 .. Len(sequences) THEN sequences[s] ELSE <<>>
  BY <1>3
<1>5. \A b, s \in Nat : b # 0 =>
         H[b][s] = IF b \in 1 .. Len(bodies)
                   THEN IF s \in 1 .. Len(bodies[b]) THEN bodies[b][s] ELSE <<>>
                   ELSE <<>>
  BY <1>3
<1>6. /\ H[0][0] = line
      /\ \A s \in 1 .. Len(sequences) : H[0][s] = sequences[s]
      /\ \A s \in Nat : s > Len(sequences) => H[0][s] = <<>>
  BY <1>1, <1>4
<1>7. \A b \in 1 .. Len(bodies) : \A s \in 1 .. Len(bodies[b]) : H[b][s] = bodies[b][s]
  <2> TAKE b \in 1 .. Len(bodies)
  <2> TAKE s \in 1 .. Len(bodies[b])
  <2>1. b \in Nat /\ b # 0 /\ s \in Nat
    BY <1>1
  <2> QED BY <1>5, <2>1
<1>8. \A b \in 1 .. Len(bodies) : \A s \in Nat : s \notin 1 .. Len(bodies[b]) => H[b][s] = <<>>
  <2> TAKE b \in 1 .. Len(bodies)
  <2>1. b \in Nat /\ b # 0
    BY <1>1
  <2> QED BY <1>5, <2>1
<1>9. \A b, s \in Nat : b > Len(bodies) => H[b][s] = <<>>
  <2> TAKE b, s \in Nat
  <2>1. b > Len(bodies) => b # 0 /\ b \notin 1 .. Len(bodies)
    BY <1>1
  <2> QED BY <1>5, <2>1
<1>10. \A b, s \in Nat : H[b][s] \in Seq(HeapNodes)
  <2> TAKE b, s \in Nat
  <2>1. CASE b = 0
    BY <1>1, <1>2, <1>4, <2>1
  <2>2. CASE b \in 1 .. Len(bodies)
    <3>1. CASE s \in 1 .. Len(bodies[b])
      BY <1>1, <1>7, <2>2, <3>1
    <3>2. CASE s \notin 1 .. Len(bodies[b])
      BY <1>2, <1>8, <2>2, <3>2
    <3> QED BY <3>1, <3>2
  <2>3. CASE b > Len(bodies)
    BY <1>2, <1>9, <2>3
  <2> QED BY <1>1, <2>1, <2>2, <2>3
<1> QED BY <1>6, <1>7, <1>8, <1>9, <1>10 DEF Shows

\* sequences2 are the lists with one more, or not, which is empty.
Opened(sequences, sequences2) ==
    \/ Len(sequences2) = Len(sequences)
    \/ Len(sequences2) = Len(sequences) + 1 /\ sequences2[Len(sequences) + 1] = <<>>

LEMMA HeapPushed ==
    ASSUME NEW line, NEW sequences, NEW bodies, Typed(line, sequences, bodies),
           NEW line2, NEW sequences2, Typed(line2, sequences2, bodies),
           NEW s \in 0 .. Len(sequences), NEW node \in HeapNodes,
           Opened(sequences, sequences2),
           s = 0 => line2 = Append(line, node),
           s # 0 => line2 = line /\ sequences2[s] = Append(sequences[s], node),
           \A t \in 1 .. Len(sequences) : t # s => sequences2[t] = sequences[t]
    PROVE  Pushes(Heap(line, sequences, bodies), Heap(line2, sequences2, bodies), 0, s, node)
<1>1. PICK T : T = Heap(line, sequences, bodies)
  OBVIOUS
<1>2. PICK U : U = Heap(line2, sequences2, bodies)
  OBVIOUS
<1>3. /\ T[0][0] = line
      /\ \A t \in 1 .. Len(sequences) : T[0][t] = sequences[t]
      /\ \A t \in Nat : t > Len(sequences) => T[0][t] = <<>>
      /\ \A b, t \in Nat : T[b][t] \in Seq(HeapNodes)
  <2>1. Shows(T, line, sequences, bodies)
    BY <1>1, HeapText, Zenon
  <2> QED BY <2>1, Zenon DEF Shows
<1>4. /\ U[0][0] = line2
      /\ \A t \in 1 .. Len(sequences2) : U[0][t] = sequences2[t]
      /\ \A t \in Nat : t > Len(sequences2) => U[0][t] = <<>>
  <2>1. Shows(U, line2, sequences2, bodies)
    BY <1>2, HeapText, Zenon
  <2> QED BY <2>1, Zenon DEF Shows
<1>5. Len(sequences) \in Nat /\ s \in Nat /\ Len(sequences2) \in Nat
  BY DEF Typed
<1>6. U[0][s] = Append(T[0][s], node)
  <2>1. CASE s = 0
    BY <1>3, <1>4, <2>1
  <2>2. CASE s # 0
    <3>1. s \in 1 .. Len(sequences) /\ s \in 1 .. Len(sequences2)
      BY <1>5, <2>2 DEF Opened
    <3> QED BY <1>3, <1>4, <2>2, <3>1
  <2> QED BY <2>1, <2>2
<1>7. ASSUME NEW t \in Nat, t # s
      PROVE  U[0][t] = T[0][t]
  <2>1. CASE t = 0
    BY <1>3, <1>4, <1>5, <1>7, <2>1
  <2>2. CASE t \in 1 .. Len(sequences)
    <3>1. t \in 1 .. Len(sequences2)
      BY <1>5, <2>2 DEF Opened
    <3> QED BY <1>3, <1>4, <1>7, <2>2, <3>1
  <2>3. CASE t > Len(sequences)
    <3>1. T[0][t] = <<>>
      BY <1>3, <2>3
    <3>2. CASE t > Len(sequences2)
      BY <1>4, <3>1, <3>2
    <3>3. CASE ~(t > Len(sequences2))
      <4>1. t = Len(sequences) + 1 /\ t \in 1 .. Len(sequences2) /\ sequences2[t] = <<>>
        BY <1>5, <2>3, <3>3 DEF Opened
      <4> QED BY <1>4, <3>1, <4>1
    <3> QED BY <3>2, <3>3
  <2> QED BY <1>5, <2>1, <2>2, <2>3
<1>8. ASSUME NEW b \in Nat, NEW t \in Nat, b # 0
      PROVE  U[b][t] = T[b][t]
  BY <1>1, <1>2, <1>8 DEF Heap
<1>9. \A b, t \in Nat : b # 0 \/ t # s => U[b][t] = T[b][t]
  BY <1>7, <1>8
<1> QED BY <1>1, <1>2, <1>3, <1>5, <1>6, <1>9 DEF Pushes

LEMMA HeapEnded ==
    ASSUME NEW line, NEW sequences, NEW bodies, Typed(line, sequences, bodies),
           NEW bodies2, Typed(<<>>, sequences, bodies2),
           NEW b \in 1 .. Len(bodies), Opened(bodies, bodies2),
           bodies2[b] = Append(bodies[b], line),
           \A c \in 1 .. Len(bodies) : c # b => bodies2[c] = bodies[c]
    PROVE  Ends(Heap(line, sequences, bodies), Heap(<<>>, sequences, bodies2), b, Len(bodies[b]) + 1)
<1>1. PICK T : T = Heap(line, sequences, bodies)
  OBVIOUS
<1>2. PICK U : U = Heap(<<>>, sequences, bodies2)
  OBVIOUS
<1>3. /\ T[0][0] = line
      /\ \A c \in 1 .. Len(bodies) : \A s \in 1 .. Len(bodies[c]) : T[c][s] = bodies[c][s]
      /\ \A c \in 1 .. Len(bodies) : \A s \in Nat : s \notin 1 .. Len(bodies[c]) => T[c][s] = <<>>
      /\ \A c, s \in Nat : c > Len(bodies) => T[c][s] = <<>>
  <2>1. Shows(T, line, sequences, bodies)
    BY <1>1, HeapText, Zenon
  <2> QED BY <2>1, Zenon DEF Shows
<1>4. /\ U[0][0] = <<>>
      /\ \A c \in 1 .. Len(bodies2) : \A s \in 1 .. Len(bodies2[c]) : U[c][s] = bodies2[c][s]
      /\ \A c \in 1 .. Len(bodies2) : \A s \in Nat : s \notin 1 .. Len(bodies2[c]) => U[c][s] = <<>>
      /\ \A c, s \in Nat : c > Len(bodies2) => U[c][s] = <<>>
  <2>1. Shows(U, <<>>, sequences, bodies2)
    BY <1>2, HeapText, Zenon
  <2> QED BY <2>1, Zenon DEF Shows
<1>5. /\ Len(bodies) \in Nat /\ b \in Nat /\ b # 0 /\ Len(bodies2) \in Nat
      /\ \A c \in 1 .. Len(bodies) : c \in Nat /\ c # 0 /\ c \in 1 .. Len(bodies2)
  BY DEF Typed, Opened
<1> DEFINE n == Len(bodies[b])
           m == n + 1
<1>6. /\ bodies[b] \in Seq(Seq(HeapNodes)) /\ line \in Seq(HeapNodes) /\ n \in Nat
  BY DEF Typed
<1>7. /\ Len(bodies2[b]) = m /\ bodies2[b][m] = line
      /\ \A s \in 1 .. n : bodies2[b][s] = bodies[b][s]
  BY <1>6
<1>0. n = Len(bodies[b])
  OBVIOUS
<1> HIDE DEF n
<1>8. T[b][m] = <<>> /\ U[b][m] = T[0][0] /\ U[0][0] = <<>>
  <2>1. m \in Nat /\ m \notin 1 .. n /\ m \in 1 .. m
    BY <1>6
  <2>2. T[b][m] = <<>>
    BY <1>0, <1>3, <2>1
  <2>3. U[b][m] = bodies2[b][m]
    BY <1>4, <1>5, <1>7, <2>1
  <2> QED BY <1>3, <1>4, <1>7, <2>2, <2>3
<1>9. ASSUME NEW s \in Nat, s # m
      PROVE  U[b][s] = T[b][s]
  <2>1. CASE s \in 1 .. n
    <3>1. s \in 1 .. m
      BY <1>6, <2>1
    <3>2. U[b][s] = bodies2[b][s]
      BY <1>4, <1>5, <1>7, <3>1
    <3> QED BY <1>0, <1>3, <1>7, <2>1, <3>2
  <2>2. CASE s \notin 1 .. n
    <3>1. s \notin 1 .. m
      BY <1>6, <1>9, <2>2
    <3>2. U[b][s] = <<>>
      BY <1>4, <1>5, <1>7, <3>1
    <3> QED BY <1>0, <1>3, <2>2, <3>2
  <2> QED BY <2>1, <2>2
<1>10. ASSUME NEW c \in Nat, NEW s \in Nat, c # 0, c # b
       PROVE  U[c][s] = T[c][s]
  <2>1. CASE c \in 1 .. Len(bodies)
    <3>1. bodies2[c] = bodies[c] /\ c \in 1 .. Len(bodies2)
      BY <1>5, <1>10, <2>1
    <3>2. CASE s \in 1 .. Len(bodies[c])
      <4>1. T[c][s] = bodies[c][s]
        BY <1>3, <2>1, <3>2
      <4>2. U[c][s] = bodies2[c][s]
        BY <1>4, <3>1, <3>2
      <4> QED BY <3>1, <4>1, <4>2
    <3>3. CASE s \notin 1 .. Len(bodies[c])
      BY <1>3, <1>4, <2>1, <3>1, <3>3
    <3> QED BY <3>2, <3>3
  <2>2. CASE c > Len(bodies)
    <3>1. T[c][s] = <<>>
      BY <1>3, <2>2
    <3>2. CASE c > Len(bodies2)
      BY <1>4, <3>1, <3>2
    <3>3. CASE ~(c > Len(bodies2))
      <4>1. c \in 1 .. Len(bodies2) /\ bodies2[c] = <<>>
        BY <1>5, <2>2, <3>3 DEF Opened
      <4>2. s \notin 1 .. Len(bodies2[c])
        <5>1. Len(bodies2[c]) = 0
          BY <4>1
        <5> QED BY <5>1
      <4> QED BY <1>4, <3>1, <4>1, <4>2
    <3> QED BY <3>2, <3>3
  <2> QED BY <1>5, <1>10, <2>1, <2>2
<1>11. ASSUME NEW s \in Nat, s # 0
       PROVE  U[0][s] = T[0][s]
  BY <1>1, <1>2, <1>11 DEF Heap
<1>12. \A c, s \in Nat : (c # 0 \/ s # 0) /\ (c # b \/ s # m) => U[c][s] = T[c][s]
  BY <1>9, <1>10, <1>11
<1>13. Ends(T, U, b, m)
  BY <1>5, <1>6, <1>8, <1>12 DEF Ends
<1> QED BY <1>0, <1>1, <1>2, <1>13

\* T and U differ in block b only.
Elsewhere(T, U, b) == \A c, s \in Nat : c # b => U[c][s] = T[c][s]

LEMMA HeapElsewhere ==
    ASSUME NEW line, NEW sequences, NEW bodies, Typed(line, sequences, bodies),
           NEW bodies2, Typed(line, sequences, bodies2), Len(bodies2) = Len(bodies),
           NEW b \in 1 .. Len(bodies),
           \A c \in 1 .. Len(bodies) : c # b => bodies2[c] = bodies[c]
    PROVE  Elsewhere(Heap(line, sequences, bodies), Heap(line, sequences, bodies2), b)
<1>1. PICK T : T = Heap(line, sequences, bodies)
  OBVIOUS
<1>2. PICK U : U = Heap(line, sequences, bodies2)
  OBVIOUS
<1>3. ASSUME NEW c \in Nat, NEW s \in Nat, c # b
      PROVE  U[c][s] = T[c][s]
  <2>1. c \in 1 .. Len(bodies) => bodies2[c] = bodies[c]
    BY <1>3
  <2> QED BY <1>1, <1>2, <2>1 DEF Heap
<1> QED BY <1>1, <1>2, <1>3 DEF Elsewhere

LEMMA HeapAttached ==
    ASSUME NEW line, NEW sequences, NEW bodies, Typed(line, sequences, bodies),
           NEW b \in 1 .. Len(bodies), Waiting(bodies[b]), NEW c \in Nat
    PROVE  Attaches(Heap(line, sequences, bodies), Heap(line, sequences, Attach(bodies, b, c)),
                    b, Len(bodies[b]), Len(Last(bodies[b])), c)
<1> DEFINE block == bodies[b]
           m == Len(block)
           s == block[m]
           k == Len(s)
           n2 == [s[k] EXCEPT !.statements = c]
           s2 == [s EXCEPT ![k] = n2]
           block2 == [block EXCEPT ![m] = s2]
           bodies2 == Attach(bodies, b, c)
<1>0. block # <<>>
  BY Zenon DEF Waiting
<1>1. block \in Seq(Seq(HeapNodes)) /\ b \in Nat /\ Len(bodies) \in Nat /\ bodies \in Seq(Seq(Seq(HeapNodes)))
  BY DEF Typed
<1>2. m \in 1 .. m /\ s \in Seq(HeapNodes) /\ Last(block) = s /\ m \in Nat
  BY <1>0, <1>1, LastPlace
<1>3. s # <<>>
  BY <1>2 DEF Waiting
<1>4. k \in 1 .. k /\ s[k] \in HeapNodes /\ Last(s) = s[k] /\ k \in Nat
  BY <1>2, <1>3, LastPlace
<1>5. s[k].sequence = 0 /\ s[k].statements = 0
  <2>1. s[k] = Leaf("{")
    BY <1>2, <1>4, Zenon DEF Waiting
  <2>2. Leaf("{").sequence = 0 /\ Leaf("{").statements = 0
    BY DEF Leaf, Node
  <2> QED BY <2>1, <2>2, Zenon
<1>6. n2 \in HeapNodes /\ n2.statements = c /\ n2.sequence = 0
  BY <1>4, <1>5 DEF HeapNodes
<1> HIDE DEF n2
<1>7. /\ s2 \in Seq(HeapNodes) /\ Len(s2) = k /\ s2[k] = n2
      /\ \A j \in 1 .. k : j # k => s2[j] = s[j]
  BY <1>2, <1>4, <1>6
<1>8. bodies2 = [bodies EXCEPT ![b] = block2]
  BY DEF Attach, n2
<1> HIDE DEF s2
<1>9. /\ block2 \in Seq(Seq(HeapNodes)) /\ Len(block2) = m /\ block2[m] = s2
      /\ \A j \in 1 .. m : j # m => block2[j] = block[j]
  BY <1>1, <1>2, <1>7
<1>10. /\ block2 = bodies2[b]
       /\ bodies2 \in Seq(Seq(Seq(HeapNodes)))
       /\ Len(bodies2) = Len(bodies)
       /\ \A d \in 1 .. Len(bodies) : d # b => bodies2[d] = bodies[d]
  <2> HIDE DEF block2, bodies2
  <2> QED BY <1>1, <1>8, <1>9
<1>11. s = bodies[b][m] /\ m = Len(bodies[b]) /\ k = Len(Last(bodies[b]))
  BY <1>2
<1> HIDE DEF block2, bodies2, s, m, k
<1>12. PICK T : T = Heap(line, sequences, bodies)
  OBVIOUS
<1>13. PICK U : U = Heap(line, sequences, bodies2)
  OBVIOUS
<1>14. Typed(line, sequences, bodies2)
  BY <1>10 DEF Typed
<1>15. Elsewhere(T, U, b)
  BY <1>10, <1>12, <1>13, <1>14, HeapElsewhere
<1>16. /\ \A j \in 1 .. m : T[b][j] = bodies[b][j]
       /\ \A j \in Nat : j \notin 1 .. m => T[b][j] = <<>>
  <2>1. Shows(T, line, sequences, bodies)
    BY <1>12, HeapText, Zenon
  <2> QED BY <1>11, <2>1, Zenon DEF Shows
<1>17. /\ \A j \in 1 .. m : U[b][j] = bodies2[b][j]
       /\ \A j \in Nat : j \notin 1 .. m => U[b][j] = <<>>
  <2>1. Shows(U, line, sequences, bodies2)
    BY <1>13, <1>14, HeapText, Zenon
  <2>2. Len(bodies2[b]) = m /\ b \in 1 .. Len(bodies2)
    BY <1>9, <1>10
  <2> QED BY <2>1, <2>2, Zenon DEF Shows
<1>18. T[b][m] = s /\ U[b][m] = s2
  BY <1>2, <1>9, <1>10, <1>11, <1>16, <1>17
<1>19. ASSUME NEW d \in Nat, NEW t \in Nat, d # b \/ t # m
       PROVE  U[d][t] = T[d][t]
  <2>1. CASE d # b
    BY <1>15, <2>1 DEF Elsewhere
  <2>2. CASE d = b
    <3>1. t # m
      BY <1>19, <2>2
    <3>2. CASE t \in 1 .. m
      <4>1. U[b][t] = bodies2[b][t] /\ T[b][t] = bodies[b][t]
        BY <1>16, <1>17, <3>2
      <4> QED BY <1>9, <1>10, <2>2, <3>1, <3>2, <4>1
    <3>3. CASE t \notin 1 .. m
      BY <1>16, <1>17, <2>2, <3>3
    <3> QED BY <3>2, <3>3
  <2> QED BY <2>1, <2>2
<1>k. k = Len(s)
  BY DEF k
<1>20. Attaches(T, U, b, m, k, c)
  <2>1. b \in Nat /\ m \in Nat /\ k \in 1 .. Len(T[b][m]) /\ Len(T[b][m]) \in Nat
    BY <1>1, <1>2, <1>4, <1>18, <1>k
  <2>2. Len(U[b][m]) = Len(T[b][m])
    BY <1>7, <1>18, <1>k
  <2>3. /\ T[b][m][k].sequence = 0 /\ T[b][m][k].statements = 0
        /\ U[b][m][k].sequence = 0 /\ U[b][m][k].statements = c
    BY <1>5, <1>6, <1>7, <1>18, Zenon
  <2>4. \A n \in 1 .. Len(T[b][m]) : n # k => U[b][m][n] = T[b][m][n]
    BY <1>7, <1>18, <1>k, Zenon
  <2> QED BY <1>19, <2>1, <2>2, <2>3, <2>4 DEF Attaches
<1> QED BY <1>11, <1>12, <1>13, <1>20 DEF bodies2

LEMMA RemoveAtFacts ==
    ASSUME NEW S, NEW s \in Seq(S), NEW m \in 1 .. Len(s)
    PROVE  /\ RemoveAt(s, m) \in Seq(S)
           /\ Len(RemoveAt(s, m)) = Len(s) - 1
           /\ \A k \in 1 .. m - 1 : RemoveAt(s, m)[k] = s[k]
           /\ \A k \in m .. Len(s) - 1 : RemoveAt(s, m)[k] = s[k + 1]
<1> DEFINE l == Len(s)
           a == m - 1
           b == m + 1
           x == SubSeq(s, 1, a)
           y == SubSeq(s, b, l)
<1>1. l \in Nat /\ m \in Nat /\ 1 <= m /\ m <= l /\ \A k \in 1 .. l : s[k] \in S
  OBVIOUS
<1>2. a \in Int /\ b \in Int /\ a >= 0 /\ 1 \in Int /\ l \in Int
  BY <1>1
<1>3. (\A k \in 1 .. a : s[k] \in S) /\ (\A k \in b .. l : s[k] \in S)
  BY <1>1
<1>4. RemoveAt(s, m) = x \o y
  BY DEF RemoveAt
<1>a. a = m - 1 /\ b = m + 1
  OBVIOUS
<1> HIDE DEF l, a, b
<1>5. /\ x \in Seq(S) /\ Len(x) = a
      /\ \A k \in 1 .. a : x[k] = s[k]
  <2>1. x \in Seq(S)
    BY <1>2, <1>3, SubSeqProperties
  <2>2. Len(x) = IF 1 <= a THEN a - 1 + 1 ELSE 0
    BY <1>2, <1>3, SubSeqProperties
  <2>3. Len(x) = a
    BY <1>2, <2>2
  <2>4. \A k \in 1 .. a - 1 + 1 : x[k] = s[1 + k - 1]
    BY <1>2, <1>3, SubSeqProperties
  <2>5. \A k \in 1 .. a : k \in 1 .. a - 1 + 1 /\ 1 + k - 1 = k
    BY <1>2
  <2> QED BY <2>1, <2>3, <2>4, <2>5
<1>6. /\ y \in Seq(S) /\ Len(y) = l - m
      /\ \A k \in 1 .. l - m : y[k] = s[k + m]
  <2>1. y \in Seq(S)
    BY <1>2, <1>3, SubSeqProperties
  <2>2. Len(y) = IF b <= l THEN l - b + 1 ELSE 0
    BY <1>2, <1>3, SubSeqProperties
  <2>3. Len(y) = l - m
    BY <1>1, <1>a, <2>2
  <2>4. \A k \in 1 .. l - b + 1 : y[k] = s[b + k - 1]
    BY <1>2, <1>3, SubSeqProperties
  <2>5. \A k \in 1 .. l - m : k \in 1 .. l - b + 1 /\ b + k - 1 = k + m
    BY <1>1, <1>a
  <2> QED BY <2>1, <2>3, <2>4, <2>5
<1>0. l = Len(s)
  BY DEF l
<1> HIDE DEF x, y
<1>7. /\ x \o y \in Seq(S) /\ Len(x \o y) = a + (l - m)
      /\ \A k \in 1 .. a + (l - m) : (x \o y)[k] = IF k <= a THEN x[k] ELSE y[k - a]
  <2>1. Len(x) = a /\ Len(y) = l - m
    BY <1>5, <1>6
  <2> QED BY <1>5, <1>6, <2>1
<1>8. a + (l - m) = l - 1
  BY <1>1, <1>a
<1>9. \A k \in 1 .. m - 1 : (x \o y)[k] = s[k]
  <2> TAKE k \in 1 .. m - 1
  <2>1. k \in 1 .. a + (l - m) /\ k <= a /\ k \in 1 .. a
    BY <1>1, <1>a
  <2> QED BY <1>5, <1>7, <2>1
<1>10. \A k \in m .. l - 1 : (x \o y)[k] = s[k + 1]
  <2> TAKE k \in m .. l - 1
  <2>1. k \in 1 .. a + (l - m) /\ ~(k <= a) /\ k - a \in 1 .. l - m /\ k - a + m = k + 1
    BY <1>1, <1>a
  <2> QED BY <1>6, <1>7, <2>1
<1> QED BY <1>0, <1>4, <1>7, <1>8, <1>9, <1>10

\* The end of a sequence, from i on.
LEMMA EndFacts ==
    ASSUME NEW S, NEW s \in Seq(S), NEW i \in 1 .. Len(s) + 1
    PROVE  /\ SubSeq(s, i, Len(s)) \in Seq(S)
           /\ Len(SubSeq(s, i, Len(s))) = Len(s) - i + 1
           /\ \A k \in 1 .. Len(s) - i + 1 : SubSeq(s, i, Len(s))[k] = s[k + i - 1]
<1> DEFINE l == Len(s)
           x == SubSeq(s, i, l)
<1>1. l \in Int /\ i \in Int /\ 1 <= i /\ i <= l + 1 /\ \A k \in 1 .. l : s[k] \in S
  OBVIOUS
<1>2. \A k \in i .. l : s[k] \in S
  BY <1>1
<1>0. l = Len(s)
  OBVIOUS
<1> HIDE DEF l
<1>3. x \in Seq(S)
  BY <1>1, <1>2, SubSeqProperties
<1>4. Len(x) = IF i <= l THEN l - i + 1 ELSE 0
  BY <1>1, <1>2, SubSeqProperties
<1>5. \A k \in 1 .. l - i + 1 : x[k] = s[i + k - 1]
  BY <1>1, <1>2, SubSeqProperties
<1>6. \A k \in 1 .. l - i + 1 : i + k - 1 = k + i - 1
  BY <1>1
<1> QED BY <1>0, <1>1, <1>3, <1>4, <1>5, <1>6

\* The block in which statement m was joined to statement d, from lexeme i on.
Joined(block, d, m, i) ==
    RemoveAt([block EXCEPT ![d] = @ \o SubSeq(block[m], i, Len(block[m]))], m)

JoinsWell(block, d, m, i, r) ==
    /\ Len(r) = Len(block) - 1
    /\ Len(r[d]) = Len(block[d]) + Len(block[m]) - i + 1
    /\ \A k \in 1 .. Len(block[d]) : r[d][k] = block[d][k]
    /\ \A k \in Len(block[d]) + 1 .. Len(block[d]) + Len(block[m]) - i + 1 :
          r[d][k] = block[m][k - Len(block[d]) + i - 1]
    /\ \A s \in 1 .. m - 1 : s # d => r[s] = block[s]
    /\ \A s \in m .. Len(block) - 1 : r[s] = block[s + 1]

LEMMA JoinedFacts ==
    ASSUME NEW S, NEW block \in Seq(Seq(S)), NEW d \in Nat, NEW m \in 1 .. Len(block),
           1 <= d, d < m, NEW i \in 1 .. Len(block[m]) + 1
    PROVE  /\ Joined(block, d, m, i) \in Seq(Seq(S))
           /\ JoinsWell(block, d, m, i, Joined(block, d, m, i))
<1> DEFINE x == SubSeq(block[m], i, Len(block[m]))
           line == block[d] \o x
           put == [block EXCEPT ![d] = line]
           r == RemoveAt(put, m)
           l == Len(block[d])
           h == Len(block[m])
<1>1. /\ block[m] \in Seq(S) /\ d \in 1 .. Len(block) /\ block[d] \in Seq(S)
      /\ h \in Nat /\ l \in Nat /\ i \in Nat /\ 1 <= i /\ i <= h + 1 /\ Len(block) \in Nat /\ m \in Nat
  OBVIOUS
<1>2. /\ x \in Seq(S) /\ Len(x) = h - i + 1
      /\ \A k \in 1 .. h - i + 1 : x[k] = block[m][k + i - 1]
  BY <1>1, EndFacts, Zenon
<1>l. l = Len(block[d]) /\ h = Len(block[m])
  OBVIOUS
<1>j. Joined(block, d, m, i) = r
  BY DEF Joined
<1> HIDE DEF x
<1>3. /\ line \in Seq(S) /\ Len(line) = l + Len(x)
      /\ \A k \in 1 .. l + Len(x) : line[k] = IF k <= l THEN block[d][k] ELSE x[k - l]
  <2>1. block[d] \in Seq(S) /\ x \in Seq(S)
    BY <1>1, <1>2
  <2> QED BY <2>1
<1> HIDE DEF line, l, h
<1>4. /\ put \in Seq(Seq(S)) /\ Len(put) = Len(block) /\ put[d] = line
      /\ \A s \in 1 .. Len(block) : s # d => put[s] = block[s]
      /\ m \in 1 .. Len(put)
  BY <1>1, <1>3
<1> HIDE DEF put
<1>5. /\ r \in Seq(Seq(S)) /\ Len(r) = Len(put) - 1
      /\ \A k \in 1 .. m - 1 : r[k] = put[k]
      /\ \A k \in m .. Len(put) - 1 : r[k] = put[k + 1]
  BY <1>4, RemoveAtFacts, Zenon
<1> HIDE DEF r
<1>6. r[d] = line
  <2>1. d \in 1 .. m - 1
    BY <1>1
  <2> QED BY <1>4, <1>5, <2>1
<1>7. Len(r[d]) = l + h - i + 1
  BY <1>1, <1>2, <1>3, <1>6
<1>8. \A k \in 1 .. l : r[d][k] = block[d][k]
  <2> TAKE k \in 1 .. l
  <2>1. k \in 1 .. l + Len(x) /\ k <= l
    BY <1>1, <1>2
  <2> QED BY <1>3, <1>6, <2>1
<1>9. \A k \in l + 1 .. l + h - i + 1 : r[d][k] = block[m][k - l + i - 1]
  <2> TAKE k \in l + 1 .. l + h - i + 1
  <2>1. k \in 1 .. l + Len(x) /\ ~(k <= l) /\ k - l \in 1 .. h - i + 1
    BY <1>1, <1>2
  <2>2. r[d][k] = x[k - l]
    BY <1>3, <1>6, <2>1
  <2> QED BY <1>2, <2>1, <2>2
<1>10. \A s \in 1 .. m - 1 : s # d => r[s] = block[s]
  <2> TAKE s \in 1 .. m - 1
  <2>1. s \in 1 .. Len(block)
    BY <1>1
  <2> QED BY <1>4, <1>5, <2>1
<1>11. \A s \in m .. Len(block) - 1 : r[s] = block[s + 1]
  <2> TAKE s \in m .. Len(block) - 1
  <2>1. s + 1 \in 1 .. Len(block) /\ s + 1 # d /\ s \in m .. Len(put) - 1
    <3>1. Len(block) \in Nat /\ m \in Nat /\ 1 <= m /\ d < m /\ Len(put) = Len(block) /\ d \in Nat
      BY <1>1, <1>4
    <3> QED BY <3>1
  <2> QED BY <1>4, <1>5, <2>1
<1>12. JoinsWell(block, d, m, i, r)
  BY <1>4, <1>5, <1>7, <1>8, <1>9, <1>10, <1>11, <1>l DEF JoinsWell
<1> QED BY <1>4, <1>5, <1>12, <1>j

LEMMA HeapJoined ==
    ASSUME NEW line, NEW sequences, NEW bodies, Typed(line, sequences, bodies),
           NEW b \in 1 .. Len(bodies), NEW d \in Nat, NEW m \in 1 .. Len(bodies[b]),
           1 <= d, d < m, NEW i \in 1 .. Len(bodies[b][m]) + 1,
           NEW bodies2, bodies2 = [bodies EXCEPT ![b] = Joined(bodies[b], d, m, i)]
    PROVE  /\ Typed(line, sequences, bodies2)
           /\ Len(bodies2) = Len(bodies)
           /\ Joins(Heap(line, sequences, bodies), Heap(line, sequences, bodies2), b, d, m, i)
<1> DEFINE block == bodies[b]
           r == Joined(block, d, m, i)
<1>1. block \in Seq(Seq(HeapNodes)) /\ b \in Nat /\ b # 0 /\ Len(bodies) \in Nat /\ bodies \in Seq(Seq(Seq(HeapNodes)))
  BY DEF Typed
<1>2. /\ r \in Seq(Seq(HeapNodes))
      /\ Len(r) = Len(block) - 1
      /\ Len(r[d]) = Len(block[d]) + Len(block[m]) - i + 1
      /\ \A k \in 1 .. Len(block[d]) : r[d][k] = block[d][k]
      /\ \A k \in Len(block[d]) + 1 .. Len(block[d]) + Len(block[m]) - i + 1 :
            r[d][k] = block[m][k - Len(block[d]) + i - 1]
      /\ \A s \in 1 .. m - 1 : s # d => r[s] = block[s]
      /\ \A s \in m .. Len(block) - 1 : r[s] = block[s + 1]
  <2>1. r \in Seq(Seq(HeapNodes)) /\ JoinsWell(block, d, m, i, r)
    BY <1>1, JoinedFacts, Zenon
  <2> QED BY <2>1, Zenon DEF JoinsWell
<1>3. bodies2 = [bodies EXCEPT ![b] = r]
  OBVIOUS
<1>b. block = bodies[b]
  OBVIOUS
<1> HIDE DEF r
<1>4. /\ bodies2 \in Seq(Seq(Seq(HeapNodes))) /\ Len(bodies2) = Len(bodies) /\ bodies2[b] = r
      /\ \A c \in 1 .. Len(bodies) : c # b => bodies2[c] = bodies[c]
  BY <1>1, <1>2, <1>3
<1>5. Typed(line, sequences, bodies2)
  BY <1>4 DEF Typed
<1>6. PICK T : T = Heap(line, sequences, bodies)
  OBVIOUS
<1>7. PICK U : U = Heap(line, sequences, bodies2)
  OBVIOUS
<1>8. Elsewhere(T, U, b)
  BY <1>4, <1>5, <1>6, <1>7, HeapElsewhere
<1>9. /\ \A j \in 1 .. Len(block) : T[b][j] = block[j]
      /\ \A j \in Nat : j \notin 1 .. Len(block) => T[b][j] = <<>>
  <2>1. Shows(T, line, sequences, bodies)
    BY <1>6, HeapText, Zenon
  <2> QED BY <2>1, Zenon DEF Shows
<1>10. /\ \A j \in 1 .. Len(block) - 1 : U[b][j] = r[j]
       /\ \A j \in Nat : j \notin 1 .. Len(block) - 1 => U[b][j] = <<>>
  <2>1. Shows(U, line, sequences, bodies2)
    BY <1>5, <1>7, HeapText, Zenon
  <2>2. Len(bodies2[b]) = Len(block) - 1 /\ b \in 1 .. Len(bodies2)
    BY <1>2, <1>4
  <2> QED BY <1>4, <2>1, <2>2, Zenon DEF Shows
<1> DEFINE n == Len(block)
<1>11. /\ n \in Nat /\ m \in 1 .. n /\ d \in 1 .. n /\ d \in 1 .. n - 1 /\ d < m /\ i \in Nat /\ 1 <= i
       /\ block[d] \in Seq(HeapNodes) /\ block[m] \in Seq(HeapNodes)
       /\ Len(block[d]) \in Nat /\ Len(block[m]) \in Nat /\ i <= Len(block[m]) + 1
  BY <1>1
<1>n. n = Len(block)
  OBVIOUS
<1> HIDE DEF n, block
<1>12. T[b][d] = block[d] /\ T[b][m] = block[m] /\ U[b][d] = r[d]
  BY <1>9, <1>10, <1>11, <1>n
<1>13. \A s \in Nat : s < m /\ s # d => U[b][s] = T[b][s]
  <2> TAKE s \in Nat
  <2> HAVE s < m /\ s # d
  <2>1. CASE s = 0
    <3>1. s \notin 1 .. n /\ s \notin 1 .. n - 1
      BY <2>1
    <3> QED BY <1>9, <1>10, <1>n, <3>1
  <2>2. CASE s # 0
    <3>1. s \in 1 .. n /\ s \in 1 .. n - 1 /\ s \in 1 .. m - 1
      BY <1>11, <2>2
    <3> QED BY <1>2, <1>9, <1>10, <1>n, <3>1
  <2> QED BY <2>1, <2>2
<1>14. \A s \in Nat : m <= s => U[b][s] = T[b][s + 1]
  <2> TAKE s \in Nat
  <2> HAVE m <= s
  <2>1. CASE s < n
    <3>1. s \in 1 .. n - 1 /\ s + 1 \in 1 .. n /\ s \in m .. n - 1
      BY <1>11, <2>1
    <3> QED BY <1>2, <1>9, <1>10, <1>n, <3>1
  <2>2. CASE s >= n
    <3>1. s \notin 1 .. n - 1 /\ s + 1 \notin 1 .. n /\ s + 1 \in Nat
      BY <1>11, <2>2
    <3> QED BY <1>9, <1>10, <1>n, <3>1
  <2> QED BY <1>11, <2>1, <2>2
<1>15. /\ Len(U[b][d]) = Len(T[b][d]) + Len(T[b][m]) - i + 1
       /\ \A k \in 1 .. Len(T[b][d]) : U[b][d][k] = T[b][d][k]
       /\ \A k \in Len(T[b][d]) + 1 .. Len(U[b][d]) : U[b][d][k] = T[b][m][k - Len(T[b][d]) + i - 1]
  BY <1>2, <1>12
<1>16. Joins(T, U, b, d, m, i)
  <2>1. /\ b \in Nat /\ d \in Nat /\ m \in Nat /\ i \in Nat /\ b # 0 /\ d < m /\ 1 <= i
        /\ Len(T[b][d]) \in Nat /\ Len(T[b][m]) \in Nat /\ i <= Len(T[b][m]) + 1
    BY <1>1, <1>11, <1>12
  <2> QED BY <1>8, <1>13, <1>14, <1>15, <2>1 DEF Joins, Elsewhere
<1> QED BY <1>4, <1>5, <1>6, <1>7, <1>16

\* A lexeme of the text is one the tree can hold.
LEMMA LexemRead ==
    ASSUME program \in Programs \union {<<>>},
           NEW lexem \in Alphabet \union {program[k] : k \in DOMAIN program}
    PROVE  lexem \in Lexems
<1>1. CASE lexem \in Alphabet
  BY <1>1 DEF Lexems
<1>2. CASE lexem \in {program[k] : k \in DOMAIN program}
  <2>1. lexem \in UNION {{text[k] : k \in DOMAIN text} : text \in Programs \union {<<>>}}
    BY <1>2
  <2> QED
    BY <2>1 DEF Lexems
<1> QED
  BY <1>1, <1>2

-----------------------------------------------------------------------------
(***************************************************************************)
(* Each action of AddLexem keeps the tree one, and all of it owned.        *)
(***************************************************************************)
HeapNow == Heap(lexem_list, lists, blocks)

Owned ==
    /\ Tree(HeapNow)
    /\ SequencesOf(HeapNow) = 1 .. Len(lists)
    /\ BodiesOf(HeapNow) = 1 .. Len(blocks) \ OpenBlocks

\* A lexeme that owns nothing is added to the statement being read.
LEMMA LeafAdded ==
    ASSUME Shape, Owned, NEW lexem, Leaf(lexem) \in HeapNodes,
           NEW line, line = Append(lexem_list, Leaf(lexem)), NEW M, M = Heap(line, lists, blocks)
    PROVE  /\ Typed(line, lists, blocks)
           /\ Tree(M)
           /\ SequencesOf(M) = SequencesOf(HeapNow)
           /\ BodiesOf(M) = BodiesOf(HeapNow)
<1>1. Typed(lexem_list, lists, blocks)
  BY Zenon DEF Shape, Typed
<1>2. Typed(line, lists, blocks)
  BY <1>1 DEF Typed
<1>3. 0 \in 0 .. Len(lists) /\ Opened(lists, lists)
  BY <1>1 DEF Typed, Opened
<1>4. Pushes(HeapNow, M, 0, 0, Leaf(lexem))
  BY <1>1, <1>2, <1>3, HeapPushed DEF HeapNow
<1>5. Leaf(lexem).statements = 0 /\ Leaf(lexem).sequence = 0
  BY DEF Leaf, Node
<1>6. PICK node : node = Leaf(lexem)
  OBVIOUS
<1>7. /\ Tree(M)
      /\ SequencesOf(M) = SequencesOf(HeapNow) \union ({node.sequence} \ {0})
      /\ BodiesOf(M) = BodiesOf(HeapNow)
  BY <1>4, <1>5, <1>6, TreePushed DEF Owned
<1> QED BY <1>2, <1>5, <1>6, <1>7

LEMMA SemicolonOwns ==
    ASSUME Shape, Owned, Semicolon
    PROVE  Owned'
<1> DEFINE s == Append(lexem_list, Leaf(";"))
           cs == current_statement
<1>1. PICK line : line = s
  OBVIOUS
<1>2. PICK M : M = Heap(line, lists, blocks)
  OBVIOUS
<1>3. /\ Typed(line, lists, blocks) /\ Tree(M)
      /\ SequencesOf(M) = SequencesOf(HeapNow) /\ BodiesOf(M) = BodiesOf(HeapNow)
  BY <1>1, <1>2, LeafTyped, LeafAdded
<1>4. /\ blocks' = Ended(line) /\ lexem_list' = <<>> /\ lists' = lists
      /\ current_statement' = current_statement /\ statement_stack' = statement_stack
  BY <1>1 DEF Semicolon, nesting
<1>5. line \in Seq(HeapNodes) /\ cs \in 1 .. Len(blocks)
  BY <1>3 DEF Typed, Shape
<1>6. /\ blocks' \in Seq(Seq(Seq(HeapNodes))) /\ Len(blocks') = Len(blocks)
      /\ blocks'[cs] = Append(blocks[cs], line)
      /\ \A b \in 1 .. Len(blocks) : b # cs => blocks'[b] = blocks[b]
  BY <1>4, <1>5, EndedFacts
<1>7. Typed(<<>>, lists, blocks') /\ Opened(blocks, blocks')
  BY <1>3, <1>6 DEF Typed, Opened
<1> HIDE DEF s, cs
<1>8. PICK n : n = Len(blocks[cs]) + 1
  OBVIOUS
<1>9. Ends(M, HeapNow', cs, n)
  <2>1. Ends(Heap(line, lists, blocks), Heap(<<>>, lists, blocks'), cs, Len(blocks[cs]) + 1)
    BY <1>3, <1>5, <1>6, <1>7, HeapEnded
  <2> QED BY <1>2, <1>4, <1>8, <2>1 DEF HeapNow
<1>10. Tree(HeapNow') /\ SequencesOf(HeapNow') = SequencesOf(M) /\ BodiesOf(HeapNow') = BodiesOf(M)
  BY <1>3, <1>9, TreeEnded
<1>11. OpenBlocks' = OpenBlocks
  BY <1>4 DEF OpenBlocks, Around
<1>12. /\ SequencesOf(HeapNow') = 1 .. Len(lists')
       /\ BodiesOf(HeapNow') = 1 .. Len(blocks') \ OpenBlocks'
  BY <1>3, <1>4, <1>6, <1>10, <1>11, Zenon DEF Owned
<1> QED BY <1>10, <1>12, Zenon DEF Owned, Tree, Single, Later, SequencesOf, BodiesOf, Placed, At

LEMMA OpenBlockOwns ==
    ASSUME Shape, Owned, OpenBlock
    PROVE  Owned'
<1> DEFINE s == Append(lexem_list, Leaf("{"))
           cs == current_statement
<1>1. PICK line : line = s
  OBVIOUS
<1>2. PICK M : M = Heap(line, lists, blocks)
  OBVIOUS
<1>3. /\ Typed(line, lists, blocks) /\ Tree(M)
      /\ SequencesOf(M) = SequencesOf(HeapNow) /\ BodiesOf(M) = BodiesOf(HeapNow)
  BY <1>1, <1>2, LeafTyped, LeafAdded
<1>4. /\ blocks' = Append(Ended(line), <<>>) /\ lexem_list' = <<>> /\ lists' = lists
      /\ current_statement' = Len(blocks) + 1
      /\ statement_stack' = Append(statement_stack, cs)
  BY <1>1 DEF OpenBlock
<1>5. /\ line \in Seq(HeapNodes) /\ cs \in 1 .. Len(blocks) /\ statement_stack \in Seq(Nat)
      /\ Len(blocks) \in Nat
  BY <1>3 DEF Typed, Shape
<1>6. /\ Ended(line) \in Seq(Seq(Seq(HeapNodes))) /\ Len(Ended(line)) = Len(blocks)
      /\ Ended(line)[cs] = Append(blocks[cs], line)
      /\ \A b \in 1 .. Len(blocks) : b # cs => Ended(line)[b] = blocks[b]
  BY <1>5, EndedFacts
<1> HIDE DEF s, cs
<1>7. /\ blocks' \in Seq(Seq(Seq(HeapNodes))) /\ Len(blocks') = Len(blocks) + 1
      /\ blocks'[Len(blocks) + 1] = <<>>
      /\ \A b \in 1 .. Len(blocks) : blocks'[b] = Ended(line)[b]
  <2>1. PICK e : e = Ended(line)
    OBVIOUS
  <2>2. PICK empty \in Seq(Seq(HeapNodes)) : empty = <<>>
    <3>1. <<>> \in Seq(Seq(HeapNodes))
      OBVIOUS
    <3> QED BY <3>1, Zenon
  <2>3. e \in Seq(Seq(Seq(HeapNodes))) /\ Len(e) = Len(blocks) /\ blocks' = Append(e, empty)
    BY <1>4, <1>6, <2>1, <2>2
  <2>4. /\ blocks' \in Seq(Seq(Seq(HeapNodes))) /\ Len(blocks') = Len(e) + 1
        /\ blocks'[Len(e) + 1] = empty
        /\ \A b \in 1 .. Len(e) : blocks'[b] = e[b]
    BY <2>3
  <2> QED BY <2>1, <2>2, <2>3, <2>4
<1>8. Typed(<<>>, lists, blocks') /\ Opened(blocks, blocks')
  BY <1>3, <1>7 DEF Typed, Opened
<1>9. PICK n : n = Len(blocks[cs]) + 1
  OBVIOUS
<1>10. Ends(M, HeapNow', cs, n)
  <2>1. /\ blocks'[cs] = Append(blocks[cs], line)
        /\ \A b \in 1 .. Len(blocks) : b # cs => blocks'[b] = blocks[b]
    BY <1>5, <1>6, <1>7
  <2>2. Ends(Heap(line, lists, blocks), Heap(<<>>, lists, blocks'), cs, Len(blocks[cs]) + 1)
    BY <1>3, <1>5, <1>8, <2>1, HeapEnded
  <2> QED BY <1>2, <1>4, <1>9, <2>2 DEF HeapNow
<1>11. Tree(HeapNow') /\ SequencesOf(HeapNow') = SequencesOf(M) /\ BodiesOf(HeapNow') = BodiesOf(M)
  BY <1>3, <1>10, TreeEnded
<1>12. 1 .. Len(blocks') \ OpenBlocks' = 1 .. Len(blocks) \ OpenBlocks
  <2>1. /\ Len(statement_stack') = Len(statement_stack) + 1
        /\ statement_stack'[Len(statement_stack) + 1] = cs
        /\ \A k \in 1 .. Len(statement_stack) : statement_stack'[k] = statement_stack[k]
        /\ Len(statement_stack) \in Nat
    BY <1>4, <1>5
  <2>2. {statement_stack'[k] : k \in 1 .. Len(statement_stack')}
           = {statement_stack[k] : k \in 1 .. Len(statement_stack)} \union {cs}
    BY <2>1
  <2>3. OpenBlocks' = OpenBlocks \union {Len(blocks) + 1}
    BY <1>4, <2>2 DEF OpenBlocks, Around, cs
  <2>4. 1 .. Len(blocks') = 1 .. Len(blocks) \union {Len(blocks) + 1}
    <3>1. \A j \in Nat : 1 .. j + 1 = 1 .. j \union {j + 1}
      OBVIOUS
    <3> QED BY <1>5, <1>7, <3>1, Zenon
  <2>5. Len(blocks) + 1 \notin 1 .. Len(blocks)
    BY <1>5
  <2> QED BY <2>3, <2>4, <2>5
<1>13. /\ SequencesOf(HeapNow') = 1 .. Len(lists')
       /\ BodiesOf(HeapNow') = 1 .. Len(blocks') \ OpenBlocks'
  BY <1>3, <1>4, <1>11, <1>12, Zenon DEF Owned
<1> QED BY <1>11, <1>13, Zenon DEF Owned, Tree, Single, Later, SequencesOf, BodiesOf, Placed, At

LEMMA CloseBlockOwns ==
    ASSUME Sound, Owned, CloseBlock, statement_stack # <<>>
    PROVE  Owned'
<1> DEFINE all == IF lexem_list = <<>> THEN blocks ELSE Ended(lexem_list)
           outer == Last(statement_stack)
           cs == current_statement
<1>1. /\ blocks' = Attach(all, outer, cs) /\ lexem_list' = <<>> /\ lists' = lists
      /\ current_statement' = outer
      /\ statement_stack' = Front(statement_stack)
  BY DEF CloseBlock
<1>2. /\ Typed(lexem_list, lists, blocks) /\ cs \in 1 .. Len(blocks)
      /\ statement_stack \in Seq(Nat) /\ Len(blocks) \in Nat /\ cs \in Nat
  BY DEF Sound, Shape, Typed
<1>3. /\ Ascending(statement_stack, cs)
      /\ \A k \in 1 .. Len(statement_stack) : statement_stack[k] \in 1 .. Len(blocks)
      /\ \A k \in 1 .. Len(statement_stack) : Waiting(blocks[statement_stack[k]])
  BY Zenon DEF Sound, BlocksInv, BlockOrder
<1>4. /\ outer = statement_stack[Len(statement_stack)]
      /\ Len(statement_stack) \in 1 .. Len(statement_stack)
      /\ Len(statement_stack) \in Nat
      /\ Len(Front(statement_stack)) = Len(statement_stack) - 1
      /\ \A k \in 1 .. Len(statement_stack) - 1 : Front(statement_stack)[k] = statement_stack[k]
  <2> HIDE DEF outer
  <2>1. statement_stack \in Seq(Nat) /\ statement_stack # <<>>
    BY <1>2
  <2>2. Len(statement_stack) \in Nat
    BY <2>1
  <2>3. /\ Last(statement_stack) = statement_stack[Len(statement_stack)]
        /\ Len(statement_stack) \in 1 .. Len(statement_stack)
        /\ Len(Front(statement_stack)) = Len(statement_stack) - 1
        /\ \A k \in 1 .. Len(statement_stack) - 1 : Front(statement_stack)[k] = statement_stack[k]
    BY <2>1, FrontFacts
  <2> QED BY <2>2, <2>3 DEF outer
<1> HIDE DEF outer
<1>5. outer \in 1 .. Len(blocks) /\ outer < cs /\ Waiting(blocks[outer])
  BY <1>3, <1>4 DEF Ascending
<1>6. /\ Typed(<<>>, lists, all) /\ Len(all) = Len(blocks)
      /\ all[outer] = blocks[outer]
      /\ Tree(Heap(<<>>, lists, all))
      /\ SequencesOf(Heap(<<>>, lists, all)) = SequencesOf(HeapNow)
      /\ BodiesOf(Heap(<<>>, lists, all)) = BodiesOf(HeapNow)
  <2>1. CASE lexem_list = <<>>
    BY <1>2, <2>1 DEF Owned, HeapNow
  <2>2. CASE lexem_list # <<>>
    <3>1. all = Ended(lexem_list)
      BY <2>2
    <3> HIDE DEF all
    <3>2. /\ all \in Seq(Seq(Seq(HeapNodes))) /\ Len(all) = Len(blocks)
          /\ all[cs] = Append(blocks[cs], lexem_list)
          /\ \A b \in 1 .. Len(blocks) : b # cs => all[b] = blocks[b]
      BY <1>2, <3>1, EndedFacts DEF Sound, Typed
    <3>3. Typed(<<>>, lists, all) /\ Opened(blocks, all)
      BY <1>2, <3>2 DEF Typed, Opened
    <3>4. PICK n : n = Len(blocks[cs]) + 1
      OBVIOUS
    <3>5. PICK M : M = Heap(<<>>, lists, all)
      OBVIOUS
    <3> HIDE DEF cs
    <3>6. Ends(HeapNow, M, cs, n)
      <4>1. Ends(Heap(lexem_list, lists, blocks), Heap(<<>>, lists, all), cs, Len(blocks[cs]) + 1)
        BY <1>2, <3>2, <3>3, HeapEnded
      <4> QED BY <3>4, <3>5, <4>1 DEF HeapNow
    <3>7. Tree(M) /\ SequencesOf(M) = SequencesOf(HeapNow) /\ BodiesOf(M) = BodiesOf(HeapNow)
      BY <3>6, TreeEnded DEF Owned
    <3>8. all[outer] = blocks[outer]
      <4>1. outer # cs
        BY <1>2, <1>5
      <4> QED BY <1>5, <3>2, <4>1
    <3> QED BY <3>2, <3>3, <3>5, <3>7, <3>8
  <2> QED BY <2>1, <2>2
<1> HIDE DEF all
<1>7. PICK M : M = Heap(<<>>, lists, all)
  OBVIOUS
<1>8. PICK m, k : m = Len(all[outer]) /\ k = Len(Last(all[outer]))
  OBVIOUS
<1>9. Attaches(M, HeapNow', outer, m, k, cs)
  <2>1. outer \in 1 .. Len(all) /\ Waiting(all[outer])
    BY <1>5, <1>6
  <2>2. Attaches(Heap(<<>>, lists, all), Heap(<<>>, lists, Attach(all, outer, cs)),
                 outer, Len(all[outer]), Len(Last(all[outer])), cs)
    BY <1>2, <1>6, <2>1, HeapAttached
  <2> QED BY <1>1, <1>7, <1>8, <2>2 DEF HeapNow
<1>10. cs \in OpenBlocks
  BY DEF OpenBlocks, Around
<1>11. /\ Tree(M) /\ SequencesOf(M) = 1 .. Len(lists)
       /\ BodiesOf(M) = 1 .. Len(blocks) \ OpenBlocks
  BY <1>6, <1>7 DEF Owned
<1>12. cs \notin BodiesOf(M) /\ cs # 0 /\ outer # 0
  <2>1. cs # 0 /\ outer # 0
    BY <1>2, <1>5
  <2> QED BY <1>10, <1>11, <2>1, Zenon
<1>13. /\ Tree(HeapNow') /\ SequencesOf(HeapNow') = SequencesOf(M)
       /\ BodiesOf(HeapNow') = BodiesOf(M) \union {cs}
  BY <1>5, <1>9, <1>11, <1>12, TreeAttached
<1>14. OpenBlocks' = OpenBlocks \ {cs}
  <2>1. {Front(statement_stack)[j] : j \in 1 .. Len(Front(statement_stack))} \union {outer}
           = {statement_stack[j] : j \in 1 .. Len(statement_stack)}
    BY <1>4
  <2>2. cs \notin {statement_stack[j] : j \in 1 .. Len(statement_stack)}
    <3>1. \A j \in 1 .. Len(statement_stack) : statement_stack[j] < cs /\ statement_stack[j] \in Nat
      BY <1>2, <1>3 DEF Ascending
    <3> QED BY <1>2, <3>1
  <2>3. OpenBlocks' = {Front(statement_stack)[j] : j \in 1 .. Len(Front(statement_stack))} \union {outer}
    BY <1>1 DEF OpenBlocks, Around
  <2> QED BY <2>1, <2>2, <2>3 DEF OpenBlocks, Around
<1>15. Len(blocks') = Len(blocks)
  BY <1>1, <1>2, <1>5, <1>6, AttachFacts DEF Typed
<1>16. BodiesOf(HeapNow') = 1 .. Len(blocks') \ OpenBlocks'
  BY <1>2, <1>10, <1>11, <1>13, <1>14, <1>15
<1>17. SequencesOf(HeapNow') = 1 .. Len(lists')
  BY <1>1, <1>11, <1>13
<1> QED BY <1>13, <1>16, <1>17, Zenon DEF Owned, Tree, Single, Later, SequencesOf, BodiesOf, Placed, At

LEMMA OtherOwns ==
    ASSUME Shape, Owned, NEW lexem \in Lexems, Other(lexem)
    PROVE  Owned'
<1>1. PICK node : node = Leaf(lexem)
  OBVIOUS
<1>2. /\ Push(node) /\ blocks' = blocks /\ current_statement' = current_statement
      /\ statement_stack' = statement_stack
  BY <1>1 DEF Other, nesting
<1>3. node \in HeapNodes /\ node.sequence = 0 /\ node.statements = 0
  <2>1. Leaf(lexem) \in HeapNodes
    BY LeafTyped, Zenon
  <2>2. Leaf(lexem).sequence = 0 /\ Leaf(lexem).statements = 0
    BY DEF Leaf, Node
  <2> QED BY <1>1, <2>1, <2>2, Zenon
<1>4. Typed(lexem_list, lists, blocks) /\ current_node \in 0 .. Len(lists) /\ Len(lists) \in Nat
  BY DEF Shape, Typed
<1>5. /\ lexem_list' \in Seq(HeapNodes)
      /\ lists' \in Seq(Seq(HeapNodes))
      /\ Len(lists') = Len(lists)
  BY <1>2, <1>3, PushFacts
<1>6. Typed(lexem_list', lists', blocks) /\ Opened(lists, lists')
  BY <1>4, <1>5 DEF Typed, Opened
<1>7. /\ current_node = 0 => lexem_list' = Append(lexem_list, node)
      /\ current_node # 0 => /\ lexem_list' = lexem_list
                             /\ lists'[current_node] = Append(lists[current_node], node)
      /\ \A t \in 1 .. Len(lists) : t # current_node => lists'[t] = lists[t]
  <2>1. CASE current_node = 0
    BY <1>2, <2>1 DEF Push
  <2>2. CASE current_node # 0
    <3>1. lists' = [lists EXCEPT ![current_node] = Append(@, node)] /\ lexem_list' = lexem_list
      BY <1>2, <2>2 DEF Push
    <3>2. current_node \in 1 .. Len(lists) /\ lists \in Seq(Seq(HeapNodes))
      BY <1>4, <2>2 DEF Typed
    <3> QED BY <2>2, <3>1, <3>2
  <2> QED BY <2>1, <2>2
<1>8. Pushes(HeapNow, HeapNow', 0, current_node, node)
  <2>1. Pushes(Heap(lexem_list, lists, blocks), Heap(lexem_list', lists', blocks), 0, current_node, node)
    BY <1>3, <1>4, <1>6, <1>7, HeapPushed
  <2> QED BY <1>2, <2>1 DEF HeapNow
<1>9. /\ Tree(HeapNow')
      /\ SequencesOf(HeapNow') = SequencesOf(HeapNow) \union ({node.sequence} \ {0})
      /\ BodiesOf(HeapNow') = BodiesOf(HeapNow)
  BY <1>3, <1>8, TreePushed DEF Owned
<1>10. OpenBlocks' = OpenBlocks
  BY <1>2 DEF OpenBlocks, Around
<1>11. /\ SequencesOf(HeapNow') = 1 .. Len(lists')
       /\ BodiesOf(HeapNow') = 1 .. Len(blocks') \ OpenBlocks'
  BY <1>2, <1>3, <1>5, <1>9, <1>10 DEF Owned
<1> QED BY <1>9, <1>11, Zenon DEF Owned, Tree, Single, Later, SequencesOf, BodiesOf, Placed, At

LEMMA OpenBracketOwns ==
    ASSUME Shape, Owned, NEW lexem \in Lexems, OpenBracket(lexem)
    PROVE  Owned'
<1>1. PICK node : node = Node(lexem, Len(lists) + 1, 0)
  OBVIOUS
<1>2. /\ blocks' = blocks /\ current_statement' = current_statement
      /\ statement_stack' = statement_stack
  BY DEF OpenBracket
<1>3. Typed(lexem_list, lists, blocks) /\ current_node \in 0 .. Len(lists) /\ Len(lists) \in Nat
  BY DEF Shape, Typed
<1>4. node \in HeapNodes /\ node.sequence = Len(lists) + 1 /\ node.statements = 0
  <2>1. Len(lists) + 1 \in Nat
    BY <1>3
  <2> QED BY <1>1, <2>1 DEF Node, HeapNodes
<1>5. /\ lexem_list' \in Seq(HeapNodes)
      /\ lists' \in Seq(Seq(HeapNodes))
      /\ Len(lists') = Len(lists) + 1
  BY OpenBracketFacts
<1>6. /\ current_node = 0 => lexem_list' = Append(lexem_list, node)
      /\ current_node # 0 => /\ lexem_list' = lexem_list
                             /\ lists'[current_node] = Append(lists[current_node], node)
      /\ lists'[Len(lists) + 1] = <<>>
      /\ \A t \in 1 .. Len(lists) : t # current_node => lists'[t] = lists[t]
  <2>1. PICK empty \in Seq(HeapNodes) : empty = <<>>
    <3>1. <<>> \in Seq(HeapNodes)
      OBVIOUS
    <3> QED BY <3>1, Zenon
  <2>2. lists \in Seq(Seq(HeapNodes))
    BY <1>3 DEF Typed
  <2>3. CASE current_node = 0
    <3>1. lists' = Append(lists, empty) /\ lexem_list' = Append(lexem_list, node)
      BY <1>1, <2>1, <2>3 DEF OpenBracket
    <3> QED BY <2>1, <2>2, <2>3, <3>1
  <2>4. CASE current_node # 0
    <3>1. PICK put : put = [lists EXCEPT ![current_node] = Append(@, node)]
      OBVIOUS
    <3>2. lists' = Append(put, empty) /\ lexem_list' = lexem_list
      BY <1>1, <2>1, <2>4, <3>1 DEF OpenBracket
    <3>3. /\ put \in Seq(Seq(HeapNodes)) /\ Len(put) = Len(lists)
          /\ put[current_node] = Append(lists[current_node], node)
          /\ \A t \in 1 .. Len(lists) : t # current_node => put[t] = lists[t]
          /\ current_node \in 1 .. Len(lists)
      <4>1. current_node \in 1 .. Len(lists) /\ lists[current_node] \in Seq(HeapNodes)
        BY <1>3, <2>2, <2>4
      <4>2. Append(lists[current_node], node) \in Seq(HeapNodes)
        BY <1>4, <4>1
      <4> QED BY <2>2, <3>1, <4>1, <4>2
    <3>4. /\ lists'[Len(put) + 1] = empty
          /\ \A t \in 1 .. Len(put) : lists'[t] = put[t]
      <4>1. put \in Seq(Seq(HeapNodes)) /\ lists' = Append(put, empty)
        BY <3>2, <3>3
      <4> QED BY <2>1, <4>1
    <3> QED BY <2>1, <2>4, <3>2, <3>3, <3>4
  <2> QED BY <2>3, <2>4
<1>7. Typed(lexem_list', lists', blocks) /\ Opened(lists, lists')
  BY <1>3, <1>5, <1>6 DEF Typed, Opened
<1>8. Pushes(HeapNow, HeapNow', 0, current_node, node)
  <2>1. Pushes(Heap(lexem_list, lists, blocks), Heap(lexem_list', lists', blocks), 0, current_node, node)
    BY <1>3, <1>4, <1>6, <1>7, HeapPushed
  <2> QED BY <1>2, <2>1 DEF HeapNow
<1>9. node.sequence \notin SequencesOf(HeapNow) /\ current_node < node.sequence
  <2>1. Len(lists) + 1 \notin 1 .. Len(lists) /\ current_node < Len(lists) + 1
    BY <1>3
  <2> QED BY <1>4, <2>1 DEF Owned
<1>10. /\ Tree(HeapNow')
       /\ SequencesOf(HeapNow') = SequencesOf(HeapNow) \union ({node.sequence} \ {0})
       /\ BodiesOf(HeapNow') = BodiesOf(HeapNow)
  BY <1>4, <1>8, <1>9, TreePushed DEF Owned
<1>11. OpenBlocks' = OpenBlocks
  BY <1>2 DEF OpenBlocks, Around
<1>12. SequencesOf(HeapNow') = 1 .. Len(lists')
  <2>1. \A n \in Nat : 1 .. n + 1 = 1 .. n \union ({n + 1} \ {0})
    OBVIOUS
  <2>2. 1 .. Len(lists') = 1 .. Len(lists) \union ({Len(lists) + 1} \ {0})
    BY <1>3, <1>5, <2>1, Zenon
  <2> QED BY <1>4, <1>10, <2>2 DEF Owned
<1>13. BodiesOf(HeapNow') = 1 .. Len(blocks') \ OpenBlocks'
  BY <1>2, <1>10, <1>11 DEF Owned
<1> QED BY <1>10, <1>12, <1>13, Zenon DEF Owned, Tree, Single, Later, SequencesOf, BodiesOf, Placed, At

\* What was read of the text makes a tree all of which is owned.
LEMMA AddLexemOwns ==
    ASSUME IInv, Owned, NEW lexem \in Lexems, AddLexem(lexem), status' = "read"
    PROVE  Owned'
<1>1. Sound /\ Shape /\ status = "read" /\ Treat(lexem)
  BY Zenon DEF IInv, Sound, AddLexem
<1>2. CASE OpenBlock
  BY <1>1, <1>2, OpenBlockOwns
<1>3. CASE CloseBlock
  <2>1. statement_stack # <<>>
    BY <1>3 DEF CloseBlock
  <2> QED BY <1>1, <1>3, <2>1, CloseBlockOwns
<1>4. CASE Semicolon
  BY <1>1, <1>4, SemicolonOwns
<1>5. CASE OpenBracket(lexem)
  BY <1>1, <1>5, OpenBracketOwns
<1>6. CASE CloseBracket(lexem)
  <2>1. /\ lexem_list' = lexem_list /\ lists' = lists /\ blocks' = blocks
        /\ current_statement' = current_statement /\ statement_stack' = statement_stack
    BY <1>6 DEF CloseBracket, tree
  <2>2. HeapNow' = HeapNow /\ OpenBlocks' = OpenBlocks
    BY <2>1 DEF HeapNow, OpenBlocks, Around
  <2>3. /\ Tree(HeapNow')
        /\ SequencesOf(HeapNow') = 1 .. Len(lists')
        /\ BodiesOf(HeapNow') = 1 .. Len(blocks') \ OpenBlocks'
    BY <2>1, <2>2 DEF Owned
  <2> QED BY <2>3, Zenon DEF Owned, Tree, Single, Later, SequencesOf, BodiesOf, Placed, At
<1>7. CASE Other(lexem)
  BY <1>1, <1>7, OtherOwns
<1> QED BY <1>1, <1>2, <1>3, <1>4, <1>5, <1>6, <1>7, Zenon DEF Treat

-----------------------------------------------------------------------------
(***************************************************************************)
(* FixThree moves statements within their block.                           *)
(***************************************************************************)
\* The calls of FixThree join a statement to ones before it.
Frames ==
    {c \in [block : 1 .. Len(blocks), src : Nat, prev : Nat, fix : Nat] :
        c.prev < c.src /\ c.fix < c.src}

TreeInv ==
    /\ Typed(lexem_list, lists, blocks)
    /\ Tree(HeapNow)
    /\ status = "read" => Owned /\ calls = <<>>
    /\ status # "read" => BodiesOf(HeapNow) \subseteq 1 .. Len(blocks) /\ calls \in Seq(Frames)

\* What FixThree reads of the call it is in.
InCall ==
    /\ f \in Frames
    /\ f.block \in 1 .. Len(blocks) /\ f.src \in Nat /\ f.prev \in Nat /\ f.fix \in Nat
    /\ f.prev < f.src /\ f.fix < f.src
    /\ Block = blocks[f.block] /\ Block \in Seq(Seq(HeapNodes)) /\ Len(Block) \in Nat
    /\ f.src <= Len(Block) =>
          /\ f.src \in 1 .. Len(Block) /\ Statement = Block[f.src]
          /\ Statement \in Seq(HeapNodes)

LEMMA CallFacts ==
    ASSUME TreeInv, status = "fix", calls # <<>>
    PROVE  InCall /\ calls \in Seq(Frames) /\ Front(calls) \in Seq(Frames)
<1>1. calls \in Seq(Frames) /\ blocks \in Seq(Seq(Seq(HeapNodes)))
  BY DEF TreeInv, Typed
<1>2. f \in Frames /\ Front(calls) \in Seq(Frames)
  <2>1. Last(calls) \in Frames /\ Front(calls) \in Seq(Frames)
    BY <1>1, FrontFacts, Zenon
  <2> QED BY <2>1 DEF f
<1>3. /\ f.block \in 1 .. Len(blocks) /\ f.src \in Nat /\ f.prev \in Nat /\ f.fix \in Nat
      /\ f.prev < f.src /\ f.fix < f.src
  BY <1>2 DEF Frames
<1>4. Block = blocks[f.block] /\ Block \in Seq(Seq(HeapNodes)) /\ Len(Block) \in Nat
  BY <1>1, <1>3 DEF Block
<1>5. f.src <= Len(Block) =>
          /\ f.src \in 1 .. Len(Block) /\ Statement = Block[f.src]
          /\ Statement \in Seq(HeapNodes)
  <2> HAVE f.src <= Len(Block)
  <2>1. f.src \in 1 .. Len(Block)
    BY <1>3, <1>4
  <2> QED BY <1>4, <2>1 DEF Statement
<1> QED BY <1>1, <1>2, <1>3, <1>4, <1>5 DEF InCall

\* The blocks of a statement are blocks of the heap, or missing.
LEMMA BlocksFound ==
    ASSUME TreeInv, status = "fix", InCall, f.src <= Len(Block)
    PROVE  Blocks(Statement) \in Seq(0 .. Len(blocks))
<1>1. /\ f.block \in 1 .. Len(blocks) /\ f.src \in 1 .. Len(Block) /\ Block = blocks[f.block]
      /\ Statement = Block[f.src] /\ Statement \in Seq(HeapNodes) /\ Len(blocks) \in Nat
  BY DEF InCall, TreeInv, Typed
<1> DEFINE N == 0 .. Len(blocks)
           x == [k \in DOMAIN Statement |->
                   IF Statement[k].lexem = "{" THEN <<Statement[k].statements>> ELSE <<>>]
<1>2. PICK T : T = HeapNow
  OBVIOUS
<1>3. T[f.block][f.src] = Statement
  <2>1. Shows(T, lexem_list, lists, blocks)
    BY <1>2, HeapText DEF TreeInv, HeapNow
  <2> QED BY <1>1, <2>1 DEF Shows
<1>4. ASSUME NEW k \in 1 .. Len(Statement)
      PROVE  Statement[k].statements \in N
  <2> DEFINE p == <<f.block, f.src, k>>
  <2>1. p \in Nat \X Nat \X Nat /\ p[1] = f.block /\ p[2] = f.src /\ p[3] = k
    BY <1>1
  <2> HIDE DEF p
  <2>2. p \in Placed(T) /\ At(T, p) = Statement[k]
    BY <1>3, <2>1 DEF Placed, At
  <2>3. Statement[k].statements # 0 => Statement[k].statements \in BodiesOf(T)
    BY <2>2, Zenon DEF BodiesOf
  <2>4. BodiesOf(T) \subseteq 1 .. Len(blocks)
    BY <1>2 DEF TreeInv
  <2> QED BY <1>1, <2>3, <2>4
<1>5. ASSUME NEW k \in 1 .. Len(Statement)
      PROVE  (IF Statement[k].lexem = "{" THEN <<Statement[k].statements>> ELSE <<>>) \in Seq(N)
  <2>1. PICK c \in N : c = Statement[k].statements
    BY <1>4, Zenon
  <2> HIDE DEF N
  <2>2. <<c>> \in Seq(N) /\ <<>> \in Seq(N)
    OBVIOUS
  <2>3. CASE Statement[k].lexem = "{"
    BY <2>1, <2>2, <2>3, Zenon
  <2>4. CASE Statement[k].lexem # "{"
    BY <2>2, <2>4, Zenon
  <2> QED BY <2>3, <2>4
<1>6. x \in Seq(Seq(N))
  <2>1. DOMAIN Statement = 1 .. Len(Statement) /\ Len(Statement) \in Nat
    BY <1>1
  <2>2. x \in [1 .. Len(Statement) -> Seq(N)]
    BY <1>5, <2>1, Zenon
  <2> HIDE DEF x, N
  <2> QED BY <2>1, <2>2
<1> HIDE DEF x, N
<1>7. FlattenSeq(x) \in Seq(N)
  BY <1>6, Flattened
<1> QED BY <1>7, Zenon DEF Blocks, x, N

LEMMA ProceedKeeps ==
    ASSUME TreeInv, status = "fix", calls # <<>>, f.src <= Len(Block),
           NEW local \in Frames, Proceed(local, Statement)
    PROVE  calls' \in Seq(Frames)
<1>1. InCall /\ calls \in Seq(Frames) /\ Front(calls) \in Seq(Frames)
  BY CallFacts
<1>2. CASE Contains(Blocks(Statement), 0)
  BY <1>1, <1>2 DEF Proceed
<1>3. CASE ~Contains(Blocks(Statement), 0)
  <2>1. PICK bs \in Seq(0 .. Len(blocks)) : bs = Blocks(Statement)
    BY <1>1, BlocksFound, Zenon
  <2>2. ASSUME NEW k \in 1 .. Len(bs)
        PROVE  Call(bs[k]) \in Frames
    <3>1. bs[k] \in 0 .. Len(blocks) /\ bs[k] # 0
      BY <1>3, <2>1 DEF Contains
    <3>2. bs[k] \in 1 .. Len(blocks)
      <4>1. Len(blocks) \in Nat
        BY DEF TreeInv, Typed
      <4> QED BY <3>1, <4>1
    <3> QED BY <3>2 DEF Call, Frames
  <2> DEFINE cs == [k \in DOMAIN bs |-> Call(bs[k])]
  <2>3. cs \in Seq(Frames)
    <3>1. DOMAIN bs = 1 .. Len(bs) /\ Len(bs) \in Nat
      OBVIOUS
    <3>2. cs \in [1 .. Len(bs) -> Frames]
      BY <2>2, <3>1, Zenon
    <3> HIDE DEF cs
    <3> QED BY <3>1, <3>2
  <2>4. calls' = Front(calls) \o <<local>> \o Reverse(cs)
    BY <1>3, <2>1, Zenon DEF Proceed
  <2> HIDE DEF cs
  <2>5. Reverse(cs) \in Seq(Frames)
    <3>1. Len(cs) \in Nat /\ \A k \in 1 .. Len(cs) : cs[k] \in Frames
      BY <2>3
    <3>2. \A k \in 1 .. Len(cs) : Len(cs) - k + 1 \in 1 .. Len(cs)
      BY <3>1
    <3>3. \A k \in 1 .. Len(cs) : cs[Len(cs) - k + 1] \in Frames
      BY <3>1, <3>2
    <3>4. Reverse(cs) \in [1 .. Len(cs) -> Frames]
      BY <3>3 DEF Reverse
    <3> QED BY <3>1, <3>4
  <2>6. <<local>> \in Seq(Frames)
    OBVIOUS
  <2>7. \A x, y, z \in Seq(Frames) : x \o y \o z \in Seq(Frames)
    OBVIOUS
  <2> QED BY <1>1, <2>4, <2>5, <2>6, <2>7, Zenon
<1> QED BY <1>2, <1>3

\* A statement is joined to one before it.
LEMMA TreeRejoined ==
    ASSUME TreeInv, status = "fix", calls # <<>>, f.src <= Len(Block),
           NEW d \in Nat, d # 0, d < f.src, NEW i \in 1 .. Len(Statement) + 1,
           lexem_list' = lexem_list, lists' = lists,
           blocks' = [blocks EXCEPT ![f.block] = Joined(Block, d, f.src, i)]
    PROVE  /\ Typed(lexem_list', lists', blocks')
           /\ Tree(HeapNow')
           /\ BodiesOf(HeapNow') \subseteq BodiesOf(HeapNow)
           /\ Len(blocks') = Len(blocks)
<1>1. InCall
  BY CallFacts
<1>2. PICK b \in 1 .. Len(blocks) : b = f.block
  BY <1>1 DEF InCall
<1>3. PICK m \in 1 .. Len(blocks[b]) : m = f.src
  BY <1>1, <1>2 DEF InCall
<1>4. /\ Block = blocks[b] /\ Statement = blocks[b][m]
  BY <1>1, <1>2, <1>3 DEF InCall
<1>5. Typed(lexem_list, lists, blocks) /\ Tree(HeapNow)
  BY DEF TreeInv
<1>6. /\ i \in 1 .. Len(blocks[b][m]) + 1 /\ 1 <= d /\ d < m
      /\ blocks' = [blocks EXCEPT ![b] = Joined(blocks[b], d, m, i)]
  BY <1>2, <1>3, <1>4
<1>7. /\ Typed(lexem_list, lists, blocks')
      /\ Len(blocks') = Len(blocks)
      /\ Joins(Heap(lexem_list, lists, blocks), Heap(lexem_list, lists, blocks'), b, d, m, i)
  BY <1>5, <1>6, HeapJoined
<1>8. Joins(HeapNow, HeapNow', b, d, m, i)
  BY <1>7 DEF HeapNow
<1>9. Tree(HeapNow') /\ BodiesOf(HeapNow') \subseteq BodiesOf(HeapNow)
  BY <1>5, <1>8, TreeJoined
<1> QED BY <1>7, <1>9

\* A whole statement is the end of it from its first lexeme on.
LEMMA WholeEnd ==
    ASSUME NEW S, NEW s \in Seq(S)
    PROVE  SubSeq(s, 1, Len(s)) = s
<1>1. 1 \in 1 .. Len(s) + 1 /\ Len(s) \in Nat
  OBVIOUS
<1>2. /\ SubSeq(s, 1, Len(s)) \in Seq(S)
      /\ Len(SubSeq(s, 1, Len(s))) = Len(s) - 1 + 1
      /\ \A k \in 1 .. Len(s) - 1 + 1 : SubSeq(s, 1, Len(s))[k] = s[k + 1 - 1]
  BY <1>1, EndFacts
<1>3. PICK x \in Seq(S) : x = SubSeq(s, 1, Len(s))
  BY <1>2, Zenon
<1>4. Len(x) = Len(s) /\ \A k \in 1 .. Len(s) : x[k] = s[k]
  BY <1>1, <1>2, <1>3
<1> QED BY <1>3, <1>4

LEMMA JoinOwns ==
    ASSUME TreeInv, status = "fix", calls # <<>>, Join,
           lexem_list' = lexem_list, lists' = lists
    PROVE  TreeInv'
<1>1. InCall /\ calls \in Seq(Frames)
  BY CallFacts
<1>2. f.src <= Len(Block) /\ f.fix # 0 /\ status' = status
  BY DEF Join
<1>3. Statement \in Seq(HeapNodes) /\ 1 \in 1 .. Len(Statement) + 1 /\ Statement = Block[f.src]
  <2>1. Statement \in Seq(HeapNodes) /\ Statement = Block[f.src]
    BY <1>1, <1>2 DEF InCall
  <2> QED BY <2>1
<1>4. SubSeq(Block[f.src], 1, Len(Block[f.src])) = Statement
  BY <1>3, WholeEnd
<1>5. blocks' = [blocks EXCEPT ![f.block] = Joined(Block, f.fix, f.src, 1)]
  BY <1>4, Zenon DEF Join, Joined
<1>6. PICK d \in Nat : d = f.fix /\ d # 0 /\ d < f.src
  BY <1>1, <1>2 DEF InCall
<1>7. /\ Typed(lexem_list', lists', blocks')
      /\ Tree(HeapNow')
      /\ BodiesOf(HeapNow') \subseteq BodiesOf(HeapNow)
      /\ Len(blocks') = Len(blocks)
  BY <1>2, <1>3, <1>5, <1>6, TreeRejoined
<1>8. Frames' = Frames
  BY <1>7 DEF Frames
<1>9. calls' \in Seq(Frames)
  <2>1. PICK c \in Frames : c = f
    BY <1>1 DEF InCall
  <2>2. calls' = [calls EXCEPT ![Len(calls)].fix = 0] /\ f = calls[Len(calls)] /\ Len(calls) \in 1 .. Len(calls)
    <3>1. Len(calls) \in 1 .. Len(calls) /\ Last(calls) = calls[Len(calls)]
      BY <1>1, LastPlace
    <3> QED BY <3>1 DEF Join, f
  <2>3. [c EXCEPT !.fix = 0] \in Frames
    BY DEF Frames
  <2>4. calls' = [calls EXCEPT ![Len(calls)] = [c EXCEPT !.fix = 0]]
    BY <2>1, <2>2
  <2>5. PICK c2 \in Frames : calls' = [calls EXCEPT ![Len(calls)] = c2]
    BY <2>3, <2>4, Zenon
  <2> QED BY <1>1, <2>2, <2>5
<1>10. BodiesOf(HeapNow) \subseteq 1 .. Len(blocks)
  BY DEF TreeInv
<1>11. BodiesOf(HeapNow') \subseteq 1 .. Len(blocks')
  BY <1>7, <1>10
<1> QED BY <1>2, <1>7, <1>8, <1>9, <1>11, Zenon DEF TreeInv, Tree, Single, Later, BodiesOf, Placed, At, Typed

\* Nothing but calls and status changes.
LEMMA CallsOwn ==
    ASSUME TreeInv, status # "read", status' # "read", calls' \in Seq(Frames),
           blocks' = blocks, lexem_list' = lexem_list, lists' = lists
    PROVE  TreeInv'
<1>1. HeapNow' = HeapNow /\ Frames' = Frames
  BY DEF HeapNow, Frames
<1>2. /\ Typed(lexem_list', lists', blocks') /\ Tree(HeapNow')
      /\ BodiesOf(HeapNow') \subseteq 1 .. Len(blocks')
  BY <1>1 DEF TreeInv
<1> QED BY <1>1, <1>2, Zenon DEF TreeInv, Tree, Single, Later, BodiesOf, Placed, At, Typed

LEMMA KeepOwns ==
    ASSUME TreeInv, status = "fix", calls # <<>>, Keep,
           lexem_list' = lexem_list, lists' = lists
    PROVE  TreeInv'
<1>1. InCall
  BY CallFacts
<1> DEFINE local == [f EXCEPT !.src = @ + 1, !.prev = f.src,
                         !.fix = IF Incomplete(Statement) THEN f.src ELSE 0]
<1>2. local \in Frames
  <2>1. PICK c \in Frames : c = f
    BY <1>1 DEF InCall
  <2>2. c.src \in Nat /\ c \in [block : 1 .. Len(blocks), src : Nat, prev : Nat, fix : Nat]
    BY DEF Frames
  <2>3. \A x \in {c.src, 0} : [c EXCEPT !.src = @ + 1, !.prev = c.src, !.fix = x] \in Frames
    <3> TAKE x \in {c.src, 0}
    <3>1. x \in Nat /\ x < c.src + 1 /\ c.src + 1 \in Nat /\ c.src < c.src + 1
      BY <2>2
    <3> QED BY <2>2, <3>1 DEF Frames
  <2>4. (IF Incomplete(Statement) THEN c.src ELSE 0) \in {c.src, 0}
    OBVIOUS
  <2> QED BY <2>1, <2>3, <2>4, Zenon
<1>3. f.src <= Len(Block) /\ Proceed(local, Statement) /\ blocks' = blocks
  BY DEF Keep
<1> HIDE DEF local
<1>4. calls' \in Seq(Frames)
  BY <1>2, <1>3, ProceedKeeps
<1>5. status' # "read"
  BY <1>3 DEF Proceed
<1> QED BY <1>3, <1>4, <1>5, CallsOwn

LEMMA ElsePlace ==
    ASSUME NEW S, NEW s \in Seq(S), FirstElse(s) # 0
    PROVE  FirstElse(s) \in 1 .. Len(s)
<1> DEFINE places == {k \in DOMAIN s : s[k].lexem = "else"}
<1>1. places # {} /\ FirstElse(s) = CHOOSE k \in places : \A m \in places : k <= m
  BY Zenon DEF FirstElse
<1>2. DOMAIN s = 1 .. Len(s) /\ places \subseteq 1 .. Len(s) /\ places \subseteq Nat
  OBVIOUS
<1> HIDE DEF places
<1>3. \E k \in places : \A m \in places : k <= m
  BY <1>1, <1>2, Least
<1> QED BY <1>1, <1>2, <1>3

LEMMA MoveElseOwns ==
    ASSUME TreeInv, status = "fix", calls # <<>>, MoveElse,
           lexem_list' = lexem_list, lists' = lists
    PROVE  TreeInv'
<1>1. InCall /\ calls \in Seq(Frames)
  BY CallFacts
<1>2. PICK k : k = FirstElse(Statement)
  OBVIOUS
<1>3. /\ f.src <= Len(Block) /\ k # 0
      /\ IF f.prev = 0 \/ Incomplete(SubSeq(Statement, 1, k - 1))
         THEN status' = "undefined" /\ UNCHANGED <<blocks, calls>>
         ELSE /\ blocks' = [blocks EXCEPT ![f.block] =
                   RemoveAt([Block EXCEPT ![f.prev] = @ \o SubSeq(Statement, k, Len(Statement))], f.src)]
              /\ Proceed(f, Statement)
  BY <1>2, Zenon DEF MoveElse
<1>4. CASE f.prev = 0 \/ Incomplete(SubSeq(Statement, 1, k - 1))
  <2>1. status' = "undefined" /\ blocks' = blocks /\ calls' = calls
    BY <1>3, <1>4
  <2> QED BY <1>1, <2>1, CallsOwn
<1>5. CASE ~(f.prev = 0 \/ Incomplete(SubSeq(Statement, 1, k - 1)))
  <2>1. Statement \in Seq(HeapNodes) /\ Statement = Block[f.src]
    BY <1>1, <1>3 DEF InCall
  <2>2. k \in 1 .. Len(Statement) + 1
    <3>1. k \in 1 .. Len(Statement) /\ Len(Statement) \in Nat
      BY <1>2, <1>3, <2>1, ElsePlace
    <3> QED BY <3>1
  <2>3. blocks' = [blocks EXCEPT ![f.block] = Joined(Block, f.prev, f.src, k)]
    BY <1>3, <1>5, <2>1, Zenon DEF Joined
  <2>4. PICK d \in Nat : d = f.prev /\ d # 0 /\ d < f.src
    BY <1>1, <1>5 DEF InCall
  <2>5. /\ Typed(lexem_list', lists', blocks')
        /\ Tree(HeapNow')
        /\ BodiesOf(HeapNow') \subseteq BodiesOf(HeapNow)
        /\ Len(blocks') = Len(blocks)
    BY <1>3, <2>2, <2>3, <2>4, TreeRejoined
  <2>6. Frames' = Frames
    BY <2>5 DEF Frames
  <2>7. f \in Frames /\ Proceed(f, Statement)
    BY <1>1, <1>3, <1>5 DEF InCall
  <2>8. calls' \in Seq(Frames)
    BY <1>3, <2>7, ProceedKeeps
  <2>9. status' # "read"
    BY <2>7 DEF Proceed
  <2>10. BodiesOf(HeapNow) \subseteq 1 .. Len(blocks)
    BY DEF TreeInv
  <2>11. BodiesOf(HeapNow') \subseteq 1 .. Len(blocks')
    BY <2>5, <2>10
  <2> QED BY <2>5, <2>6, <2>8, <2>9, <2>11, Zenon DEF TreeInv, Tree, Single, Later, BodiesOf, Placed, At, Typed
<1> QED BY <1>4, <1>5

LEMMA FixThreeOwns ==
    ASSUME TreeInv, FixThree
    PROVE  TreeInv'
<1>1. status = "fix" /\ calls # <<>> /\ lexem_list' = lexem_list /\ lists' = lists
  BY DEF FixThree
<1>2. CASE Returned
  <2>1. calls' \in Seq(Frames)
    BY <1>1, <1>2, CallFacts DEF Returned
  <2>2. blocks' = blocks /\ status' # "read"
    BY <1>1, <1>2 DEF Returned
  <2> QED BY <1>1, <2>1, <2>2, CallsOwn
<1>3. CASE Join
  BY <1>1, <1>3, JoinOwns
<1>4. CASE Keep
  BY <1>1, <1>4, KeepOwns
<1>5. CASE MoveElse
  BY <1>1, <1>5, MoveElseOwns
<1> QED BY <1>2, <1>3, <1>4, <1>5, Zenon DEF FixThree

LEMMA CodeThreeOwns ==
    ASSUME IInv, TreeInv, CodeThree
    PROVE  TreeInv'
<1>1. /\ status = "read" /\ status' = "fix" /\ calls' = <<Call(1)>>
      /\ lexem_list' = lexem_list /\ lists' = lists /\ blocks' = blocks
  BY DEF CodeThree, tree
<1>2. Shape /\ Owned
  BY <1>1 DEF IInv, TreeInv
<1>3. 1 \in 1 .. Len(blocks)
  <2>1. current_statement \in 1 .. Len(blocks) /\ Len(blocks) \in Nat
    BY <1>2 DEF Shape
  <2> QED BY <2>1
<1>4. Call(1) \in Frames
  BY <1>3 DEF Call, Frames
<1>5. HeapNow' = HeapNow /\ Frames' = Frames
  BY <1>1 DEF HeapNow, Frames
<1>6. calls' \in Seq(Frames)
  <2>1. \A c \in Frames : <<c>> \in Seq(Frames)
    OBVIOUS
  <2> QED BY <1>1, <1>4, <2>1, Zenon
<1>7. BodiesOf(HeapNow) \subseteq 1 .. Len(blocks)
  BY <1>2 DEF Owned
<1>8. /\ Typed(lexem_list', lists', blocks') /\ Tree(HeapNow')
      /\ BodiesOf(HeapNow') \subseteq 1 .. Len(blocks')
  BY <1>1, <1>5, <1>7 DEF TreeInv
<1>9. status' # "read"
  BY <1>1
<1> QED BY <1>5, <1>6, <1>8, <1>9, Zenon DEF TreeInv, Tree, Single, Later, BodiesOf, Placed, At, Typed

\* A "}" too many: the statement being read is gone.
LEMMA UndefinedOwns ==
    ASSUME IInv, TreeInv, NEW lexem, AddLexem(lexem), status' # "read"
    PROVE  TreeInv'
<1>1. status = "read" /\ Treat(lexem) /\ calls' = calls
  BY DEF AddLexem
<1>2. lexem_list' = <<>> /\ lists' = lists /\ blocks' = blocks
  <2>1. CASE CloseBlock
    <3>1. statement_stack = <<>>
      BY <1>1, <2>1 DEF CloseBlock
    <3> QED BY <2>1, <3>1 DEF CloseBlock
  <2>2. CASE OpenBlock \/ Semicolon \/ OpenBracket(lexem) \/ CloseBracket(lexem) \/ Other(lexem)
    <3>1. status' = status
      BY <2>2, Zenon DEF OpenBlock, Semicolon, OpenBracket, CloseBracket, Other
    <3> QED BY <1>1, <3>1
  <2> QED BY <1>1, <2>1, <2>2, Zenon DEF Treat
<1>3. Owned /\ calls = <<>> /\ Typed(lexem_list, lists, blocks)
  BY <1>1 DEF TreeInv
<1>4. Typed(lexem_list', lists', blocks')
  BY <1>2, <1>3 DEF Typed
<1>5. PICK T : T = HeapNow
  OBVIOUS
<1>6. PICK U : U = Heap(<<>>, lists, blocks)
  OBVIOUS
<1>7. U[0][0] = <<>>
  BY <1>6 DEF Heap
<1>8. ASSUME NEW b \in Nat, NEW s \in Nat, b # 0 \/ s # 0
      PROVE  U[b][s] = T[b][s]
  BY <1>5, <1>6, <1>8 DEF Heap, HeapNow
<1> DEFINE g == [p \in Placed(U) |-> p]
<1>9. ASSUME NEW p \in Placed(U)
      PROVE  p \in Placed(T) /\ At(U, p) = At(T, p)
  <2>1. p \in Nat \X Nat \X Nat /\ p[3] \in 1 .. Len(U[p[1]][p[2]]) /\ p[1] \in Nat /\ p[2] \in Nat
    BY DEF Placed
  <2>2. p[1] # 0 \/ p[2] # 0
    BY <1>7, <2>1
  <2>3. U[p[1]][p[2]] = T[p[1]][p[2]]
    BY <1>8, <2>1, <2>2
  <2> QED BY <2>1, <2>3 DEF Placed, At
<1>10. \A p \in Placed(U) : g[p] = p
  OBVIOUS
<1> HIDE DEF g
<1>11. Carries(T, U, g)
  BY <1>9, <1>10, Zenon DEF Carries
<1>12. Tree(U) /\ BodiesOf(U) \subseteq BodiesOf(T)
  BY <1>3, <1>5, <1>11, TreeCarried DEF Owned
<1>13. HeapNow' = U
  BY <1>2, <1>6 DEF HeapNow
<1>14. BodiesOf(HeapNow') \subseteq 1 .. Len(blocks')
  BY <1>2, <1>3, <1>5, <1>12, <1>13 DEF Owned
<1>15. calls' \in Seq(Frames')
  BY <1>1, <1>3
<1>16. Tree(HeapNow')
  BY <1>12, <1>13
<1> QED BY <1>4, <1>14, <1>15, <1>16, Zenon DEF TreeInv, Tree, Single, Later, BodiesOf, Placed, At, Typed

LEMMA InitTree == Init => TreeInv
<1> SUFFICES ASSUME Init PROVE TreeInv
  OBVIOUS
<1>1. /\ lexem_list = <<>> /\ lists = <<>> /\ blocks = << <<>> >>
      /\ current_statement = 1 /\ statement_stack = <<>> /\ calls = <<>> /\ status = "read"
  BY DEF Init
<1>2. Typed(lexem_list, lists, blocks)
  <2>1. Shape
    BY <1>1, InitInv DEF IInv
  <2> QED BY <2>1 DEF Shape, Typed
<1>3. Len(lists) = 0 /\ Len(blocks) = 1 /\ Len(statement_stack) = 0
  BY <1>1
<1>4. PICK T : T = HeapNow
  OBVIOUS
<1>5. ASSUME NEW b \in Nat, NEW s \in Nat
      PROVE  T[b][s] = <<>>
  <2>1. CASE b = 0
    BY <1>1, <1>3, <1>4, <2>1 DEF Heap, HeapNow
  <2>2. CASE b # 0
    <3>1. b \in 1 .. Len(blocks) => blocks[b] = <<>>
      BY <1>1, <1>3
    <3>2. b \in 1 .. Len(blocks) => Len(blocks[b]) = 0
      BY <3>1
    <3> QED BY <1>4, <2>2, <3>2 DEF Heap, HeapNow
  <2> QED BY <2>1, <2>2
<1>6. Placed(T) = {}
  <2> SUFFICES ASSUME NEW p \in Placed(T) PROVE FALSE
    OBVIOUS
  <2>1. p[1] \in Nat /\ p[2] \in Nat /\ p[3] \in 1 .. Len(T[p[1]][p[2]])
    BY DEF Placed
  <2>2. T[p[1]][p[2]] = <<>>
    BY <1>5, <2>1
  <2> QED BY <2>1, <2>2
<1>7. Tree(T) /\ SequencesOf(T) = {} /\ BodiesOf(T) = {}
  BY <1>6 DEF Tree, Single, Later, SequencesOf, BodiesOf
<1>8. OpenBlocks = {1}
  BY <1>1, <1>3 DEF OpenBlocks, Around
<1>9. Owned
  BY <1>3, <1>4, <1>7, <1>8 DEF Owned
<1> QED BY <1>1, <1>2, <1>4, <1>7, <1>9 DEF TreeInv

LEMMA NextTree == IInv /\ TreeInv /\ [Next]_vars => TreeInv'
<1> SUFFICES ASSUME IInv, TreeInv, [Next]_vars PROVE TreeInv'
  OBVIOUS
<1>1. ASSUME NEW lexem \in Alphabet \union {program[k] : k \in DOMAIN program}, AddLexem(lexem)
      PROVE  TreeInv'
  <2>1. lexem \in Lexems
    BY LexemRead DEF IInv
  <2>2. status = "read" /\ calls' = calls
    BY <1>1 DEF AddLexem
  <2>3. CASE status' = "read"
    <3>1. Owned'
      BY <1>1, <2>1, <2>2, <2>3, AddLexemOwns DEF TreeInv
    <3>2. Sound'
      BY <1>1, <2>1, <2>3, AddLexemKeeps
    <3>3. Typed(lexem_list', lists', blocks')
      BY <3>2 DEF Sound, Shape, Typed
    <3>4. calls' = <<>>
      BY <2>2 DEF TreeInv
    <3> QED BY <2>3, <3>1, <3>3, <3>4, Zenon DEF TreeInv, Owned, Typed
  <2>4. CASE status' # "read"
    BY <1>1, <2>4, UndefinedOwns
  <2> QED BY <2>3, <2>4
<1>2. CASE CodeThree
  BY <1>2, CodeThreeOwns
<1>3. CASE FixThree
  BY <1>3, FixThreeOwns
<1>4. CASE UNCHANGED vars
  <2>1. /\ lexem_list' = lexem_list /\ lists' = lists /\ blocks' = blocks
        /\ current_statement' = current_statement /\ statement_stack' = statement_stack
        /\ status' = status /\ calls' = calls
    BY <1>4 DEF vars, tree, nesting
  <2>2. HeapNow' = HeapNow /\ Frames' = Frames /\ OpenBlocks' = OpenBlocks
    BY <2>1 DEF HeapNow, Frames, OpenBlocks, Around
  <2>3. Owned => /\ Tree(HeapNow') /\ SequencesOf(HeapNow') = 1 .. Len(lists')
                 /\ BodiesOf(HeapNow') = 1 .. Len(blocks') \ OpenBlocks'
    BY <2>1, <2>2 DEF Owned
  <2>4. Owned => Owned'
    BY <2>3, Zenon DEF Owned, Tree, Single, Later, SequencesOf, BodiesOf, Placed, At
  <2>5. /\ Typed(lexem_list', lists', blocks') /\ Tree(HeapNow')
        /\ status' = "read" => Owned' /\ calls' = <<>>
        /\ status' # "read" => BodiesOf(HeapNow') \subseteq 1 .. Len(blocks') /\ calls' \in Seq(Frames')
    BY <2>1, <2>2, <2>4 DEF TreeInv
  <2> QED BY <2>5, Zenon DEF TreeInv, Tree, Single, Later, BodiesOf, Placed, At, Typed
<1> QED BY <1>1, <1>2, <1>3, <1>4 DEF Next

-----------------------------------------------------------------------------
(***************************************************************************)
(* A "{" of a statement has its block unless that is open, so that FixThree *)
(* meets a null pointer in a text alone whose blocks do not close.         *)
(***************************************************************************)
Bare(node) == node.lexem = "{" /\ node.statements = 0

Whole(s) == \A k \in 1 .. Len(s) : ~Bare(s[k])
AllWhole(block) == \A s \in 1 .. Len(block) : Whole(block[s])

\* Only the last lexeme of the last statement may wait for its block.
Almost(s) == \A k \in 1 .. Len(s) - 1 : ~Bare(s[k])
AlmostWhole(block) ==
    (\A s \in 1 .. Len(block) - 1 : Whole(block[s])) /\ Almost(block[Len(block)])

Given ==
    /\ read \in Seq(Lexems)
    /\ \A b \in 1 .. Len(blocks) : b \notin Around => AllWhole(blocks[b])
    /\ status = "read" =>
          /\ Ascending(stack, current_node)
          /\ Whole(lexem_list)
          /\ \A k \in 1 .. Len(statement_stack) : AlmostWhole(blocks[statement_stack[k]])
    /\ UndefinedExplained

\* Only a "{" without a block is bare.
LEMMA NotBare ==
    /\ \A lexem : lexem # "{" => ~Bare(Leaf(lexem))
    /\ \A n : \A lexem \in Opening : ~Bare(Node(lexem, n, 0))
    /\ ~Bare(Leaf(";"))
    /\ \A n \in HeapNodes : \A c : c # 0 => ~Bare([n EXCEPT !.statements = c])
<1>1. \A lexem : lexem # "{" => ~Bare(Leaf(lexem))
  BY DEF Bare, Leaf, Node
<1>2. \A lexem \in Opening : lexem # "{"
  BY DEF Opening
<1>3. \A n : \A lexem \in Opening : ~Bare(Node(lexem, n, 0))
  BY <1>2 DEF Bare, Node
<1>4. ~Bare(Leaf(";"))
  BY <1>1
<1>5. ASSUME NEW n \in HeapNodes, NEW c, c # 0
      PROVE  ~Bare([n EXCEPT !.statements = c])
  <2>1. [n EXCEPT !.statements = c].statements = c
    BY DEF HeapNodes
  <2> QED BY <1>5, <2>1 DEF Bare
<1> QED BY <1>1, <1>3, <1>4, <1>5

LEMMA WholeAppend ==
    ASSUME NEW s \in Seq(HeapNodes), Whole(s), NEW node \in HeapNodes
    PROVE  /\ ~Bare(node) => Whole(Append(s, node))
           /\ Almost(Append(s, node))
<1>1. /\ Len(Append(s, node)) = Len(s) + 1 /\ Len(s) \in Nat
      /\ Append(s, node)[Len(s) + 1] = node
      /\ \A k \in 1 .. Len(s) : Append(s, node)[k] = s[k]
  OBVIOUS
<1>2. \A k \in 1 .. Len(s) : ~Bare(Append(s, node)[k])
  BY <1>1 DEF Whole
<1>3. Almost(Append(s, node))
  BY <1>1, <1>2 DEF Almost
<1>4. ASSUME ~Bare(node) PROVE Whole(Append(s, node))
  <2>1. ASSUME NEW k \in 1 .. Len(s) + 1 PROVE ~Bare(Append(s, node)[k])
    <3>1. k \in 1 .. Len(s) \/ k = Len(s) + 1
      BY <1>1
    <3> QED BY <1>1, <1>2, <1>4, <3>1
  <2> QED BY <1>1, <2>1 DEF Whole
<1> QED BY <1>3, <1>4

\* A statement is added to a block.
LEMMA BlockAppend ==
    ASSUME NEW block \in Seq(Seq(HeapNodes)), AllWhole(block), NEW s \in Seq(HeapNodes)
    PROVE  /\ Whole(s) => AllWhole(Append(block, s))
           /\ Almost(s) => AlmostWhole(Append(block, s))
<1>1. /\ Len(Append(block, s)) = Len(block) + 1 /\ Len(block) \in Nat
      /\ Append(block, s)[Len(block) + 1] = s
      /\ \A k \in 1 .. Len(block) : Append(block, s)[k] = block[k]
  BY AppendFacts
<1>2. \A k \in 1 .. Len(block) : Whole(Append(block, s)[k])
  BY <1>1 DEF AllWhole
<1>3. Almost(s) => AlmostWhole(Append(block, s))
  BY <1>1, <1>2 DEF AlmostWhole
<1>4. ASSUME Whole(s) PROVE AllWhole(Append(block, s))
  <2>1. ASSUME NEW k \in 1 .. Len(block) + 1 PROVE Whole(Append(block, s)[k])
    <3>1. k \in 1 .. Len(block) \/ k = Len(block) + 1
      BY <1>1
    <3> QED BY <1>1, <1>2, <1>4, <3>1
  <2> QED BY <1>1, <2>1 DEF AllWhole
<1> QED BY <1>3, <1>4

\* The block that was waited for is given.
LEMMA GivenAttached ==
    ASSUME NEW heap \in Seq(Seq(Seq(HeapNodes))), NEW b \in 1 .. Len(heap),
           Waiting(heap[b]), AlmostWhole(heap[b]), NEW c \in Nat, c # 0
    PROVE  AllWhole(Attach(heap, b, c)[b])
<1> DEFINE block == heap[b]
           m == Len(block)
           s == block[m]
           l == Len(s)
           n2 == [s[l] EXCEPT !.statements = c]
           s2 == [s EXCEPT ![l] = n2]
           block2 == [block EXCEPT ![m] = s2]
<1>1. block \in Seq(Seq(HeapNodes)) /\ block # <<>>
  <2>1. block # <<>>
    BY Zenon DEF Waiting
  <2> QED BY <2>1
<1>2. m \in 1 .. m /\ m \in Nat /\ s \in Seq(HeapNodes) /\ Last(block) = s
  BY <1>1, LastPlace
<1>3. s # <<>>
  BY <1>2 DEF Waiting
<1>4. l \in 1 .. l /\ l \in Nat /\ s[l] \in HeapNodes
  BY <1>2, <1>3, LastPlace
<1>5. n2 \in HeapNodes /\ ~Bare(n2)
  BY <1>4, NotBare DEF HeapNodes
<1>6. Attach(heap, b, c)[b] = block2
  <2>1. Attach(heap, b, c) = [heap EXCEPT ![b] = block2]
    BY DEF Attach
  <2> HIDE DEF block2
  <2> QED BY <2>1
<1>7. /\ \A k \in 1 .. m - 1 : Whole(block[k])
      /\ \A k \in 1 .. l - 1 : ~Bare(s[k])
  BY DEF AlmostWhole, Almost
<1> HIDE DEF n2
<1>8. /\ s2 \in Seq(HeapNodes) /\ Len(s2) = l /\ s2[l] = n2
      /\ \A k \in 1 .. l - 1 : s2[k] = s[k]
  BY <1>2, <1>4, <1>5
<1>9. Whole(s2)
  <2>1. ASSUME NEW k \in 1 .. l PROVE ~Bare(s2[k])
    <3>1. k \in 1 .. l - 1 \/ k = l
      BY <1>4
    <3> QED BY <1>5, <1>7, <1>8, <3>1
  <2> QED BY <1>8, <2>1 DEF Whole
<1> HIDE DEF s2
<1>10. /\ Len(block2) = m /\ block2[m] = s2
       /\ \A k \in 1 .. m - 1 : block2[k] = block[k]
  BY <1>1, <1>2, <1>8
<1>11. ASSUME NEW k \in 1 .. m PROVE Whole(block2[k])
  <2>1. k \in 1 .. m - 1 \/ k = m
    BY <1>2
  <2> QED BY <1>7, <1>9, <1>10, <2>1
<1> QED BY <1>6, <1>10, <1>11 DEF AllWhole

\* What is joined in a block is whole if the block was.
LEMMA JoinedWhole ==
    ASSUME NEW block \in Seq(Seq(HeapNodes)), AllWhole(block), NEW d \in Nat,
           NEW m \in 1 .. Len(block), 1 <= d, d < m, NEW i \in 1 .. Len(block[m]) + 1
    PROVE  AllWhole(Joined(block, d, m, i))
<1>1. PICK r : r = Joined(block, d, m, i)
  OBVIOUS
<1>2. /\ r \in Seq(Seq(HeapNodes)) /\ JoinsWell(block, d, m, i, r)
  BY <1>1, JoinedFacts
<1>3. PICK l, h : l = Len(block[d]) /\ h = Len(block[m])
  OBVIOUS
<1>4. /\ Len(r) = Len(block) - 1
      /\ Len(r[d]) = l + h - i + 1
      /\ \A k \in 1 .. l : r[d][k] = block[d][k]
      /\ \A k \in l + 1 .. l + h - i + 1 : r[d][k] = block[m][k - l + i - 1]
      /\ \A s \in 1 .. m - 1 : s # d => r[s] = block[s]
      /\ \A s \in m .. Len(block) - 1 : r[s] = block[s + 1]
  BY <1>2, <1>3, Zenon DEF JoinsWell
<1>5. d \in 1 .. Len(block) /\ Len(block) \in Nat /\ m \in Nat
  OBVIOUS
<1>6. l \in Nat /\ h \in Nat /\ i \in Nat /\ 1 <= i /\ i <= h + 1
  <2>1. block[d] \in Seq(HeapNodes) /\ block[m] \in Seq(HeapNodes)
    BY <1>5
  <2> QED BY <1>3, <2>1
<1>7. /\ \A k \in 1 .. l : ~Bare(block[d][k])
      /\ \A k \in 1 .. h : ~Bare(block[m][k])
  BY <1>3, <1>5 DEF AllWhole, Whole
<1>8. Whole(r[d])
  <2>1. ASSUME NEW k \in 1 .. l + h - i + 1 PROVE ~Bare(r[d][k])
    <3>1. k \in 1 .. l \/ (k \in l + 1 .. l + h - i + 1 /\ k - l + i - 1 \in 1 .. h)
      BY <1>6
    <3> QED BY <1>4, <1>7, <3>1
  <2> QED BY <1>4, <2>1 DEF Whole
<1>9. ASSUME NEW s \in 1 .. Len(block) - 1 PROVE Whole(r[s])
  <2>1. CASE s = d
    BY <1>8, <2>1
  <2>2. CASE s # d /\ s < m
    <3>1. s \in 1 .. m - 1 /\ s \in 1 .. Len(block)
      BY <1>5, <2>2
    <3>2. r[s] = block[s]
      BY <1>4, <2>2, <3>1
    <3> QED BY <3>1, <3>2 DEF AllWhole
  <2>3. CASE m <= s
    <3>1. s \in m .. Len(block) - 1 /\ s + 1 \in 1 .. Len(block)
      BY <1>5, <2>3
    <3>2. r[s] = block[s + 1]
      BY <1>4, <3>1
    <3> QED BY <3>1, <3>2 DEF AllWhole
  <2> QED BY <1>5, <2>1, <2>2, <2>3
<1> QED BY <1>1, <1>4, <1>9 DEF AllWhole

LEMMA SemicolonGives ==
    ASSUME Sound, Given, status = "read", Semicolon
    PROVE  /\ \A b \in 1 .. Len(blocks') : b \notin Around' => AllWhole(blocks'[b])
           /\ Whole(lexem_list')
           /\ \A k \in 1 .. Len(statement_stack') : AlmostWhole(blocks'[statement_stack'[k]])
<1>1. PICK cs : cs = current_statement
  OBVIOUS
<1>2. PICK line : line = Append(lexem_list, Leaf(";"))
  OBVIOUS
<1>3. /\ Shape /\ lexem_list \in Seq(HeapNodes) /\ cs \in 1 .. Len(blocks)
      /\ blocks \in Seq(Seq(Seq(HeapNodes))) /\ statement_stack \in Seq(Nat)
      /\ Ascending(statement_stack, cs)
  BY <1>1, Zenon DEF Sound, Shape, BlocksInv, BlockOrder
<1>4. line \in Seq(HeapNodes) /\ Whole(line)
  <2>1. PICK node : node = Leaf(";")
    OBVIOUS
  <2>2. node \in HeapNodes /\ ~Bare(node) /\ line = Append(lexem_list, node)
    BY <1>2, <2>1, LeafTyped, NotBare, Zenon
  <2>3. Whole(lexem_list)
    BY DEF Given
  <2>4. line \in Seq(HeapNodes)
    BY <1>3, <2>2
  <2> QED BY <1>3, <2>2, <2>3, <2>4, WholeAppend
<1>5. /\ blocks' = Ended(line) /\ lexem_list' = <<>> /\ statement_stack' = statement_stack
  BY <1>2 DEF Semicolon, nesting
<1>6. /\ Len(blocks') = Len(blocks) /\ blocks'[cs] = Append(blocks[cs], line)
      /\ \A b \in 1 .. Len(blocks) : b # cs => blocks'[b] = blocks[b]
  BY <1>1, <1>3, <1>4, <1>5, EndedFacts
<1>7. Around' = Around
  BY <1>5 DEF Around
<1>8. ASSUME NEW k \in 1 .. Len(statement_stack)
      PROVE  statement_stack[k] \in 1 .. Len(blocks) /\ statement_stack[k] # cs
  <2>1. statement_stack[k] < cs /\ statement_stack[k] \in 1 .. Len(blocks)
    BY <1>3 DEF Ascending, Sound, BlocksInv, BlockOrder
  <2> QED BY <1>3, <2>1
<1>9. cs \notin Around
  BY <1>8 DEF Around
<1>10. AllWhole(blocks'[cs])
  <2>1. AllWhole(blocks[cs]) /\ blocks[cs] \in Seq(Seq(HeapNodes))
    BY <1>3, <1>9 DEF Given
  <2> QED BY <1>4, <1>6, <2>1, BlockAppend
<1>11. \A b \in 1 .. Len(blocks') : b \notin Around' => AllWhole(blocks'[b])
  BY <1>6, <1>7, <1>10 DEF Given
<1>12. Whole(lexem_list')
  BY <1>5 DEF Whole
<1> QED BY <1>5, <1>6, <1>8, <1>11, <1>12 DEF Given

LEMMA OpenBlockGives ==
    ASSUME Sound, Given, status = "read", OpenBlock
    PROVE  /\ \A b \in 1 .. Len(blocks') : b \notin Around' => AllWhole(blocks'[b])
           /\ Whole(lexem_list')
           /\ \A k \in 1 .. Len(statement_stack') : AlmostWhole(blocks'[statement_stack'[k]])
<1>1. PICK cs : cs = current_statement
  OBVIOUS
<1>2. PICK line : line = Append(lexem_list, Leaf("{"))
  OBVIOUS
<1>3. /\ Shape /\ lexem_list \in Seq(HeapNodes) /\ cs \in 1 .. Len(blocks)
      /\ blocks \in Seq(Seq(Seq(HeapNodes))) /\ statement_stack \in Seq(Nat)
      /\ Ascending(statement_stack, cs)
  BY <1>1, Zenon DEF Sound, Shape, BlocksInv, BlockOrder
<1>4. line \in Seq(HeapNodes) /\ Almost(line)
  <2>1. PICK node : node = Leaf("{")
    OBVIOUS
  <2>2. node \in HeapNodes /\ line = Append(lexem_list, node)
    BY <1>2, <2>1, LeafTyped, Zenon
  <2>3. Whole(lexem_list)
    BY DEF Given
  <2>4. line \in Seq(HeapNodes)
    BY <1>3, <2>2
  <2> QED BY <1>3, <2>2, <2>3, <2>4, WholeAppend
<1>5. /\ blocks' = Append(Ended(line), <<>>) /\ lexem_list' = <<>>
      /\ statement_stack' = Append(statement_stack, cs)
  BY <1>1, <1>2 DEF OpenBlock
<1>6. /\ Ended(line) \in Seq(Seq(Seq(HeapNodes))) /\ Len(Ended(line)) = Len(blocks)
      /\ Ended(line)[cs] = Append(blocks[cs], line)
      /\ \A b \in 1 .. Len(blocks) : b # cs => Ended(line)[b] = blocks[b]
  BY <1>1, <1>3, <1>4, EndedFacts
<1>7. /\ Len(blocks') = Len(blocks) + 1 /\ blocks'[Len(blocks) + 1] = <<>>
      /\ blocks'[cs] = Append(blocks[cs], line)
      /\ \A b \in 1 .. Len(blocks) : b # cs => blocks'[b] = blocks[b]
  <2>1. PICK e : e = Ended(line)
    OBVIOUS
  <2>2. PICK empty \in Seq(Seq(HeapNodes)) : empty = <<>>
    <3>1. <<>> \in Seq(Seq(HeapNodes))
      OBVIOUS
    <3> QED BY <3>1, Zenon
  <2>3. blocks' = Append(e, empty) /\ e \in Seq(Seq(Seq(HeapNodes))) /\ Len(e) = Len(blocks)
    BY <1>5, <1>6, <2>1, <2>2
  <2>4. /\ Len(blocks') = Len(blocks) + 1 /\ blocks'[Len(blocks) + 1] = empty
        /\ \A b \in 1 .. Len(blocks) : blocks'[b] = e[b]
    BY <2>3, AppendFacts
  <2> QED BY <1>3, <1>6, <2>1, <2>2, <2>4
<1>8. /\ Len(statement_stack') = Len(statement_stack) + 1
      /\ statement_stack'[Len(statement_stack) + 1] = cs
      /\ \A k \in 1 .. Len(statement_stack) : statement_stack'[k] = statement_stack[k]
      /\ Len(statement_stack) \in Nat
  <2>1. cs \in Nat
    BY <1>3
  <2> QED BY <1>3, <1>5, <2>1
<1>9. Around' = Around \union {cs}
  BY <1>8 DEF Around
<1>10. ASSUME NEW k \in 1 .. Len(statement_stack)
       PROVE  statement_stack[k] \in 1 .. Len(blocks) /\ statement_stack[k] # cs
  <2>1. statement_stack[k] < cs /\ statement_stack[k] \in 1 .. Len(blocks)
    BY <1>3 DEF Ascending, Sound, BlocksInv, BlockOrder
  <2> QED BY <1>3, <2>1
<1>11. AllWhole(blocks[cs]) /\ blocks[cs] \in Seq(Seq(HeapNodes))
  <2>1. cs \notin Around
    BY <1>10 DEF Around
  <2> QED BY <1>3, <2>1 DEF Given
<1>12. AlmostWhole(blocks'[cs])
  BY <1>4, <1>7, <1>11, BlockAppend
<1>13. ASSUME NEW k \in 1 .. Len(statement_stack')
       PROVE  AlmostWhole(blocks'[statement_stack'[k]])
  <2>1. k \in 1 .. Len(statement_stack) \/ k = Len(statement_stack) + 1
    BY <1>8
  <2>2. CASE k \in 1 .. Len(statement_stack)
    <3>1. blocks'[statement_stack'[k]] = blocks[statement_stack[k]]
      BY <1>7, <1>8, <1>10, <2>2
    <3> QED BY <2>2, <3>1 DEF Given
  <2> QED BY <1>8, <1>12, <2>1, <2>2
<1>14. AllWhole(blocks'[Len(blocks) + 1])
  BY <1>7 DEF AllWhole
<1>15. ASSUME NEW b \in 1 .. Len(blocks'), b \notin Around'
       PROVE  AllWhole(blocks'[b])
  <2>1. b \in 1 .. Len(blocks) \/ b = Len(blocks) + 1
    <3>1. Len(blocks) \in Nat
      BY <1>3
    <3> QED BY <1>7, <3>1
  <2>2. b # cs /\ b \notin Around
    BY <1>9, <1>15
  <2> QED BY <1>7, <1>14, <2>1, <2>2 DEF Given
<1>16. Whole(lexem_list')
  BY <1>5 DEF Whole
<1> QED BY <1>13, <1>15, <1>16

LEMMA CloseBlockGives ==
    ASSUME Sound, Given, status = "read", CloseBlock, status' = "read"
    PROVE  /\ \A b \in 1 .. Len(blocks') : b \notin Around' => AllWhole(blocks'[b])
           /\ Whole(lexem_list')
           /\ \A k \in 1 .. Len(statement_stack') : AlmostWhole(blocks'[statement_stack'[k]])
<1>1. PICK cs : cs = current_statement
  OBVIOUS
<1>2. PICK outer : outer = Last(statement_stack)
  OBVIOUS
<1>3. PICK all : all = IF lexem_list = <<>> THEN blocks ELSE Ended(lexem_list)
  OBVIOUS
<1>4. /\ statement_stack # <<>> /\ blocks' = Attach(all, outer, cs)
      /\ statement_stack' = Front(statement_stack) /\ lexem_list' = <<>>
  BY <1>1, <1>2, <1>3 DEF CloseBlock
<1>5. /\ Shape /\ lexem_list \in Seq(HeapNodes) /\ cs \in 1 .. Len(blocks)
      /\ blocks \in Seq(Seq(Seq(HeapNodes))) /\ statement_stack \in Seq(Nat)
      /\ Ascending(statement_stack, cs)
  BY <1>1, Zenon DEF Sound, Shape, BlocksInv, BlockOrder
<1>6. /\ Len(statement_stack) \in 1 .. Len(statement_stack)
      /\ outer = statement_stack[Len(statement_stack)]
      /\ Len(Front(statement_stack)) = Len(statement_stack) - 1
      /\ \A k \in 1 .. Len(statement_stack) - 1 : Front(statement_stack)[k] = statement_stack[k]
  BY <1>2, <1>4, <1>5, FrontFacts
<1>7. ASSUME NEW k \in 1 .. Len(statement_stack)
      PROVE  /\ statement_stack[k] \in 1 .. Len(blocks) /\ statement_stack[k] # cs
             /\ Waiting(blocks[statement_stack[k]])
             /\ AlmostWhole(blocks[statement_stack[k]])
  <2>1. /\ statement_stack[k] < cs /\ statement_stack[k] \in 1 .. Len(blocks)
        /\ Waiting(blocks[statement_stack[k]])
    BY <1>5 DEF Ascending, Sound, BlocksInv, BlockOrder
  <2>2. AlmostWhole(blocks[statement_stack[k]])
    BY DEF Given
  <2> QED BY <1>5, <2>1, <2>2
<1>8. AllWhole(blocks[cs]) /\ blocks[cs] \in Seq(Seq(HeapNodes))
  <2>1. cs \notin Around
    BY <1>7 DEF Around
  <2> QED BY <1>5, <2>1 DEF Given
<1>9. /\ all \in Seq(Seq(Seq(HeapNodes))) /\ Len(all) = Len(blocks) /\ AllWhole(all[cs])
      /\ \A b \in 1 .. Len(blocks) : b # cs => all[b] = blocks[b]
  <2>1. CASE lexem_list = <<>>
    BY <1>3, <1>5, <1>8, <2>1
  <2>2. CASE lexem_list # <<>>
    <3>1. all = Ended(lexem_list)
      BY <1>3, <2>2
    <3>2. /\ all \in Seq(Seq(Seq(HeapNodes))) /\ Len(all) = Len(blocks)
          /\ all[cs] = Append(blocks[cs], lexem_list)
          /\ \A b \in 1 .. Len(blocks) : b # cs => all[b] = blocks[b]
      BY <1>1, <1>5, <3>1, EndedFacts
    <3>3. Whole(lexem_list)
      BY DEF Given
    <3>4. AllWhole(all[cs])
      BY <1>5, <1>8, <3>2, <3>3, BlockAppend
    <3> QED BY <3>2, <3>4
  <2> QED BY <2>1, <2>2
<1>10. /\ outer \in 1 .. Len(all) /\ Waiting(all[outer]) /\ AlmostWhole(all[outer])
       /\ cs \in Nat /\ cs # 0
  <2>1. all[outer] = blocks[outer] /\ outer \in 1 .. Len(all)
    BY <1>6, <1>7, <1>9
  <2>2. Waiting(blocks[outer]) /\ AlmostWhole(blocks[outer])
    BY <1>6, <1>7
  <2>3. cs \in Nat /\ cs # 0
    BY <1>5
  <2> QED BY <2>1, <2>2, <2>3
<1>11. /\ Len(blocks') = Len(blocks) /\ AllWhole(blocks'[outer])
       /\ \A b \in 1 .. Len(blocks) : b # outer => blocks'[b] = all[b]
  BY <1>4, <1>9, <1>10, AttachFacts, GivenAttached
<1>12. ASSUME NEW k \in 1 .. Len(statement_stack')
       PROVE  /\ k \in 1 .. Len(statement_stack)
              /\ statement_stack'[k] = statement_stack[k]
              /\ statement_stack[k] # outer
  <2>1. k \in 1 .. Len(statement_stack) - 1 /\ k < Len(statement_stack)
    BY <1>4, <1>6
  <2>2. k \in 1 .. Len(statement_stack)
    BY <2>1
  <2>3. statement_stack[k] < outer
    BY <1>5, <1>6, <2>1, <2>2 DEF Ascending
  <2>4. statement_stack[k] \in Nat
    BY <1>5, <2>2
  <2> QED BY <1>4, <1>6, <2>1, <2>2, <2>3, <2>4
<1>13. ASSUME NEW k \in 1 .. Len(statement_stack')
       PROVE  AlmostWhole(blocks'[statement_stack'[k]])
  <2>1. /\ k \in 1 .. Len(statement_stack) /\ statement_stack'[k] = statement_stack[k]
        /\ statement_stack[k] # outer
    BY <1>12
  <2>2. blocks'[statement_stack'[k]] = blocks[statement_stack[k]]
    BY <1>7, <1>9, <1>11, <2>1
  <2> QED BY <1>7, <2>1, <2>2
<1>14. ASSUME NEW b \in 1 .. Len(blocks'), b \notin Around'
       PROVE  AllWhole(blocks'[b])
  <2>1. CASE b = outer
    BY <1>11, <2>1
  <2>2. CASE b # outer
    <3>1. b \notin Around
      <4> SUFFICES ASSUME NEW j \in 1 .. Len(statement_stack), b = statement_stack[j]
                   PROVE  b \in Around'
        BY <1>14 DEF Around
      <4>1. j \in 1 .. Len(statement_stack) - 1
        BY <1>6, <2>2
      <4>2. j \in 1 .. Len(statement_stack') /\ statement_stack'[j] = b
        BY <1>4, <1>6, <4>1
      <4> QED BY <4>2 DEF Around
    <3>2. AllWhole(all[b])
      BY <1>9, <1>11, <3>1 DEF Given
    <3> QED BY <1>11, <2>2, <3>2
  <2> QED BY <2>1, <2>2
<1>15. Whole(lexem_list')
  BY <1>4 DEF Whole
<1> QED BY <1>13, <1>14, <1>15

\* Within brackets lexemes go to a list of brackets.
LEMMA InnerList ==
    ASSUME Shape, Ascending(stack, current_node), mode_stack # <<>>
    PROVE  current_node # 0
<1>1. /\ stack \in Seq(Nat) /\ mode_stack \in Seq(Opening) /\ Len(mode_stack) <= Len(stack)
  BY Zenon DEF Shape
<1>2. 1 \in 1 .. Len(stack) /\ stack[1] \in Nat
  <2>1. Len(mode_stack) \in Nat /\ Len(mode_stack) # 0 /\ Len(stack) \in Nat
    BY <1>1
  <2> QED BY <1>1, <2>1
<1>3. stack[1] < current_node
  BY <1>2 DEF Ascending
<1> QED BY <1>2, <1>3

LEMMA OtherGives ==
    ASSUME Sound, Given, status = "read", NEW lexem \in Lexems, Other(lexem),
           mode_stack = <<>> => lexem # "{"
    PROVE  Whole(lexem_list') /\ Ascending(stack', current_node')
<1>1. Shape /\ lexem_list \in Seq(HeapNodes) /\ Whole(lexem_list) /\ Ascending(stack, current_node)
  BY DEF Sound, Shape, Given
<1>2. stack' = stack /\ current_node' = current_node
  BY DEF Other, nesting
<1>3. PICK node \in HeapNodes : node = Leaf(lexem)
  BY LeafTyped, Zenon
<1>4. Push(node)
  BY <1>3, Zenon DEF Other
<1>5. CASE current_node = 0
  <2>1. lexem_list' = Append(lexem_list, node)
    BY <1>4, <1>5 DEF Push
  <2>2. ~Bare(node)
    BY <1>1, <1>3, <1>5, InnerList, NotBare, Zenon
  <2> QED BY <1>1, <1>2, <2>1, <2>2, WholeAppend
<1>6. CASE current_node # 0
  <2>1. lexem_list' = lexem_list
    BY <1>4, <1>6 DEF Push
  <2> QED BY <1>1, <1>2, <2>1
<1> QED BY <1>5, <1>6

LEMMA OpenBracketGives ==
    ASSUME Sound, Given, status = "read", NEW lexem \in Lexems, lexem \in Opening, OpenBracket(lexem)
    PROVE  Whole(lexem_list') /\ Ascending(stack', current_node')
<1>1. /\ Shape /\ lexem_list \in Seq(HeapNodes) /\ Whole(lexem_list)
      /\ Ascending(stack, current_node) /\ stack \in Seq(Nat)
      /\ current_node \in 0 .. Len(lists) /\ Len(lists) \in Nat
  BY DEF Sound, Shape, Given
<1>2. PICK node \in HeapNodes : node = Node(lexem, Len(lists) + 1, 0)
  BY <1>1, OpenBracketFacts, Zenon
<1>3. ~Bare(node)
  BY <1>2, NotBare, Zenon
<1>4. /\ lexem_list' \in {lexem_list, Append(lexem_list, node)}
      /\ stack' = Append(stack, current_node) /\ current_node' = Len(lists) + 1
  BY <1>2, Zenon DEF OpenBracket
<1>5. Whole(lexem_list')
  BY <1>1, <1>3, <1>4, WholeAppend
<1>6. current_node \in Nat /\ Len(lists) + 1 \in Nat /\ current_node < Len(lists) + 1
  BY <1>1
<1>7. Ascending(stack', current_node')
  BY <1>1, <1>4, <1>6, AscendingAppend
<1> QED BY <1>5, <1>7

LEMMA CloseBracketGives ==
    ASSUME Sound, Given, status = "read", NEW lexem, CloseBracket(lexem), mode_stack # <<>>
    PROVE  Whole(lexem_list') /\ Ascending(stack', current_node')
<1>1. /\ lexem_list' = lexem_list /\ Whole(lexem_list) /\ Ascending(stack, current_node)
  BY DEF CloseBracket, tree, Given
<1>2. /\ stack \in Seq(Nat) /\ stack # <<>>
  <2>1. stack \in Seq(Nat) /\ mode_stack \in Seq(Opening) /\ Len(mode_stack) <= Len(stack)
    BY Zenon DEF Sound, Shape
  <2>2. Len(mode_stack) \in Nat /\ Len(mode_stack) # 0 /\ Len(stack) \in Nat
    BY <2>1
  <2> QED BY <2>1, <2>2
<1>3. Ascending(Front(stack), Last(stack))
  BY <1>1, <1>2, AscendingFront
<1>4. \/ current_node' = Last(stack) /\ stack' = Front(stack)
      \/ current_node' = current_node /\ stack' = stack
  BY Zenon DEF CloseBracket
<1> QED BY <1>1, <1>3, <1>4

LEMMA AddLexemGives ==
    ASSUME IInv, TreeInv, Given, NEW lexem \in Lexems, AddLexem(lexem)
    PROVE  Given'
<1>1. /\ status = "read" /\ Treat(lexem) /\ read' = Append(read, lexem) /\ calls' = calls
      /\ calls = <<>>
  BY DEF AddLexem, TreeInv
<1>2. Sound
  BY <1>1, Zenon DEF IInv, Sound
<1>3. read' \in Seq(Lexems) /\ Last(read') = lexem
  <2>1. read \in Seq(Lexems)
    BY DEF Given
  <2> QED BY <1>1, <2>1, AppendLast
<1>4. status' = "undefined" => status' # "read"
  OBVIOUS
<1>5. ASSUME status' # "read"
      PROVE  lexem = "}" /\ statement_stack = <<>> /\ statement_stack' = statement_stack /\ blocks' = blocks
  <2>1. CASE lexem = "}" /\ CloseBlock
    <3>1. statement_stack = <<>>
      BY <1>1, <1>5, <2>1 DEF CloseBlock
    <3> QED BY <2>1, <3>1 DEF CloseBlock
  <2>2. CASE OpenBlock \/ Semicolon \/ OpenBracket(lexem) \/ CloseBracket(lexem) \/ Other(lexem)
    <3>1. status' = status
      BY <2>2, Zenon DEF OpenBlock, Semicolon, OpenBracket, CloseBracket, Other
    <3> QED BY <1>1, <1>5, <3>1
  <2> QED BY <1>1, <2>1, <2>2, Zenon DEF Treat
<1>6. UndefinedExplained'
  <2>1. calls' = <<>>
    BY <1>1
  <2>2. status' = "undefined" => statement_stack' = <<>> /\ Last(read') = "}"
    BY <1>3, <1>4, <1>5
  <2> QED BY <2>1, <2>2, Zenon DEF UndefinedExplained
<1>7. CASE status' # "read"
  <2>1. Around' = Around /\ blocks' = blocks
    BY <1>5, <1>7 DEF Around
  <2>2. \A b \in 1 .. Len(blocks') : b \notin Around' => AllWhole(blocks'[b])
    BY <2>1 DEF Given
  <2> QED BY <1>3, <1>6, <1>7, <2>2, Zenon DEF Given, AllWhole, Whole
<1>8. CASE status' = "read"
  <2>1. CASE OpenBlock \/ Semicolon \/ CloseBlock
    <3>1. /\ \A b \in 1 .. Len(blocks') : b \notin Around' => AllWhole(blocks'[b])
          /\ Whole(lexem_list')
          /\ \A k \in 1 .. Len(statement_stack') : AlmostWhole(blocks'[statement_stack'[k]])
      BY <1>1, <1>2, <1>8, <2>1, OpenBlockGives, SemicolonGives, CloseBlockGives, Zenon
    <3>2. stack' = stack /\ current_node' = current_node
      BY <2>1 DEF OpenBlock, Semicolon, CloseBlock, nesting
    <3>3. Ascending(stack', current_node')
      BY <1>1, <3>2 DEF Given
    <3> QED BY <1>3, <1>6, <3>1, <3>3, Zenon DEF Given, AllWhole, Whole, AlmostWhole, Almost, Ascending
  <2>2. ASSUME Whole(lexem_list'), Ascending(stack', current_node'),
               blocks' = blocks, statement_stack' = statement_stack
        PROVE  Given'
    <3>1. Around' = Around
      BY <2>2 DEF Around
    <3>2. /\ \A b \in 1 .. Len(blocks') : b \notin Around' => AllWhole(blocks'[b])
          /\ \A k \in 1 .. Len(statement_stack') : AlmostWhole(blocks'[statement_stack'[k]])
      BY <1>1, <2>2, <3>1 DEF Given
    <3> QED BY <1>3, <1>6, <2>2, <3>2, Zenon DEF Given, AllWhole, Whole, AlmostWhole, Almost, Ascending
  <2>3. CASE lexem \in Opening /\ OpenBracket(lexem)
    <3>1. blocks' = blocks /\ statement_stack' = statement_stack
      BY <2>3 DEF OpenBracket
    <3> QED BY <1>1, <1>2, <2>2, <2>3, <3>1, OpenBracketGives
  <2>4. CASE mode_stack # <<>> /\ CloseBracket(lexem)
    <3>1. blocks' = blocks /\ statement_stack' = statement_stack
      BY <2>4 DEF CloseBracket, tree
    <3> QED BY <1>1, <1>2, <2>2, <2>4, <3>1, CloseBracketGives
  <2>5. CASE (mode_stack = <<>> => lexem # "{") /\ Other(lexem)
    <3>1. blocks' = blocks /\ statement_stack' = statement_stack
      BY <2>5 DEF Other, nesting
    <3> QED BY <1>1, <1>2, <2>2, <2>5, <3>1, OtherGives
  <2>6. lexem \notin Opening \union {"{", "}", ";"} => lexem # "{"
    OBVIOUS
  <2> QED BY <1>1, <2>1, <2>3, <2>4, <2>5, <2>6, Zenon DEF Treat
<1> QED BY <1>7, <1>8

\* The blocks of a statement without a bare "{" are none of them missing.
LEMMA BlocksOwned ==
    ASSUME NEW s \in Seq(HeapNodes), Whole(s)
    PROVE  ~Contains(Blocks(s), 0)
<1> DEFINE N == Nat \ {0}
           x == [k \in DOMAIN s |-> IF s[k].lexem = "{" THEN <<s[k].statements>> ELSE <<>>]
<1>1. ASSUME NEW k \in 1 .. Len(s), s[k].lexem = "{"
      PROVE  s[k].statements \in N
  <2>1. s[k].statements # 0
    BY <1>1, Zenon DEF Whole, Bare
  <2>2. s[k] \in HeapNodes
    OBVIOUS
  <2>3. s[k].statements \in Nat
    BY <2>2, Zenon DEF HeapNodes
  <2> QED BY <2>1, <2>3
<1>2. ASSUME NEW k \in 1 .. Len(s)
      PROVE  (IF s[k].lexem = "{" THEN <<s[k].statements>> ELSE <<>>) \in Seq(N)
  <2>1. CASE s[k].lexem = "{"
    <3>1. PICK c \in N : c = s[k].statements
      BY <1>1, <2>1, Zenon
    <3> HIDE DEF N
    <3>2. <<c>> \in Seq(N)
      OBVIOUS
    <3> QED BY <2>1, <3>1, <3>2, Zenon
  <2>2. CASE s[k].lexem # "{"
    <3> HIDE DEF N
    <3>1. <<>> \in Seq(N)
      OBVIOUS
    <3> QED BY <2>2, <3>1, Zenon
  <2> QED BY <2>1, <2>2
<1>3. x \in Seq(Seq(N))
  <2>1. DOMAIN s = 1 .. Len(s) /\ Len(s) \in Nat
    OBVIOUS
  <2>2. x \in [1 .. Len(s) -> Seq(N)]
    BY <1>2, <2>1, Zenon
  <2> HIDE DEF x, N
  <2> QED BY <2>1, <2>2
<1> HIDE DEF x, N
<1>4. FlattenSeq(x) \in Seq(N)
  BY <1>3, Flattened
<1>5. PICK bs \in Seq(N) : bs = Blocks(s)
  BY <1>4, Zenon DEF Blocks, x, N
<1>6. \A k \in 1 .. Len(bs) : bs[k] # 0
  BY DEF N
<1>7. ~Contains(bs, 0)
  BY <1>6 DEF Contains
<1> QED BY <1>5, <1>7

\* A statement is joined to one before it in its block.
LEMMA RejoinedGives ==
    ASSUME TreeInv, Given, status = "fix", calls # <<>>, f.src <= Len(Block),
           NEW d \in Nat, d # 0, d < f.src, NEW i \in 1 .. Len(Statement) + 1,
           statement_stack' = statement_stack,
           blocks' = [blocks EXCEPT ![f.block] = Joined(Block, d, f.src, i)]
    PROVE  \A b \in 1 .. Len(blocks') : b \notin Around' => AllWhole(blocks'[b])
<1>1. InCall
  BY CallFacts
<1>2. PICK c \in 1 .. Len(blocks) : c = f.block
  BY <1>1 DEF InCall
<1>3. PICK m \in 1 .. Len(Block) : m = f.src
  BY <1>1 DEF InCall
<1>4. Block = blocks[c] /\ Block \in Seq(Seq(HeapNodes)) /\ Statement = Block[m]
  BY <1>1, <1>2, <1>3 DEF InCall
<1>5. blocks' = [blocks EXCEPT ![c] = Joined(Block, d, m, i)]
  BY <1>2, <1>3
<1>6. /\ Len(blocks') = Len(blocks) /\ blocks'[c] = Joined(Block, d, m, i)
      /\ \A b \in 1 .. Len(blocks) : b # c => blocks'[b] = blocks[b]
  <2>1. blocks \in Seq(Seq(Seq(HeapNodes)))
    BY DEF TreeInv, Typed
  <2> QED BY <1>5, <2>1
<1>7. Around' = Around
  BY DEF Around
<1>8. 1 <= d /\ d < m /\ i \in 1 .. Len(Block[m]) + 1
  BY <1>3, <1>4
<1>9. c \notin Around => AllWhole(blocks'[c])
  <2> HAVE c \notin Around
  <2>1. AllWhole(Block)
    BY <1>4 DEF Given
  <2> QED BY <1>4, <1>6, <1>8, <2>1, JoinedWhole
<1> QED BY <1>6, <1>7, <1>9 DEF Given

\* Nothing is read any more, and the blocks are whole as they were.
LEMMA FixedGives ==
    ASSUME Given, status' # "read", read' = read,
           \A b \in 1 .. Len(blocks') : b \notin Around' => AllWhole(blocks'[b]),
           UndefinedExplained'
    PROVE  Given'
<1>1. read' \in Seq(Lexems)
  BY DEF Given
<1> QED BY <1>1, Zenon DEF Given, AllWhole, Whole

\* Where a block is missing, one around it is open.
LEMMA MissingOpen ==
    ASSUME TreeInv, Given, status = "fix", calls # <<>>, f.src <= Len(Block),
           NEW local, Proceed(local, Statement), status' = "undefined"
    PROVE  calls' = calls /\ statement_stack # <<>>
<1>1. InCall
  BY CallFacts
<1>2. Contains(Blocks(Statement), 0) /\ calls' = calls
  BY DEF Proceed
<1>3. statement_stack # <<>>
  <2> SUFFICES ASSUME statement_stack = <<>> PROVE FALSE
    OBVIOUS
  <2>1. Around = {}
    BY DEF Around
  <2>2. AllWhole(Block) /\ f.src \in 1 .. Len(Block)
    BY <1>1, <2>1 DEF Given, InCall
  <2>3. Whole(Statement) /\ Statement \in Seq(HeapNodes)
    BY <1>1, <2>2 DEF AllWhole, InCall
  <2> QED BY <1>2, <2>3, BlocksOwned
<1> QED BY <1>2, <1>3

LEMMA FixThreeGives ==
    ASSUME TreeInv, Given, FixThree
    PROVE  Given'
<1>1. /\ status = "fix" /\ calls # <<>> /\ read' = read /\ statement_stack' = statement_stack
  BY DEF FixThree, nesting
<1>2. InCall
  BY <1>1, CallFacts
<1>3. status' # "read"
  BY <1>1 DEF FixThree, Returned, Join, Keep, MoveElse, Proceed
<1>4. ASSUME blocks' = blocks
      PROVE  \A b \in 1 .. Len(blocks') : b \notin Around' => AllWhole(blocks'[b])
  <2>1. Around' = Around
    BY <1>1 DEF Around
  <2> QED BY <1>4, <2>1 DEF Given
<1>5. CASE Returned
  <2>1. blocks' = blocks /\ status' # "undefined"
    BY <1>1, <1>5 DEF Returned
  <2>2. UndefinedExplained'
    BY <2>1 DEF UndefinedExplained
  <2> QED BY <1>1, <1>3, <1>4, <2>1, <2>2, FixedGives
<1>6. CASE Join
  <2>1. f.src <= Len(Block) /\ f.fix # 0 /\ status' = status
    BY <1>6 DEF Join
  <2>2. UndefinedExplained'
    BY <1>1, <2>1 DEF UndefinedExplained
  <2>3. Statement \in Seq(HeapNodes) /\ Statement = Block[f.src]
    BY <1>2, <2>1 DEF InCall
  <2>4. 1 \in 1 .. Len(Statement) + 1
    BY <2>3
  <2>5. SubSeq(Block[f.src], 1, Len(Block[f.src])) = Statement
    BY <2>3, WholeEnd
  <2>6. blocks' = [blocks EXCEPT ![f.block] = Joined(Block, f.fix, f.src, 1)]
    BY <1>6, <2>5, Zenon DEF Join, Joined
  <2>7. PICK d \in Nat : d = f.fix /\ d # 0 /\ d < f.src
    BY <1>2, <2>1 DEF InCall
  <2>8. \A b \in 1 .. Len(blocks') : b \notin Around' => AllWhole(blocks'[b])
    BY <1>1, <2>1, <2>4, <2>6, <2>7, RejoinedGives
  <2> QED BY <1>1, <1>3, <2>2, <2>8, FixedGives
<1>7. CASE Keep
  <2>1. PICK local : Proceed(local, Statement) /\ f.src <= Len(Block) /\ blocks' = blocks
    BY <1>7, Zenon DEF Keep
  <2>2. status' = "undefined" => calls' = calls /\ statement_stack # <<>>
    BY <1>1, <2>1, MissingOpen
  <2>3. UndefinedExplained'
    BY <1>1, <2>2 DEF UndefinedExplained
  <2> QED BY <1>1, <1>3, <1>4, <2>1, <2>3, FixedGives
<1>8. CASE MoveElse
  <2>1. PICK k : k = FirstElse(Statement)
    OBVIOUS
  <2>2. /\ f.src <= Len(Block) /\ f.fix = 0 /\ k # 0
        /\ IF f.prev = 0 \/ Incomplete(SubSeq(Statement, 1, k - 1))
           THEN status' = "undefined" /\ UNCHANGED <<blocks, calls>>
           ELSE /\ blocks' = [blocks EXCEPT ![f.block] =
                     RemoveAt([Block EXCEPT ![f.prev] = @ \o SubSeq(Statement, k, Len(Statement))], f.src)]
                /\ Proceed(f, Statement)
    BY <1>8, <2>1, Zenon DEF MoveElse
  <2>3. CASE f.prev = 0 \/ Incomplete(SubSeq(Statement, 1, k - 1))
    <3>1. blocks' = blocks /\ calls' = calls
      BY <2>2, <2>3
    <3>2. MisplacedElse
      BY <2>1, <2>2, <2>3, Zenon DEF MisplacedElse
    <3>3. f' = f /\ Block' = Block /\ Statement' = Statement
      BY <3>1 DEF f, Block, Statement
    <3>4. MisplacedElse'
      BY <3>2, <3>3, Zenon DEF MisplacedElse
    <3>5. UndefinedExplained'
      BY <1>1, <3>1, <3>4 DEF UndefinedExplained
    <3> QED BY <1>1, <1>3, <1>4, <3>1, <3>5, FixedGives
  <2>4. CASE ~(f.prev = 0 \/ Incomplete(SubSeq(Statement, 1, k - 1)))
    <3>1. Proceed(f, Statement)
      BY <2>2, <2>4
    <3>2. status' = "undefined" => calls' = calls /\ statement_stack # <<>>
      BY <1>1, <2>2, <3>1, MissingOpen
    <3>3. UndefinedExplained'
      BY <1>1, <3>2 DEF UndefinedExplained
    <3>4. Statement \in Seq(HeapNodes) /\ Statement = Block[f.src]
      BY <1>2, <2>2 DEF InCall
    <3>5. k \in 1 .. Len(Statement) + 1
      <4>1. k \in 1 .. Len(Statement) /\ Len(Statement) \in Nat
        BY <2>1, <2>2, <3>4, ElsePlace
      <4> QED BY <4>1
    <3>6. blocks' = [blocks EXCEPT ![f.block] = Joined(Block, f.prev, f.src, k)]
      BY <2>2, <2>4, <3>4, Zenon DEF Joined
    <3>7. PICK d \in Nat : d = f.prev /\ d # 0 /\ d < f.src
      BY <1>2, <2>4 DEF InCall
    <3>8. \A b \in 1 .. Len(blocks') : b \notin Around' => AllWhole(blocks'[b])
      BY <1>1, <2>2, <3>5, <3>6, <3>7, RejoinedGives
    <3> QED BY <1>1, <1>3, <3>3, <3>8, FixedGives
  <2> QED BY <2>3, <2>4
<1> QED BY <1>5, <1>6, <1>7, <1>8, Zenon DEF FixThree

LEMMA InitGiven == Init => Given
<1> SUFFICES ASSUME Init PROVE Given
  OBVIOUS
<1>1. /\ lexem_list = <<>> /\ blocks = << <<>> >> /\ stack = <<>> /\ read = <<>>
      /\ statement_stack = <<>> /\ status = "read"
  BY DEF Init
<1>2. Len(blocks) = 1 /\ blocks[1] = <<>>
  BY <1>1
<1>3. AllWhole(blocks[1])
  BY <1>2 DEF AllWhole
<1>4. \A b \in 1 .. Len(blocks) : b \notin Around => AllWhole(blocks[b])
  BY <1>2, <1>3
<1>5. Whole(lexem_list) /\ Ascending(stack, current_node)
  BY <1>1 DEF Whole, Ascending
<1>6. read \in Seq(Lexems) /\ UndefinedExplained
  BY <1>1 DEF UndefinedExplained
<1>7. \A k \in 1 .. Len(statement_stack) : AlmostWhole(blocks[statement_stack[k]])
  BY <1>1
<1> QED BY <1>4, <1>5, <1>6, <1>7 DEF Given

LEMMA NextGiven == IInv /\ TreeInv /\ Given /\ [Next]_vars => Given'
<1> SUFFICES ASSUME IInv, TreeInv, Given, [Next]_vars PROVE Given'
  OBVIOUS
<1>1. ASSUME NEW lexem \in Alphabet \union {program[k] : k \in DOMAIN program}, AddLexem(lexem)
      PROVE  Given'
  <2>1. lexem \in Lexems
    BY LexemRead DEF IInv
  <2> QED BY <1>1, <2>1, AddLexemGives
<1>2. CASE CodeThree
  <2>1. /\ status' = "fix" /\ read' = read /\ blocks' = blocks
        /\ statement_stack' = statement_stack
    BY <1>2 DEF CodeThree, tree, nesting
  <2>2. Around' = Around
    BY <2>1 DEF Around
  <2>3. \A b \in 1 .. Len(blocks') : b \notin Around' => AllWhole(blocks'[b])
    BY <2>1, <2>2 DEF Given
  <2>4. UndefinedExplained' /\ status' # "read"
    BY <2>1 DEF UndefinedExplained
  <2> QED BY <2>1, <2>3, <2>4, FixedGives
<1>3. CASE FixThree
  BY <1>3, FixThreeGives
<1>4. CASE UNCHANGED vars
  <2>1. /\ lexem_list' = lexem_list /\ blocks' = blocks /\ current_node' = current_node
        /\ stack' = stack /\ statement_stack' = statement_stack
        /\ status' = status /\ calls' = calls /\ read' = read
    BY <1>4 DEF vars, tree, nesting
  <2>2. f' = f /\ Block' = Block /\ Statement' = Statement /\ Around' = Around
    BY <2>1 DEF f, Block, Statement, Around
  <2>3. MisplacedElse' <=> MisplacedElse
    BY <2>2, Zenon DEF MisplacedElse
  <2>4. UndefinedExplained'
    BY <2>1, <2>3 DEF UndefinedExplained, Given
  <2>5. /\ \A b \in 1 .. Len(blocks') : b \notin Around' => AllWhole(blocks'[b])
        /\ read' \in Seq(Lexems)
        /\ status' = "read" =>
              /\ Ascending(stack', current_node') /\ Whole(lexem_list')
              /\ \A k \in 1 .. Len(statement_stack') : AlmostWhole(blocks'[statement_stack'[k]])
    BY <2>1, <2>2 DEF Given
  <2> QED BY <2>4, <2>5, Zenon DEF Given, AllWhole, Whole, AlmostWhole, Almost, Ascending
<1> QED BY <1>1, <1>2, <1>3, <1>4 DEF Next

-----------------------------------------------------------------------------
\* The places and lexemes of OneOwner are those of the heap.
LEMMA PlacesOfHeap ==
    ASSUME Typed(lexem_list, lists, blocks), NEW T, T = HeapNow
    PROVE  Places = Placed(T) /\ \A p \in Places : Lexem(p) = At(T, p)
<1>1. /\ Len(lists) \in Nat /\ Len(blocks) \in Nat
      /\ \A b \in 1 .. Len(blocks) : b \in Nat /\ b # 0 /\ Len(blocks[b]) \in Nat
  BY DEF Typed
<1>2. /\ T[0][0] = lexem_list
      /\ \A s \in 1 .. Len(lists) : T[0][s] = lists[s]
      /\ \A s \in Nat : s > Len(lists) => T[0][s] = <<>>
      /\ \A b \in 1 .. Len(blocks) : \A s \in 1 .. Len(blocks[b]) : T[b][s] = blocks[b][s]
      /\ \A b \in 1 .. Len(blocks) : \A s \in Nat : s \notin 1 .. Len(blocks[b]) => T[b][s] = <<>>
      /\ \A b, s \in Nat : b > Len(blocks) => T[b][s] = <<>>
  <2>1. Shows(T, lexem_list, lists, blocks)
    BY HeapText, Zenon DEF HeapNow
  <2> QED BY <2>1, Zenon DEF Shows
<1>3. ASSUME NEW b \in 0 .. Len(blocks), NEW s \in Texts(b)
      PROVE  b \in Nat /\ s \in Nat /\ Text(b, s) = T[b][s]
  <2>1. CASE b = 0
    <3>1. s \in 0 .. Len(lists)
      BY <2>1 DEF Texts
    <3>2. s = 0 \/ s \in 1 .. Len(lists)
      BY <1>1, <3>1
    <3>3. Text(b, s) = IF s = 0 THEN lexem_list ELSE lists[s]
      BY <2>1 DEF Text, List
    <3> QED BY <1>1, <1>2, <2>1, <3>1, <3>2, <3>3
  <2>2. CASE b # 0
    <3>1. b \in 1 .. Len(blocks) /\ s \in 1 .. Len(blocks[b])
      BY <1>1, <2>2 DEF Texts
    <3>2. Text(b, s) = blocks[b][s]
      BY <2>2 DEF Text
    <3> QED BY <1>1, <1>2, <3>1, <3>2
  <2> QED BY <2>1, <2>2
<1>4. ASSUME NEW b \in Nat, NEW s \in Nat, T[b][s] # <<>>
      PROVE  b \in 0 .. Len(blocks) /\ s \in Texts(b)
  <2>1. b \in 0 .. Len(blocks)
    BY <1>1, <1>2, <1>4
  <2>2. CASE b = 0
    <3>1. s \in 0 .. Len(lists)
      BY <1>1, <1>2, <1>4, <2>2
    <3> QED BY <2>1, <2>2, <3>1 DEF Texts
  <2>3. CASE b # 0
    <3>1. b \in 1 .. Len(blocks)
      BY <1>1, <2>1, <2>3
    <3>2. s \in 1 .. Len(blocks[b])
      BY <1>2, <1>4, <3>1
    <3> QED BY <2>1, <2>3, <3>2 DEF Texts
  <2> QED BY <2>2, <2>3
<1>5. ASSUME NEW p \in Places
      PROVE  p \in Placed(T) /\ Lexem(p) = At(T, p)
  <2>1. PICK b \in 0 .. Len(blocks) : p \in PlacesIn(b)
    BY Zenon DEF Places
  <2>2. PICK s \in Texts(b) : p \in {<<b, s, k>> : k \in 1 .. Len(Text(b, s))}
    BY <2>1, Zenon DEF PlacesIn
  <2>3. PICK k \in 1 .. Len(Text(b, s)) : p = <<b, s, k>>
    BY <2>2, Zenon
  <2>4. b \in Nat /\ s \in Nat /\ Text(b, s) = T[b][s]
    BY <1>3
  <2>5. p[1] = b /\ p[2] = s /\ p[3] = k /\ p \in Nat \X Nat \X Nat
    BY <2>3, <2>4
  <2> QED BY <2>4, <2>5 DEF Placed, At, Lexem
<1>6. ASSUME NEW p \in Placed(T)
      PROVE  p \in Places
  <2>1. PICK b \in Nat, s \in Nat, k \in Nat : p = <<b, s, k>>
    BY DEF Placed
  <2>2. k \in 1 .. Len(T[b][s])
    <3>1. p[1] = b /\ p[2] = s /\ p[3] = k
      BY <2>1
    <3> QED BY <3>1 DEF Placed
  <2>3. T[b][s] # <<>>
    BY <2>2
  <2>4. b \in 0 .. Len(blocks) /\ s \in Texts(b)
    BY <1>4, <2>3
  <2>5. k \in 1 .. Len(Text(b, s))
    BY <1>3, <2>2, <2>4
  <2>6. p \in {<<b, s, n>> : n \in 1 .. Len(Text(b, s))}
    BY <2>1, <2>5, Zenon
  <2>7. p \in UNION {{<<b, r, n>> : n \in 1 .. Len(Text(b, r))} : r \in Texts(b)}
    BY <2>4, <2>6, Zenon
  <2>8. p \in PlacesIn(b)
    BY <2>7, Zenon DEF PlacesIn
  <2> QED BY <2>4, <2>8 DEF Places
<1> QED BY <1>5, <1>6

LEMMA TreeOwned == TreeInv /\ Given => OneOwner
<1> SUFFICES ASSUME TreeInv, Given PROVE OneOwner
  OBVIOUS
<1>1. PICK T : T = HeapNow
  OBVIOUS
<1>2. Places = Placed(T) /\ \A p \in Places : Lexem(p) = At(T, p)
  BY <1>1, PlacesOfHeap DEF TreeInv
<1>3. Single(T) /\ Later(T)
  BY <1>1 DEF TreeInv, Tree
<1>4. /\ {Lexem(p).sequence : p \in Places} = {At(T, p).sequence : p \in Placed(T)}
      /\ {Lexem(p).statements : p \in Places} = {At(T, p).statements : p \in Placed(T)}
  BY <1>2
<1>5. status = "read" =>
          /\ {Lexem(p).sequence : p \in Places} \ {0} = 1 .. Len(lists)
          /\ {Lexem(p).statements : p \in Places} \ {0} = 1 .. Len(blocks) \ OpenBlocks
  BY <1>1, <1>4 DEF TreeInv, Owned, SequencesOf, BodiesOf
<1>6. ASSUME NEW p \in Places, NEW q \in Places
      PROVE  /\ Lexem(p).sequence = Lexem(q).sequence /\ Lexem(p).sequence # 0 => p = q
             /\ Lexem(p).statements = Lexem(q).statements /\ Lexem(p).statements # 0 => p = q
  <2>1. /\ At(T, p).sequence = At(T, q).sequence /\ At(T, p).sequence # 0 => p = q
        /\ At(T, p).statements = At(T, q).statements /\ At(T, p).statements # 0 => p = q
    BY <1>2, <1>3, Zenon DEF Single
  <2>2. Lexem(p) = At(T, p) /\ Lexem(q) = At(T, q)
    BY <1>2
  <2> QED BY <2>1, <2>2
<1>7. \A p \in Places :
          /\ Lexem(p).sequence # 0 /\ p[1] = 0 => p[2] < Lexem(p).sequence
          /\ Lexem(p).statements # 0 => p[1] # 0 /\ p[1] < Lexem(p).statements
  BY <1>2, <1>3, Zenon DEF Later
<1>8. ASSUME NEW p \in Places, p[1] # 0, Lexem(p).lexem = "{", Lexem(p).statements = 0
      PROVE  p[1] \in Around
  <2>1. PICK b \in 0 .. Len(blocks) : p \in PlacesIn(b)
    BY Zenon DEF Places
  <2>2. PICK s \in Texts(b) : p \in {<<b, s, k>> : k \in 1 .. Len(Text(b, s))}
    BY <2>1, Zenon DEF PlacesIn
  <2>3. PICK k \in 1 .. Len(Text(b, s)) : p = <<b, s, k>>
    BY <2>2, Zenon
  <2>4. p[1] = b /\ Lexem(p) = Text(b, s)[k] /\ b # 0
    BY <1>8, <2>3 DEF Lexem
  <2>5. /\ b \in 1 .. Len(blocks) /\ s \in 1 .. Len(blocks[b])
        /\ k \in 1 .. Len(blocks[b][s]) /\ Lexem(p) = blocks[b][s][k]
    BY <2>4 DEF Texts, Text
  <2>6. Bare(blocks[b][s][k])
    BY <1>8, <2>5, Zenon DEF Bare
  <2>7. ~AllWhole(blocks[b])
    BY <2>5, <2>6 DEF AllWhole, Whole
  <2> QED BY <2>4, <2>5, <2>7 DEF Given
<1> QED BY <1>5, <1>6, <1>7, <1>8, Zenon DEF OneOwner

\* In every text, however malformed, and while FixThree joins its statements, no
\* list and no block of the heap belongs to two lexemes, the heap is a tree, and
\* a "{" without a block stands in a block around one that is open.
THEOREM HeapIsTree == Spec => []OneOwner
<1>1. Init => IInv /\ TreeInv /\ Given
  BY InitInv, InitTree, InitGiven
<1>2. IInv /\ TreeInv /\ Given /\ [Next]_vars => (IInv /\ TreeInv /\ Given)'
  BY NextInv, NextTree, NextGiven
<1>3. IInv /\ TreeInv /\ Given => OneOwner
  BY TreeOwned
<1> QED
  BY <1>1, <1>2, <1>3, PTL DEF Spec

\* In every text the behaviour is undefined for three reasons only, a "}" too
\* many, a block that is never closed and an else out of place: FixThree follows
\* no null pointer in a text whose blocks close, whatever statements it joined.
THEOREM NoNullBlock == Spec => []UndefinedExplained
<1>1. Init => IInv /\ TreeInv /\ Given
  BY InitInv, InitTree, InitGiven
<1>2. IInv /\ TreeInv /\ Given /\ [Next]_vars => (IInv /\ TreeInv /\ Given)'
  BY NextInv, NextTree, NextGiven
<1>3. Given => UndefinedExplained
  BY DEF Given
<1> QED
  BY <1>1, <1>2, <1>3, PTL DEF Spec
=============================================================================
