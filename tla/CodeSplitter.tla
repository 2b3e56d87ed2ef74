---------------------------- MODULE CodeSplitter ----------------------------
(***************************************************************************)
(* The first stage of the syntax parser: AddLexem sorts the lexemes of the *)
(* file into statements, brackets and blocks; then CodeThree has FixThree  *)
(* join the statements that belong together (if and else, do and while,    *)
(* try and catch, a structure and its ";").                                *)
(*                                                                         *)
(* lists and blocks are the heap: the lexem_list_t of each bracket and the *)
(* statement_list_t of each block, by number; 0 is the null pointer, and   *)
(* in current_node and stack the list of the statement being read, which   *)
(* is copied when the statement ends.  The first block is the whole file.  *)
(***************************************************************************)
EXTENDS Integers, Sequences, SequencesExt

CONSTANTS
    Alphabet, FreeLength,  \* any text of these lexemes, up to a length
    Programs               \* longer texts, as sequences of lexemes

ASSUME LengthAssumption == FreeLength \in Nat
ASSUME ProgramsAssumption == \A program \in Programs : program \in Seq(STRING)
ASSUME AlphabetAssumption == Alphabet \subseteq STRING

VARIABLES
    lexem_list,       \* the statement being read
    lists, blocks,
    current_node,     \* the list lexemes are added to
    stack,            \* the lists around it
    mode_stack,       \* the brackets that are open
    current_statement, \* the block statements are added to
    statement_stack,  \* the blocks around it
    calls,            \* the calls of FixThree, with their local variables
    status,           \* "read", "fix", "done", or "undefined" behaviour
    mismatched,       \* history: a bracket was closed by another kind's
    program, read     \* history: the text and what was read of it

tree == <<lexem_list, lists, blocks>>
nesting == <<current_node, stack, mode_stack, current_statement, statement_stack>>
vars == <<tree, nesting, calls, status, mismatched, program, read>>

Node(lexem, sequence, statements) ==
    [lexem |-> lexem, sequence |-> sequence, statements |-> statements]
Leaf(lexem) == Node(lexem, 0, 0)

Init ==
    /\ lexem_list = <<>>
    /\ lists = <<>>
    /\ blocks = << <<>> >>
    /\ current_node = 0
    /\ stack = <<>>
    /\ mode_stack = <<>>
    /\ current_statement = 1
    /\ statement_stack = <<>>
    /\ calls = <<>>
    /\ status = "read"
    /\ mismatched = FALSE
    /\ program \in Programs \union {<<>>}
    /\ read = <<>>

\* current_node->push_back
Push(node) ==
    IF current_node = 0
    THEN lexem_list' = Append(lexem_list, node) /\ UNCHANGED lists
    ELSE lists' = [lists EXCEPT ![current_node] = Append(@, node)] /\ UNCHANGED lexem_list

Ended(statement) == [blocks EXCEPT ![current_statement] = Append(@, statement)]

\* Mutant: the statements of the block go on to the block around it.
OpenBlockInPlace ==
    /\ blocks' = Append(Ended(Append(lexem_list, Leaf("{"))), <<>>)
    /\ lexem_list' = <<>>
    /\ statement_stack' = Append(statement_stack, current_statement)
    /\ UNCHANGED <<lists, current_node, stack, mode_stack, current_statement, status>>

OpenBlock ==
    /\ blocks' = Append(Ended(Append(lexem_list, Leaf("{"))), <<>>)
    /\ lexem_list' = <<>>
    /\ statement_stack' = Append(statement_stack, current_statement)
    /\ current_statement' = Len(blocks) + 1
    /\ UNCHANGED <<lists, current_node, stack, mode_stack, status>>

\* The last lexeme of the last statement of block b receives a block.
Attach(heap, b, statements) ==
    [heap EXCEPT ![b][Len(heap[b])][Len(heap[b][Len(heap[b])])].statements = statements]

\* Mutant: a statement before "}" that has no ";" is dropped.
CloseBlockDropping ==
    /\ statement_stack # <<>>
    /\ blocks' = Attach(blocks, Last(statement_stack), current_statement)
    /\ current_statement' = Last(statement_stack)
    /\ statement_stack' = Front(statement_stack)
    /\ lexem_list' = <<>>
    /\ UNCHANGED <<lists, current_node, stack, mode_stack, status>>

\* A "}" too many takes the top of an empty stack.
CloseBlock ==
    LET all == IF lexem_list = <<>> THEN blocks ELSE Ended(lexem_list)
    IN  /\ lexem_list' = <<>>
        /\ IF statement_stack = <<>>
           THEN status' = "undefined"
                /\ UNCHANGED <<blocks, current_statement, statement_stack>>
           ELSE /\ blocks' = Attach(all, Last(statement_stack), current_statement)
                /\ current_statement' = Last(statement_stack)
                /\ statement_stack' = Front(statement_stack)
                /\ UNCHANGED status
        /\ UNCHANGED <<lists, current_node, stack, mode_stack>>

Semicolon ==
    /\ blocks' = Ended(Append(lexem_list, Leaf(";")))
    /\ lexem_list' = <<>>
    /\ UNCHANGED <<lists, nesting, status>>

\* A bracket opens: what follows goes to a new list.
OpenBracket(lexem) ==
    LET node == Node(lexem, Len(lists) + 1, 0)
    IN  /\ IF current_node = 0
           THEN lexem_list' = Append(lexem_list, node) /\ lists' = Append(lists, <<>>)
           ELSE /\ lists' = Append([lists EXCEPT ![current_node] = Append(@, node)], <<>>)
                /\ UNCHANGED lexem_list
        /\ stack' = Append(stack, current_node)
        /\ current_node' = Len(lists) + 1
        /\ mode_stack' = Append(mode_stack, lexem)
        /\ UNCHANGED <<blocks, current_statement, statement_stack, status>>

Partner(lexem) == IF lexem = ")" THEN "(" ELSE "["

\* Mutant: the list that is gone back to is not taken off the stack.
CloseBracketKeeping(lexem) ==
    /\ mode_stack' = Front(mode_stack)
    /\ current_node' = IF Last(mode_stack) = Partner(lexem) THEN Last(stack) ELSE current_node
    /\ UNCHANGED <<tree, stack, current_statement, statement_stack, status>>

\* A bracket closes.  One of the wrong kind is reported and takes the kind
\* that was open off mode_stack, but leaves the list where it is.
CloseBracket(lexem) ==
    /\ mode_stack' = Front(mode_stack)
    /\ IF Last(mode_stack) = Partner(lexem)
       THEN current_node' = Last(stack) /\ stack' = Front(stack)
       ELSE UNCHANGED <<current_node, stack>>
    /\ UNCHANGED <<tree, current_statement, statement_stack, status>>

Other(lexem) == Push(Leaf(lexem)) /\ UNCHANGED <<blocks, nesting, status>>

Opening == {"(", "["}
Closing == {")", "]"}

\* Within brackets blocks and semicolons are lexemes like others, and outside
\* of them closing brackets are.
Treat(lexem) ==
    \/ mode_stack = <<>> /\ lexem = "{" /\ OpenBlock
    \/ mode_stack = <<>> /\ lexem = "}" /\ CloseBlock
    \/ mode_stack = <<>> /\ lexem = ";" /\ Semicolon
    \/ lexem \in Opening /\ OpenBracket(lexem)
    \/ mode_stack # <<>> /\ lexem \in Closing /\ CloseBracket(lexem)
    \/ mode_stack = <<>> /\ lexem \notin Opening \union {"{", "}", ";"} /\ Other(lexem)
    \/ mode_stack # <<>> /\ lexem \notin Opening \union Closing /\ Other(lexem)

AddLexem(lexem) ==
    /\ status = "read"
    /\ IF program = <<>>
       THEN lexem \in Alphabet /\ Len(read) < FreeLength
       ELSE Len(read) < Len(program) /\ lexem = program[Len(read) + 1]
    /\ Treat(lexem)
    /\ mismatched' = \/ mismatched
                     \/ /\ mode_stack # <<>> /\ lexem \in Closing
                        /\ Last(mode_stack) # Partner(lexem)
    /\ read' = Append(read, lexem)
    /\ UNCHANGED <<calls, program>>
-----------------------------------------------------------------------------
\* A call of FixThree.  src and prev are places of statements in the block,
\* prev = 0 its end; fix is the statement the next one is joined to, or 0.
Call(block) == [block |-> block, src |-> 1, prev |-> 0, fix |-> 0]

CodeThree ==
    /\ status = "read"
    /\ program # <<>> => Len(read) = Len(program)
    /\ status' = "fix"
    /\ calls' = <<Call(1)>>
    /\ UNCHANGED <<tree, nesting, mismatched, program, read>>

f == Last(calls)
Block == blocks[f.block]
Statement == Block[f.src]

\* FixThree calls itself for the blocks of a statement, the first one first;
\* a block that was never closed is a null pointer.
Blocks(s) == FlattenSeq([k \in DOMAIN s |->
                IF s[k].lexem = "{" THEN <<s[k].statements>> ELSE <<>>])

Proceed(local, s) ==
    IF Contains(Blocks(s), 0)
    THEN status' = "undefined" /\ UNCHANGED calls
    ELSE /\ calls' = Front(calls) \o <<local>>
                        \o Reverse([k \in DOMAIN Blocks(s) |-> Call(Blocks(s)[k])])
         /\ UNCHANGED status

\* Mutant: a try is not joined with its catch.
BeginsUntried(lexem) == lexem \in {"do", "struct", "union", "enum", "class"}

Begins(lexem) == lexem \in {"do", "struct", "union", "enum", "class", "try"}

\* The next statement belongs to s: s has a do, or a block right behind one
\* of the words above.
Incomplete(s) ==
    \E k \in DOMAIN s :
        \/ s[k].lexem = "do"
        \/ k > 1 /\ s[k].lexem = "{" /\ Begins(s[k - 1].lexem)

Returned ==
    /\ f.src > Len(Block)
    /\ calls' = Front(calls)
    /\ status' = IF Len(calls) = 1 THEN "done" ELSE status
    /\ UNCHANGED blocks

\* Mutant: the statement that was joined is not erased.
JoinKeeping ==
    /\ f.src <= Len(Block) /\ f.fix # 0
    /\ blocks' = [blocks EXCEPT ![f.block] = [Block EXCEPT ![f.fix] = @ \o Statement]]
    /\ calls' = [calls EXCEPT ![Len(calls)].fix = 0, ![Len(calls)].src = @ + 1]
    /\ UNCHANGED status

\* The statement is joined to the one before it, unexamined.
Join ==
    /\ f.src <= Len(Block) /\ f.fix # 0
    /\ blocks' = [blocks EXCEPT ![f.block] =
                     RemoveAt([Block EXCEPT ![f.fix] = @ \o Statement], f.src)]
    /\ calls' = [calls EXCEPT ![Len(calls)].fix = 0]
    /\ UNCHANGED status

FirstElse(s) ==
    LET places == {k \in DOMAIN s : s[k].lexem = "else"}
    IN  IF places = {} THEN 0 ELSE CHOOSE k \in places : \A m \in places : k <= m

\* Mutant: the statement an else may follow is not remembered.
KeepUnlinked ==
    /\ f.src <= Len(Block) /\ f.fix = 0 /\ FirstElse(Statement) = 0
    /\ Proceed([f EXCEPT !.src = @ + 1,
                         !.fix = IF Incomplete(Statement) THEN f.src ELSE 0], Statement)
    /\ UNCHANGED blocks

Keep ==
    /\ f.src <= Len(Block) /\ f.fix = 0 /\ FirstElse(Statement) = 0
    /\ Proceed([f EXCEPT !.src = @ + 1, !.prev = f.src,
                         !.fix = IF Incomplete(Statement) THEN f.src ELSE 0], Statement)
    /\ UNCHANGED blocks

\* From the else on, the statement is moved to the end of the one before it.
\* Without one, or with words before the else that leave fix pointing to the
\* statement that is erased, the behaviour is undefined.
MoveElse ==
    LET k == FirstElse(Statement)
    IN  /\ f.src <= Len(Block) /\ f.fix = 0 /\ k # 0
        /\ IF f.prev = 0 \/ Incomplete(SubSeq(Statement, 1, k - 1))
           THEN status' = "undefined" /\ UNCHANGED <<blocks, calls>>
           ELSE /\ blocks' = [blocks EXCEPT ![f.block] =
                        RemoveAt([Block EXCEPT ![f.prev] = @ \o SubSeq(Statement, k, Len(Statement))], f.src)]
                /\ Proceed(f, Statement)

FixThree ==
    /\ status = "fix" /\ calls # <<>>
    /\ Returned \/ Join \/ Keep \/ MoveElse
    /\ UNCHANGED <<lexem_list, lists, nesting, mismatched, program, read>>

Next ==
    \/ \E lexem \in Alphabet \union {program[k] : k \in DOMAIN program} : AddLexem(lexem)
    \/ CodeThree
    \/ FixThree

Spec == Init /\ [][Next]_vars
-----------------------------------------------------------------------------
\* The list current_node points to.
List(id) == IF id = 0 THEN lexem_list ELSE lists[id]

\* While no bracket was closed by one of the other kind, the two stacks of
\* brackets agree: each open bracket is the last lexeme of the list around it
\* and owns the list within it.
BracketsNest ==
    status = "read" /\ ~mismatched =>
        LET path == Append(stack, current_node)
        IN  /\ Len(stack) = Len(mode_stack)
            /\ path[1] = 0
            /\ \A k \in DOMAIN stack :
                  /\ List(path[k]) # <<>>
                  /\ Last(List(path[k])) = Node(mode_stack[k], path[k + 1], 0)

\* Each open block is announced by the last lexeme of the last statement of
\* the block around it, a "{" that has no statements yet: CloseBlock, which
\* writes to the last lexeme there is, never writes to another.
BlocksWait ==
    status = "read" =>
        \A k \in DOMAIN statement_stack :
            LET block == blocks[statement_stack[k]]
            IN  block # <<>> /\ Last(block) # <<>> /\ Last(Last(block)) = Leaf("{")

\* The statements, of block b, or with b = 0 the lists, and their places.
Text(b, s) == IF b = 0 THEN List(s) ELSE blocks[b][s]
Texts(b) == IF b = 0 THEN 0 .. Len(lists) ELSE 1 .. Len(blocks[b])
PlacesIn(b) == UNION {{<<b, s, k>> : k \in 1 .. Len(Text(b, s))} : s \in Texts(b)}
Places == UNION {PlacesIn(b) : b \in 0 .. Len(blocks)}

Lexem(p) == Text(p[1], p[2])[p[3]]

\* The blocks around the innermost one that is open.
Around == {statement_stack[k] : k \in 1 .. Len(statement_stack)}
OpenBlocks == {current_statement} \union Around

\* Lexemes are copied with the pointers they own.  Yet, once the originals are
\* erased, no list and no block belongs to two of them, and what belongs to a
\* lexeme was made later than what the lexeme is in, so that the heap is a tree.
\* While lexemes are added, each list and each closed block belongs to one.  A
\* "{" of a statement has no block but in a block around one that is open.
OneOwner ==
    /\ \A p, q \in Places :
          /\ Lexem(p).sequence = Lexem(q).sequence /\ Lexem(p).sequence # 0 => p = q
          /\ Lexem(p).statements = Lexem(q).statements /\ Lexem(p).statements # 0 => p = q
    /\ \A p \in Places :
          /\ Lexem(p).sequence # 0 /\ p[1] = 0 => p[2] < Lexem(p).sequence
          /\ Lexem(p).statements # 0 => p[1] # 0 /\ p[1] < Lexem(p).statements
          /\ p[1] # 0 /\ Lexem(p).lexem = "{" /\ Lexem(p).statements = 0 => p[1] \in Around
    /\ status = "read" =>
          /\ {Lexem(p).sequence : p \in Places} \ {0} = 1 .. Len(lists)
          /\ {Lexem(p).statements : p \in Places} \ {0} = 1 .. Len(blocks) \ OpenBlocks

\* An else that has no statement to go to, or behind a word that leaves fix
\* pointing to the statement that is erased.
MisplacedElse ==
    LET k == FirstElse(Statement)
    IN  /\ f.src <= Len(Block) /\ f.fix = 0 /\ k # 0
        /\ f.prev = 0 \/ Incomplete(SubSeq(Statement, 1, k - 1))

\* Nothing but a "}" too many, a text that ends within a block, and such an
\* else makes the behaviour undefined: in a text whose blocks close FixThree
\* never follows a null pointer.
UndefinedExplained ==
    status = "undefined" =>
        \/ calls = <<>> /\ statement_stack = <<>> /\ Last(read) = "}"
        \/ calls # <<>> /\ (statement_stack # <<>> \/ MisplacedElse)
=============================================================================
