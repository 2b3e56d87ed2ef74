--------------------------- MODULE MCCodeSplitter ---------------------------
(***************************************************************************)
(* CodeSplitter on all short texts of words, semicolons and brackets and   *)
(* on the programs that compound statements make up, nested twice, with    *)
(* C's grammar of statements as the reference.                             *)
(***************************************************************************)
EXTENDS CodeSplitter

MCAlphabet == {"word", ";", "{", "}", "(", ")", "["}

\* Statements of which the parts are in S; a declaration is no part unless
\* it is in a block.
Compound(S) ==
    LET P == {s \in S : s[1] # "struct"}
    IN  {<<"do">> \o s \o <<"while", "(", ")", ";">> : s \in P}
        \union {<<"do", "{">> \o s \o <<"}", "while", "(", ")", ";">> : s \in S}
        \union {<<"if", "(", ")">> \o s : s \in P}
        \union {<<"if", "(", ")">> \o s \o <<"else">> \o t : s \in P, t \in P}
        \union {<<"while", "(", ")">> \o s : s \in P}
        \union {<<"{">> \o s \o <<"}">> : s \in S}
        \union {<<"try", "{">> \o s \o <<"}", "catch", "(", ")", "{">> \o t \o <<"}">> : s \in S, t \in S}
        \union {<<"struct", "{">> \o s \o <<"}", ";">> : s \in S}

Simple == <<"word", "(", ";", ")", ";">>
Shallow == {<<";">>} \union Compound({<<";">>})
Deep == Compound(Shallow)

MCPrograms ==
    {Simple \o s \o Simple : s \in Deep} \union {s \o t : s \in Shallow, t \in Shallow}

\* The lexemes of a list, and of what it owns, in the order of the text.
RECURSIVE ListText(_)
ListText(list) ==
    LET Closed(id) == id # current_node /\ ~Contains(stack, id)
        Sequence(n) == IF n.sequence = 0 THEN <<>>
                       ELSE ListText(lists[n.sequence])
                              \o (IF ~Closed(n.sequence) THEN <<>>
                                  ELSE IF n.lexem = "(" THEN <<")">> ELSE <<"]">>)
        Statements(n) == IF n.statements = 0 THEN <<>>
                         ELSE FlattenSeq([k \in DOMAIN blocks[n.statements] |->
                                            ListText(blocks[n.statements][k])]) \o <<"}">>
    IN  FlattenSeq([k \in DOMAIN list |->
            <<list[k].lexem>> \o Sequence(list[k]) \o Statements(list[k])])

BlockText(block) == FlattenSeq([k \in DOMAIN block |-> ListText(block[k])])

\* The place behind the closing bracket of the one at i.
Behind(t, i) ==
    LET Depth(k, S) == Cardinality({m \in i .. k : t[m] \in S})
        ends == {k \in i .. Len(t) : Depth(k, {"(", "{"}) = Depth(k, {")", "}"})}
    IN  1 + CHOOSE k \in ends : \A m \in ends : k <= m

\* The place behind the statement of C that begins at i.
RECURSIVE End(_, _)
End(t, i) ==
    CASE t[i] = "do" -> Behind(t, End(t, i + 1) + 1) + 1
      [] t[i] = "if" -> LET then == End(t, Behind(t, i + 1))
                        IN  IF then <= Len(t) /\ t[then] = "else" THEN End(t, then + 1) ELSE then
      [] t[i] = "while" -> End(t, Behind(t, i + 1))
      [] t[i] = "try" -> LET catch == Behind(t, i + 1) IN Behind(t, Behind(t, catch + 1))
      [] t[i] = "struct" -> Behind(t, i + 1) + 1
      [] t[i] = "{" -> Behind(t, i)
      [] t[i] = "word" -> Behind(t, i + 1) + 1
      [] OTHER -> i + 1

RECURSIVE Split(_, _)
Split(t, i) == IF i > Len(t) THEN <<>> ELSE <<SubSeq(t, i, End(t, i) - 1)>> \o Split(t, End(t, i))

\* Within one statement of a text a lexeme of A comes before one of B.
Within(A, B) ==
    \E i, j \in DOMAIN read : /\ i < j /\ read[i] \in A /\ read[j] \in B
                              /\ \A k \in i .. j : read[k] \notin {";", "{", "}"}

\* The body of a do is no statement of several parts, and no else is followed
\* by one.
Plain ==
    /\ ~Within({"do", "else"}, {"do", "try"})
    /\ ~(Within({"do"}, {"if"}) /\ Contains(read, "else"))

\* Blocks whose statements FixThree has looked at: all but those of a catch.
RECURSIVE Fixed(_)
Fixed(b) ==
    {b} \union UNION {
        UNION {Fixed(blocks[b][k][m].statements) :
            m \in {m \in DOMAIN blocks[b][k] :
                     /\ blocks[b][k][m].statements # 0
                     /\ \A c \in 1 .. m : blocks[b][k][c].lexem # "catch"}} :
            k \in DOMAIN blocks[b]}

\* The tree holds the text: read out in order, the blocks and brackets give
\* the lexemes that were added, while they are added and after FixThree, and
\* none is lost, doubled or moved.
TreeHoldsText ==
    ~mismatched =>
        /\ status = "read" =>
             FlattenSeq([k \in DOMAIN statement_stack |-> BlockText(blocks[statement_stack[k]])])
                 \o BlockText(blocks[current_statement]) \o ListText(lexem_list) = read
        /\ status = "done" /\ lexem_list = <<>> => BlockText(blocks[1]) = read

\* After FixThree the statements of each block are those of C, an if with its
\* else, a do with its while and a try with its catch being one.
StatementsWhole ==
    status = "done" /\ program # <<>> /\ Plain =>
        \A b \in Fixed(1) :
            [k \in DOMAIN blocks[b] |-> ListText(blocks[b][k])] = Split(BlockText(blocks[b]), 1)

\* FixThree never meets a null pointer or an else without a statement in a
\* program of C, and in any text for the named reasons only.
NeverUndefined ==
    /\ program # <<>> => status # "undefined"
    /\ UndefinedExplained
=============================================================================
