--------------------------- MODULE MCReservedWords ---------------------------
(***************************************************************************)
(* Two tables of reserved words, one after the other: the program's, with  *)
(* the hash values get_hash_value gives the 63 words of "operators" (asm   *)
(* first, while last), which is only created; then a crowded one, the      *)
(* constants of the run, in which words are dropped or entered out of      *)
(* reach, and which is searched as well.  And the TokenWriter, which is    *)
(* given the words the tables are for; it runs while the tables rest.      *)
(***************************************************************************)
EXTENDS Vocabulary

VARIABLES
    program_hash, program_phase, program_word, program_value, program_probe

MCHash ==
    <<80, 102, 97, 102, 21, 97, 4, 67, 73, 58, 34, 31, 120, 32, 100, 40, 90,
      118, 71, 50, 85, 84, 44, 84, 84, 15, 93, 19, 10, 68, 59, 48, 67, 88, 89,
      110, 97, 121, 120, 26, 99, 73, 87, 23, 123, 104, 9, 36, 65, 76, 79, 2,
      52, 105, 103, 70, 10, 69, 92, 60, 58, 44, 61>>

CrowdedHash == [w \in 1 .. 13 |-> (w * w + w) % 15]

P == INSTANCE ReservedWords WITH
        WORDS_COUNT <- 63, HASH_SIZE <- 125, Hash <- MCHash,
        InsertProbes <- 10, FindProbes <- 10,
        words_hash <- program_hash, phase <- program_phase, word <- program_word,
        hash <- program_value, probe <- program_probe, result <- 0

program == <<program_hash, program_phase, program_word, program_value, program_probe>>

MCInit == Init /\ P!Init /\ W!Init

MCNext ==
    \/ /\ program_phase = "create" /\ read = <<>>
       /\ P!Enter \/ P!Collide \/ P!Drop
       /\ UNCHANGED <<vars, written>>
    \/ /\ program_phase = "ready"
       /\ Next
       /\ UNCHANGED <<program, written>>
    \/ /\ program_phase = "create" /\ program_word = 1 /\ program_probe = 0
       /\ W!Next
       /\ UNCHANGED <<vars, program>>

MCSpec == MCInit /\ [][MCNext]_<<vars, program, written>>

\* Every reserved word of the program is entered where a search finds it:
\* none is dropped, and none is put behind the last slot a search tries.
AllFound ==
    program_phase = "ready" => \A w \in P!Words : P!Near(w, MCHash[w])
=============================================================================
