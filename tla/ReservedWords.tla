---------------------------- MODULE ReservedWords ----------------------------
(***************************************************************************)
(* The hash of reserved words: create_hash enters the words one by one,    *)
(* find_reserved_word looks one up.  A slot is tried after the other, from *)
(* the word's hash value on; both give up after a number of slots, and     *)
(* create_hash then drops the word without a sign.                         *)
(*                                                                         *)
(* The words are the numbers 1 .. WORDS_COUNT, in the order of the array   *)
(* "operators"; 0 is an empty slot or an empty answer, WORDS_COUNT + 1 a   *)
(* word that is not reserved.                                              *)
(***************************************************************************)
EXTENDS Integers

CONSTANTS
    WORDS_COUNT,   \* number of reserved words
    HASH_SIZE,     \* number of slots
    Hash,          \* the hash value of each word
    InsertProbes,  \* slots tried behind the first when a word is entered
    FindProbes     \* slots tried when a word is looked up

Words == 1 .. WORDS_COUNT
Slots == 0 .. HASH_SIZE - 1

ASSUME HashAssumption ==
    /\ WORDS_COUNT \in Nat \ {0} /\ HASH_SIZE \in Nat \ {0}
    /\ InsertProbes \in Nat /\ FindProbes \in Nat
    /\ Hash \in [Words -> Slots]

VARIABLES
    words_hash,  \* the slots
    phase,       \* "create", "ready", "find" or "found"
    word, hash,  \* the word that is entered or looked up, and its hash value
    probe,       \* slots tried
    result       \* the answer of find_reserved_word

vars == <<words_hash, phase, word, hash, probe, result>>

Slot(h, k) == (h + k) % HASH_SIZE

Init ==
    /\ words_hash = [s \in Slots |-> 0]
    /\ phase = "create"
    /\ word = 1
    /\ hash = Hash[1]
    /\ probe = 0
    /\ result = 0

\* create_hash goes on to the next word, or is done.
NextWord ==
    /\ word' = word + 1
    /\ hash' = IF word = WORDS_COUNT THEN hash ELSE Hash[word + 1]
    /\ probe' = 0
    /\ phase' = IF word = WORDS_COUNT THEN "ready" ELSE phase

\* Mutant: an occupied slot is taken.
TakeOver ==
    /\ phase = "create" /\ word \in Words
    /\ words_hash' = [words_hash EXCEPT ![Slot(hash, probe)] = word]
    /\ NextWord
    /\ UNCHANGED result

\* The slot is free: the word is entered.
Enter ==
    /\ phase = "create" /\ word \in Words
    /\ words_hash[Slot(hash, probe)] = 0
    /\ words_hash' = [words_hash EXCEPT ![Slot(hash, probe)] = word]
    /\ NextWord
    /\ UNCHANGED result

\* The slot is taken: the next one is tried.
Collide ==
    /\ phase = "create" /\ word \in Words
    /\ words_hash[Slot(hash, probe)] # 0
    /\ probe < InsertProbes
    /\ probe' = probe + 1
    /\ UNCHANGED <<words_hash, phase, word, hash, result>>

\* All slots tried are taken: the word is not entered.
Drop ==
    /\ phase = "create" /\ word \in Words
    /\ words_hash[Slot(hash, probe)] # 0
    /\ probe >= InsertProbes
    /\ NextWord
    /\ UNCHANGED <<words_hash, result>>

\* find_reserved_word(w), of a reserved word or of any other word.
Find(w, h) ==
    /\ phase \in {"ready", "found"}
    /\ w \in Words => h = Hash[w]
    /\ phase' = "find"
    /\ word' = w
    /\ hash' = h
    /\ probe' = 0
    /\ result' = 0
    /\ UNCHANGED words_hash

\* Mutant: one slot less is tried.
GiveUpEarly == probe + 1 >= FindProbes \/ words_hash[Slot(hash, probe)] = 0

\* The search ends without an answer.
GiveUp == probe >= FindProbes \/ words_hash[Slot(hash, probe)] = 0

Probe ==
    /\ phase = "find"
    /\ IF GiveUp
       THEN phase' = "found" /\ UNCHANGED <<probe, result>>
       ELSE IF words_hash[Slot(hash, probe)] = word
       THEN phase' = "found" /\ result' = word /\ UNCHANGED probe
       ELSE probe' = probe + 1 /\ UNCHANGED <<phase, result>>
    /\ UNCHANGED <<words_hash, word, hash>>

Next ==
    \/ Enter \/ Collide \/ Drop \/ Probe
    \/ \E w \in 1 .. WORDS_COUNT + 1, h \in Slots : Find(w, h)

Spec == Init /\ [][Next]_vars
-----------------------------------------------------------------------------
TypeOK ==
    /\ words_hash \in [Slots -> 0 .. WORDS_COUNT]
    /\ phase \in {"create", "ready", "find", "found"}
    /\ word \in 1 .. WORDS_COUNT + 1
    /\ hash \in Slots
    /\ probe \in Nat
    /\ result \in 0 .. WORDS_COUNT

\* w stands in one of the slots a search with hash value h tries.
Near(w, h) == \E k \in 0 .. FindProbes - 1 : words_hash[Slot(h, k)] = w

\* A search answers with the word exactly when the word is in one of the
\* slots it may try: no free slot lies before a word that was entered, so a
\* search never ends too early, and words that are not reserved get no answer.
SearchExact == phase = "found" => result = IF Near(word, hash) THEN word ELSE 0
=============================================================================
