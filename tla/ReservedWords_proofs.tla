------------------------ MODULE ReservedWords_proofs ------------------------
(* What create_hash and find_reserved_word promise for every set of words,   *)
(* every hash function and every number of probes.  At the end, about        *)
(* TokenWriter: built-in types are those of C, whatever words are read.      *)
EXTENDS Vocabulary, Sequences, SequenceTheorems, FiniteSetTheorems, WellFoundedInduction, TLAPS

\* A word that was entered stands behind taken slots only.
Chain ==
    \A s \in Slots : words_hash[s] # 0 =>
        \E k \in 0 .. InsertProbes :
            /\ s = Slot(Hash[words_hash[s]], k)
            /\ \A m \in 0 .. k - 1 : words_hash[Slot(Hash[words_hash[s]], m)] # 0

\* The hash value that is used belongs to the word.
HashOfWord == phase # "ready" /\ word \in Words => hash = Hash[word]

\* The slots tried so far for the word that is entered are taken.
Entering ==
    phase = "create" =>
        /\ probe <= InsertProbes
        /\ word \in Words
        /\ \A m \in 0 .. probe - 1 : words_hash[Slot(hash, m)] # 0

\* The slots tried so far for the word that is looked up are taken by others.
Searching ==
    phase = "find" =>
        /\ \A m \in 0 .. probe - 1 : words_hash[Slot(hash, m)] \notin {0, word}
        /\ result = 0

IInv == TypeOK /\ Chain /\ HashOfWord /\ Entering /\ Searching /\ SearchExact

\* The slots a probe visits are slots of the table.
LEMMA SlotInTable ==
    ASSUME NEW h \in Slots, NEW k \in Nat
    PROVE  Slot(h, k) \in Slots
<1>1. HASH_SIZE \in Nat \ {0}
  BY HashAssumption
<1>2. h + k \in Int
  BY DEF Slots
<1> QED BY <1>1, <1>2 DEF Slot, Slots

\* Initially the table is empty and the first word is about to be entered.
LEMMA InitHolds == Init => IInv
<1> SUFFICES ASSUME Init PROVE IInv
  OBVIOUS
<1>1. 1 \in Words /\ Hash[1] \in Slots
  BY HashAssumption DEF Words
<1>2. TypeOK
  BY <1>1, HashAssumption DEF Init, TypeOK, Words
<1> QED BY <1>1, <1>2, HashAssumption DEF Init, IInv, Chain, HashOfWord, Entering, Searching, SearchExact

\* The next word has its own hash value, and no slot was tried for it.
LEMMA NextWordHolds ==
    ASSUME TypeOK, HashOfWord, phase = "create", word \in Words, NextWord,
           words_hash' \in [Slots -> 0 .. WORDS_COUNT], result' = result
    PROVE  TypeOK' /\ HashOfWord' /\ Entering' /\ Searching' /\ SearchExact'
<1>1. CASE word = WORDS_COUNT
  <2>1. phase' = "ready" /\ word' = word + 1 /\ hash' = hash /\ probe' = 0
    BY <1>1 DEF NextWord
  <2>2. TypeOK'
    BY <1>1, <2>1, HashAssumption DEF TypeOK
  <2> QED BY <2>1, <2>2 DEF HashOfWord, Entering, Searching, SearchExact
<1>2. CASE word # WORDS_COUNT
  <2>1. phase' = "create" /\ word' = word + 1 /\ hash' = Hash[word + 1] /\ probe' = 0
    BY <1>2 DEF NextWord
  <2>2. word + 1 \in Words
    BY <1>2, HashAssumption DEF Words
  <2>3. Hash[word + 1] \in Slots
    BY <2>2, HashAssumption
  <2>4. TypeOK'
    BY <2>1, <2>2, <2>3, HashAssumption DEF TypeOK, Words
  <2> QED BY <2>1, <2>2, <2>4, HashAssumption DEF HashOfWord, Entering, Searching, SearchExact
<1> QED BY <1>1, <1>2

LEMMA EnterHolds == IInv /\ Enter => IInv'
<1> SUFFICES ASSUME IInv, Enter PROVE IInv'
  OBVIOUS
<1> DEFINE at == Slot(hash, probe)
<1>1. at \in Slots
  BY SlotInTable DEF IInv, TypeOK
<1>2. word \in Words /\ word # 0 /\ hash = Hash[word]
  BY DEF IInv, Enter, HashOfWord, Words
<1>3. words_hash' = [words_hash EXCEPT ![at] = word] /\ words_hash[at] = 0
  BY DEF Enter
<1>4. words_hash' \in [Slots -> 0 .. WORDS_COUNT]
  BY <1>1, <1>2, <1>3 DEF IInv, TypeOK, Words
<1>5. \A s \in Slots : words_hash[s] # 0 => words_hash'[s] = words_hash[s]
  BY <1>1, <1>3 DEF IInv, TypeOK
<1>6. \A s \in Slots : words_hash[s] # 0 => words_hash'[s] # 0
  BY <1>5
<1>7. ASSUME NEW s \in Slots, words_hash'[s] # 0
      PROVE  \E k \in 0 .. InsertProbes :
                /\ s = Slot(Hash[words_hash'[s]], k)
                /\ \A m \in 0 .. k - 1 : words_hash'[Slot(Hash[words_hash'[s]], m)] # 0
  <2>1. CASE s = at
    <3>1. words_hash'[s] = word
      BY <1>1, <1>3, <2>1 DEF IInv, TypeOK
    <3>2. probe \in 0 .. InsertProbes
      BY HashAssumption DEF IInv, Entering, TypeOK, Enter
    <3>3. ASSUME NEW m \in 0 .. probe - 1
          PROVE  words_hash'[Slot(hash, m)] # 0
      <4>1. m \in Nat /\ hash \in Slots
        BY DEF IInv, TypeOK
      <4>2. Slot(hash, m) \in Slots
        BY <4>1, SlotInTable
      <4>3. words_hash[Slot(hash, m)] # 0
        BY <3>3 DEF IInv, Entering, Enter
      <4> QED BY <4>2, <4>3, <1>6
    <3>4. s = Slot(Hash[words_hash'[s]], probe)
      BY <2>1, <3>1, <1>2
    <3> QED BY <3>1, <3>2, <3>3, <3>4, <1>2
  <2>2. CASE s # at
    <3>1. words_hash'[s] = words_hash[s]
      BY <1>1, <1>3, <2>2 DEF IInv, TypeOK
    <3>2. words_hash[s] \in Words
      BY <3>1, <1>7 DEF IInv, TypeOK, Words
    <3>3. Hash[words_hash[s]] \in Slots
      BY <3>2, HashAssumption
    <3>4. PICK k \in 0 .. InsertProbes :
             /\ s = Slot(Hash[words_hash[s]], k)
             /\ \A m \in 0 .. k - 1 : words_hash[Slot(Hash[words_hash[s]], m)] # 0
      BY <3>1, <1>7 DEF IInv, Chain
    <3>5. ASSUME NEW m \in 0 .. k - 1
          PROVE  words_hash'[Slot(Hash[words_hash[s]], m)] # 0
      <4>1. Slot(Hash[words_hash[s]], m) \in Slots
        BY <3>3, SlotInTable
      <4> QED BY <4>1, <3>4, <1>6
    <3> QED BY <3>1, <3>4, <3>5
  <2> QED BY <2>1, <2>2
<1>8. Chain'
  BY <1>7 DEF Chain
<1>9. TypeOK' /\ HashOfWord' /\ Entering' /\ Searching' /\ SearchExact'
  BY <1>4, NextWordHolds DEF IInv, Enter
<1> QED BY <1>8, <1>9 DEF IInv

LEMMA CollideHolds == IInv /\ Collide => IInv'
<1> SUFFICES ASSUME IInv, Collide PROVE IInv'
  OBVIOUS
<1>1. TypeOK'
  BY DEF IInv, Collide, TypeOK
<1>2. Chain'
  BY DEF IInv, Collide, Chain
<1>3. Entering'
  <2>1. ASSUME NEW m \in 0 .. probe
        PROVE  words_hash[Slot(hash, m)] # 0
    BY DEF IInv, Collide, Entering, TypeOK
  <2> QED BY <2>1, HashAssumption DEF IInv, Collide, Entering, TypeOK
<1> QED BY <1>1, <1>2, <1>3 DEF IInv, Collide, HashOfWord, Searching, SearchExact

LEMMA DropHolds == IInv /\ Drop => IInv'
<1> SUFFICES ASSUME IInv, Drop PROVE IInv'
  OBVIOUS
<1>1. words_hash' = words_hash /\ result' = result
  BY DEF Drop
<1>2. TypeOK' /\ HashOfWord' /\ Entering' /\ Searching' /\ SearchExact'
  BY <1>1, NextWordHolds DEF IInv, Drop, TypeOK
<1>3. Chain'
  BY <1>1 DEF IInv, Chain
<1> QED BY <1>2, <1>3 DEF IInv

LEMMA FindHolds ==
    ASSUME IInv, NEW w \in 1 .. WORDS_COUNT + 1, NEW h \in Slots, Find(w, h)
    PROVE  IInv'
<1>1. TypeOK'
  BY HashAssumption DEF IInv, Find, TypeOK
<1>2. Chain'
  BY DEF IInv, Find, Chain
<1> QED BY <1>1, <1>2 DEF IInv, Find, HashOfWord, Entering, Searching, SearchExact

\* A search that meets a free slot has passed every slot its word may be in.
LEMMA FreeSlotEnds ==
    ASSUME IInv, phase = "find", words_hash[Slot(hash, probe)] = 0
    PROVE  ~Near(word, hash)
<1> SUFFICES ASSUME NEW n \in 0 .. FindProbes - 1, words_hash[Slot(hash, n)] = word
             PROVE  FALSE
  BY DEF Near
<1> DEFINE s == Slot(hash, n)
<1>1. s \in Slots
  BY SlotInTable DEF IInv, TypeOK
<1>2. word \in Words /\ words_hash[s] # 0
  BY <1>1 DEF IInv, TypeOK, Words
<1>3. hash = Hash[words_hash[s]]
  BY <1>2 DEF IInv, HashOfWord
<1>4. PICK k \in 0 .. InsertProbes :
         /\ s = Slot(hash, k)
         /\ \A m \in 0 .. k - 1 : words_hash[Slot(hash, m)] # 0
  BY <1>1, <1>2, <1>3 DEF IInv, Chain
<1>5. probe \in Nat /\ k \in Nat
  BY HashAssumption DEF IInv, TypeOK
<1>6. CASE probe < k
  BY <1>4, <1>5, <1>6
<1>7. CASE probe = k
  BY <1>2, <1>4, <1>7
<1>8. CASE probe > k
  <2>1. k \in 0 .. probe - 1
    BY <1>5, <1>8
  <2> QED BY <2>1, <1>4 DEF IInv, Searching
<1> QED BY <1>5, <1>6, <1>7, <1>8

LEMMA ProbeHolds == IInv /\ Probe => IInv'
<1> SUFFICES ASSUME IInv, Probe PROVE IInv'
  OBVIOUS
<1>1. /\ phase = "find"
      /\ words_hash' = words_hash /\ word' = word /\ hash' = hash
  BY DEF Probe
<1>2. Near(word, hash)' = Near(word, hash)
  BY <1>1 DEF Near
<1>3. Slot(hash, probe) \in Slots
  BY SlotInTable DEF IInv, TypeOK
<1>4. Chain'
  BY <1>1 DEF IInv, Chain
<1>5. CASE GiveUp
  <2>1. phase' = "found" /\ probe' = probe /\ result' = 0
    BY <1>1, <1>5 DEF Probe, IInv, Searching
  <2>2. ~Near(word, hash)
    <3>1. CASE probe >= FindProbes
      <4>1. ASSUME NEW n \in 0 .. FindProbes - 1
            PROVE  words_hash[Slot(hash, n)] # word
        <5>1. n \in 0 .. probe - 1
          BY <3>1, HashAssumption DEF IInv, TypeOK
        <5> QED BY <5>1, <1>1 DEF IInv, Searching
      <4> QED BY <4>1 DEF Near
    <3>2. CASE words_hash[Slot(hash, probe)] = 0
      BY <3>2, <1>1, FreeSlotEnds
    <3> QED BY <3>1, <3>2, <1>5 DEF GiveUp
  <2>3. TypeOK'
    BY <1>1, <2>1, HashAssumption DEF IInv, TypeOK
  <2> QED BY <1>1, <1>2, <1>4, <2>1, <2>2, <2>3
          DEF IInv, HashOfWord, Entering, Searching, SearchExact
<1>6. CASE ~GiveUp /\ words_hash[Slot(hash, probe)] = word
  <2>1. phase' = "found" /\ probe' = probe /\ result' = word
    BY <1>6 DEF Probe
  <2>2. Near(word, hash)
    <3>1. probe \in 0 .. FindProbes - 1
      BY <1>6, HashAssumption DEF GiveUp, IInv, TypeOK
    <3> QED BY <3>1, <1>6 DEF Near
  <2>3. TypeOK'
    <3>1. word \in 0 .. WORDS_COUNT
      BY <1>3, <1>6 DEF IInv, TypeOK
    <3> QED BY <1>1, <2>1, <3>1 DEF IInv, TypeOK
  <2> QED BY <1>1, <1>2, <1>4, <2>1, <2>2, <2>3
          DEF IInv, HashOfWord, Entering, Searching, SearchExact
<1>7. CASE ~GiveUp /\ words_hash[Slot(hash, probe)] # word
  <2>1. phase' = "find" /\ probe' = probe + 1 /\ result' = result
    BY <1>1, <1>7 DEF Probe
  <2>2. TypeOK'
    BY <1>1, <2>1 DEF IInv, TypeOK
  <2>3. ASSUME NEW m \in 0 .. probe
        PROVE  words_hash[Slot(hash, m)] \notin {0, word}
    <3>1. CASE m = probe
      BY <3>1, <1>7 DEF GiveUp
    <3>2. CASE m # probe
      BY <3>2, <1>1 DEF IInv, Searching, TypeOK
    <3> QED BY <3>1, <3>2
  <2>4. Searching'
    BY <1>1, <2>1, <2>3 DEF IInv, Searching, TypeOK
  <2> QED BY <1>1, <1>4, <2>1, <2>2, <2>4
          DEF IInv, HashOfWord, Entering, SearchExact
<1> QED BY <1>5, <1>6, <1>7

\* A search of the hash finds a word exactly when the word was entered within
\* reach of it, for every hash function, table size and number of probes; the
\* table never holds anything but reserved words.
THEOREM SearchCorrect == Spec => [](TypeOK /\ SearchExact)
<1>1. IInv /\ [Next]_vars => IInv'
  <2> SUFFICES ASSUME IInv, [Next]_vars PROVE IInv'
    OBVIOUS
  <2>1. CASE UNCHANGED vars
    BY <2>1 DEF IInv, vars, TypeOK, Chain, HashOfWord, Entering, Searching, SearchExact, Near
  <2>2. CASE \E w \in 1 .. WORDS_COUNT + 1, h \in Slots : Find(w, h)
    BY <2>2, FindHolds
  <2> QED BY <2>1, <2>2, EnterHolds, CollideHolds, DropHolds, ProbeHolds DEF Next
<1>2. IInv => TypeOK /\ SearchExact
  BY DEF IInv
<1> QED BY InitHolds, <1>1, <1>2, PTL DEF Spec
-----------------------------------------------------------------------------
(* TokenWriter, of any sequence of words in the queue.                     *)

LEMMA SameCardinality == ASSUME NEW S PROVE W!Cardinality(S) = Cardinality(S)
BY Zenon DEF W!Cardinality, Cardinality

LEMMA CountIsNat ==
    ASSUME NEW q \in Seq(W!Specifiers), NEW w
    PROVE  /\ IsFiniteSet({k \in 1 .. Len(q) : q[k] = w})
           /\ W!Count(q, w) \in Nat
           /\ W!Count(q, w) > 0 <=> \E k \in 1 .. Len(q) : q[k] = w
<1> DEFINE at == {k \in 1 .. Len(q) : q[k] = w}
<1>1. IsFiniteSet(1 .. Len(q)) /\ at \in SUBSET (1 .. Len(q))
  BY FS_Interval
<1>2. IsFiniteSet(at)
  BY <1>1, FS_Subset
<1>3. Cardinality(at) \in Nat /\ (Cardinality(at) = 0 <=> at = {})
  BY <1>2, FS_CardinalityType, FS_EmptySet
<1>4. W!Count(q, w) = Cardinality(at)
  BY SameCardinality DEF W!Count
<1>5. at # {} <=> \E k \in 1 .. Len(q) : q[k] = w
  OBVIOUS
<1> HIDE DEF at
<1>6. W!Count(q, w) \in Nat /\ (W!Count(q, w) > 0 <=> at # {})
  BY <1>3, <1>4
<1> QED BY <1>2, <1>5, <1>6 DEF at

\* A queue holds one word w if it holds w once and no other.
LEMMA OneWord ==
    ASSUME NEW q \in Seq(W!Specifiers), NEW w \in W!Specifiers, W!Count(q, w) > 0
    PROVE  Len(q) = 1 <=> /\ W!Count(q, w) = 1
                          /\ \A v \in W!Specifiers \ {w} : W!Count(q, v) = 0
<1> DEFINE at == {k \in 1 .. Len(q) : q[k] = w}
<1>1. IsFiniteSet(1 .. Len(q)) /\ Cardinality(1 .. Len(q)) = Len(q) /\ Len(q) \in Nat
  <2>1. Len(q) \in Nat
    OBVIOUS
  <2>2. 1 \in Int /\ Len(q) \in Int /\ (IF 1 > Len(q) THEN 0 ELSE Len(q) - 1 + 1) = Len(q)
    BY <2>1
  <2> QED BY <2>1, <2>2, FS_Interval
<1>2. W!Count(q, w) = Cardinality(at)
  <2>1. DOMAIN q = 1 .. Len(q)
    OBVIOUS
  <2> QED BY <2>1, SameCardinality, Zenon DEF W!Count
<1>3. PICK n \in 1 .. Len(q) : q[n] = w
  BY CountIsNat
<1>4. ASSUME Len(q) = 1
      PROVE  W!Count(q, w) = 1 /\ \A v \in W!Specifiers \ {w} : W!Count(q, v) = 0
  <2>1. n = 1 /\ at = {1}
    BY <1>3, <1>4
  <2>2. Cardinality(at) = 1
    BY <2>1, FS_Singleton
  <2>3. ASSUME NEW v \in W!Specifiers \ {w} PROVE W!Count(q, v) = 0
    <3>1. \A k \in 1 .. Len(q) : q[k] = w
      BY <1>1, <1>3, <1>4
    <3>2. ~(\E k \in 1 .. Len(q) : q[k] = v)
      BY <3>1
    <3>3. W!Count(q, v) \in Nat /\ ~(W!Count(q, v) > 0)
      BY <3>2, CountIsNat
    <3> QED BY <3>3
  <2> QED BY <1>2, <2>2, <2>3
<1>5. ASSUME W!Count(q, w) = 1, \A v \in W!Specifiers \ {w} : W!Count(q, v) = 0
      PROVE  Len(q) = 1
  <2>1. ASSUME NEW k \in 1 .. Len(q) PROVE q[k] = w
    <3>1. q[k] \in W!Specifiers
      OBVIOUS
    <3>2. W!Count(q, q[k]) > 0
      BY CountIsNat
    <3> QED BY <1>5, <3>1, <3>2
  <2>2. at = 1 .. Len(q)
    BY <2>1
  <2> QED BY <1>1, <1>2, <1>5, <2>2
<1> QED BY <1>4, <1>5

\* Which words stand for a type, as numbers of words: bool, char, double,
\* float, short, int, long, signed, unsigned.
Row(must, may, long, u, s) ==
    [must |-> must, may |-> may, long |-> long, u |-> u, s |-> s]

Sign == {"signed", "unsigned"}
Bool == Row({"bool"}, {}, 0, "bool", "bool")
Float == Row({"float"}, {}, 0, "float", "float")
Double == Row({"double"}, {}, 0, "double", "double")
LongDouble == Row({"double"}, {}, 1, "double", "double")
Char == Row({"char"}, Sign, 0, "uchar", "char")
Short == Row({"short"}, Sign \union {"int"}, 0, "ushort", "short")
Int0 == Row({}, Sign \union {"int"}, 0, "uint", "int")
Long == Row({}, Sign \union {"int"}, 1, "ulong", "long")
LongLong == Row({}, Sign \union {"int"}, 2, "ullong", "llong")

LEMMA Rows ==
    W!CTypes = {Bool, Float, Double, LongDouble, Char, Short, Int0, Long, LongLong}
BY Zenon DEF W!CTypes, Row, Sign, Bool, Float, Double, LongDouble, Char, Short, Int0, Long, LongLong

LEMMA RowStands ==
    ASSUME NEW q \in Seq(W!Specifiers), NEW must, NEW may, NEW long, NEW u, NEW s,
           must \subseteq W!Specifiers \ {"long"}
    PROVE  W!Stands(Row(must, may, long, u, s), q) <=>
               /\ \A w \in W!Specifiers \ {"long"} :
                      /\ w \in must => W!Count(q, w) > 0
                      /\ w \notin must \union may => W!Count(q, w) = 0
               /\ long = W!Count(q, "long")
               /\ W!Count(q, "signed") = 0 \/ W!Count(q, "unsigned") = 0
<1> DEFINE t == Row(must, may, long, u, s)
<1>1. t.must = must /\ t.may = may /\ t.long = long
  BY DEF Row
<1> HIDE DEF t
<1>2. \A w : W!Count(q, w) \in Nat
  BY CountIsNat
<1>3. \A w \in W!Specifiers \ {"long"} :
          /\ w \in W!Present(q) <=> W!Count(q, w) > 0
          /\ w \notin W!Present(q) <=> W!Count(q, w) = 0
  BY <1>2 DEF W!Present
<1>4. {"signed", "unsigned"} \subseteq W!Specifiers \ {"long"}
  BY DEF W!Specifiers
<1>5. W!Present(q) \subseteq W!Specifiers \ {"long"}
  BY DEF W!Present
<1>6. W!Stands(t, q) <=>
          /\ must \subseteq W!Present(q) /\ W!Present(q) \subseteq must \union may
          /\ long = W!Count(q, "long")
          /\ ~({"signed", "unsigned"} \subseteq W!Present(q))
  BY <1>1, Zenon DEF W!Stands
<1>7. ~({"signed", "unsigned"} \subseteq W!Present(q))
          <=> W!Count(q, "signed") = 0 \/ W!Count(q, "unsigned") = 0
  BY <1>3, <1>4
<1>8. must \subseteq W!Present(q) /\ W!Present(q) \subseteq must \union may <=>
          \A w \in W!Specifiers \ {"long"} :
              /\ w \in must => W!Count(q, w) > 0
              /\ w \notin must \union may => W!Count(q, w) = 0
  BY <1>3, <1>5
<1> QED BY <1>6, <1>7, <1>8 DEF t

\* No word of S is in q.
Without(q, S) == \A w \in S : W!Count(q, w) = 0

OneSign(q) == W!Count(q, "signed") = 0 \/ W!Count(q, "unsigned") = 0

LEMMA WhichRow ==
    ASSUME NEW q \in Seq(W!Specifiers)
    PROVE  /\ W!Stands(Bool, q) <=>
                  W!Count(q, "bool") > 0 /\ Without(q, W!Specifiers \ {"bool"})
           /\ W!Stands(Float, q) <=>
                  W!Count(q, "float") > 0 /\ Without(q, W!Specifiers \ {"float"})
           /\ W!Stands(Double, q) <=>
                  W!Count(q, "double") > 0 /\ Without(q, W!Specifiers \ {"double"})
           /\ W!Stands(LongDouble, q) <=>
                  /\ W!Count(q, "double") > 0 /\ W!Count(q, "long") = 1
                  /\ Without(q, W!Specifiers \ {"double", "long"})
           /\ W!Stands(Char, q) <=>
                  /\ W!Count(q, "char") > 0 /\ OneSign(q)
                  /\ Without(q, W!Specifiers \ {"char", "signed", "unsigned"})
           /\ W!Stands(Short, q) <=>
                  /\ W!Count(q, "short") > 0 /\ OneSign(q)
                  /\ Without(q, {"bool", "char", "double", "float", "long"})
           /\ W!Stands(Int0, q) <=>
                  /\ W!Count(q, "long") = 0 /\ OneSign(q)
                  /\ Without(q, {"bool", "char", "double", "float", "short"})
           /\ W!Stands(Long, q) <=>
                  /\ W!Count(q, "long") = 1 /\ OneSign(q)
                  /\ Without(q, {"bool", "char", "double", "float", "short"})
           /\ W!Stands(LongLong, q) <=>
                  /\ W!Count(q, "long") = 2 /\ OneSign(q)
                  /\ Without(q, {"bool", "char", "double", "float", "short"})
<1>1. \A w : W!Count(q, w) \in Nat
  BY CountIsNat
<1> DEFINE Narrow(must, may) == \A w \in W!Specifiers \ {"long"} :
               /\ w \in must => W!Count(q, w) > 0
               /\ w \notin must \union may => W!Count(q, w) = 0
<1>2. W!Stands(Bool, q) <=> Narrow({"bool"}, {}) /\ 0 = W!Count(q, "long") /\ OneSign(q)
  BY RowStands DEF Bool, OneSign, W!Specifiers
<1>3. W!Stands(Float, q) <=> Narrow({"float"}, {}) /\ 0 = W!Count(q, "long") /\ OneSign(q)
  BY RowStands DEF Float, OneSign, W!Specifiers
<1>4. W!Stands(Double, q) <=> Narrow({"double"}, {}) /\ 0 = W!Count(q, "long") /\ OneSign(q)
  BY RowStands DEF Double, OneSign, W!Specifiers
<1>5. W!Stands(LongDouble, q) <=> Narrow({"double"}, {}) /\ 1 = W!Count(q, "long") /\ OneSign(q)
  BY RowStands DEF LongDouble, OneSign, W!Specifiers
<1>6. W!Stands(Char, q) <=> Narrow({"char"}, Sign) /\ 0 = W!Count(q, "long") /\ OneSign(q)
  BY RowStands DEF Char, OneSign, W!Specifiers
<1>7. W!Stands(Short, q) <=>
          Narrow({"short"}, Sign \union {"int"}) /\ 0 = W!Count(q, "long") /\ OneSign(q)
  BY RowStands DEF Short, OneSign, W!Specifiers
<1>8. W!Stands(Int0, q) <=>
          Narrow({}, Sign \union {"int"}) /\ 0 = W!Count(q, "long") /\ OneSign(q)
  BY RowStands DEF Int0, OneSign
<1>9. W!Stands(Long, q) <=>
          Narrow({}, Sign \union {"int"}) /\ 1 = W!Count(q, "long") /\ OneSign(q)
  BY RowStands DEF Long, OneSign
<1>10. W!Stands(LongLong, q) <=>
          Narrow({}, Sign \union {"int"}) /\ 2 = W!Count(q, "long") /\ OneSign(q)
  BY RowStands DEF LongLong, OneSign
<1>11. Narrow({"bool"}, {}) /\ 0 = W!Count(q, "long") /\ OneSign(q) <=>
           W!Count(q, "bool") > 0 /\ Without(q, W!Specifiers \ {"bool"})
  BY <1>1 DEF Without, OneSign, W!Specifiers
<1>12. Narrow({"float"}, {}) /\ 0 = W!Count(q, "long") /\ OneSign(q) <=>
           W!Count(q, "float") > 0 /\ Without(q, W!Specifiers \ {"float"})
  BY <1>1 DEF Without, OneSign, W!Specifiers
<1>13. Narrow({"double"}, {}) /\ 0 = W!Count(q, "long") /\ OneSign(q) <=>
           W!Count(q, "double") > 0 /\ Without(q, W!Specifiers \ {"double"})
  BY <1>1 DEF Without, OneSign, W!Specifiers
<1>14. Narrow({"double"}, {}) /\ 1 = W!Count(q, "long") /\ OneSign(q) <=>
           /\ W!Count(q, "double") > 0 /\ W!Count(q, "long") = 1
           /\ Without(q, W!Specifiers \ {"double", "long"})
  BY <1>1 DEF Without, OneSign, W!Specifiers
<1>15. Narrow({"char"}, Sign) /\ 0 = W!Count(q, "long") <=>
           /\ W!Count(q, "char") > 0
           /\ Without(q, W!Specifiers \ {"char", "signed", "unsigned"})
  BY <1>1 DEF Without, Sign, W!Specifiers
<1>16. Narrow({"short"}, Sign \union {"int"}) /\ 0 = W!Count(q, "long") <=>
           W!Count(q, "short") > 0 /\ Without(q, {"bool", "char", "double", "float", "long"})
  BY <1>1 DEF Without, Sign, W!Specifiers
<1>17. Narrow({}, Sign \union {"int"}) <=>
           Without(q, {"bool", "char", "double", "float", "short"})
  BY <1>1 DEF Without, Sign, W!Specifiers
<1> HIDE DEF Narrow
<1>18. \A k \in {0, 1, 2} : k = W!Count(q, "long") <=> W!Count(q, "long") = k
  OBVIOUS
<1> QED
  BY <1>2, <1>3, <1>4, <1>5, <1>6, <1>7, <1>8, <1>9, <1>10, <1>11, <1>12, <1>13, <1>14,
     <1>15, <1>16, <1>17, <1>18

\* The only row that stands for q gives its type.
LEMMA TheRow ==
    ASSUME NEW q, NEW t \in W!CTypes, W!Stands(t, q),
           \A r \in W!CTypes : W!Stands(r, q) => r = t,
           \A w \in W!Present(q) : ~(W!Count(q, w) > 1)
    PROVE  W!CType(q) = IF "unsigned" \in W!Present(q) THEN t.u ELSE t.s
<1>1. (CHOOSE r \in W!CTypes : W!Stands(r, q)) = t
  OBVIOUS
<1>2. ~(\A r \in W!CTypes : ~W!Stands(r, q))
  OBVIOUS
<1> QED BY <1>1, <1>2, Zenon DEF W!CType

\* What is chosen when there is neither bool nor both signs.
Chosen(q) ==
    LET n(w) == W!Count(q, w)
        U(unsigned, signed) == IF n("unsigned") > 0 THEN unsigned ELSE signed
    IN  IF n("int") > 1 THEN "error"
        ELSE IF n("double") > 0
        THEN IF n("signed") + n("unsigned") + n("char") + n("short") + n("int") + n("float") > 0
                \/ n("double") > 1 \/ n("long") > 1 THEN "error" ELSE "double"
        ELSE IF n("float") > 0
        THEN IF n("signed") + n("unsigned") + n("char") + n("short") + n("int") + n("long") > 0
                \/ n("float") > 1 THEN "error" ELSE "float"
        ELSE IF n("char") > 0
        THEN IF n("short") + n("int") + n("long") > 0 \/ n("char") > 1 THEN "error"
             ELSE U("uchar", "char")
        ELSE IF n("short") > 0
        THEN IF n("long") > 0 \/ n("short") > 1 THEN "error" ELSE U("ushort", "short")
        ELSE IF n("long") = 0 THEN U("uint", "int")
        ELSE IF n("long") = 1 THEN U("ulong", "long")
        ELSE IF n("long") = 2 THEN U("ullong", "llong") ELSE "error"

LEMMA TranslateIs ==
    ASSUME NEW q
    PROVE  /\ W!Count(q, "bool") > 0 =>
                  W!Translate(q) = IF Len(q) = 1 THEN "bool" ELSE "error"
           /\ W!Count(q, "bool") = 0 /\ W!Count(q, "signed") > 0 /\ W!Count(q, "unsigned") > 0
                  => W!Translate(q) = "error"
           /\ W!Count(q, "bool") = 0 /\ ~(W!Count(q, "signed") > 0 /\ W!Count(q, "unsigned") > 0)
                  => W!Translate(q) = Chosen(q)
<1> DEFINE n == [w \in W!Specifiers |-> W!Count(q, w)]
           U(unsigned, signed) == IF n["unsigned"] > 0 THEN unsigned ELSE signed
           Last == CASE n["long"] = 0 -> U("uint", "int")
                     [] n["long"] = 1 -> U("ulong", "long")
                     [] n["long"] = 2 -> U("ullong", "llong")
                     [] OTHER -> "error"
           Rest == IF n["int"] > 1 THEN "error"
             ELSE IF n["double"] > 0
             THEN IF n["signed"] + n["unsigned"] + n["char"] + n["short"] + n["int"] + n["float"] > 0
                     \/ n["double"] > 1 \/ n["long"] > 1 THEN "error" ELSE "double"
             ELSE IF n["float"] > 0
             THEN IF n["signed"] + n["unsigned"] + n["char"] + n["short"] + n["int"] + n["long"] > 0
                     \/ n["float"] > 1 THEN "error" ELSE "float"
             ELSE IF n["char"] > 0
             THEN IF n["short"] + n["int"] + n["long"] > 0 \/ n["char"] > 1 THEN "error"
                  ELSE U("uchar", "char")
             ELSE IF n["short"] > 0
             THEN IF n["long"] > 0 \/ n["short"] > 1 THEN "error" ELSE U("ushort", "short")
             ELSE Last
<1>1. \A w \in {"bool", "char", "double", "float", "short", "int", "long", "signed", "unsigned"} :
          n[w] = W!Count(q, w)
  BY DEF W!Specifiers
<1>2. W!Translate(q) =
          CASE n["bool"] > 0 -> IF Len(q) = 1 THEN "bool" ELSE "error"
            [] n["bool"] = 0 /\ n["signed"] > 0 /\ n["unsigned"] > 0 -> "error"
            [] n["bool"] = 0 /\ ~(n["signed"] > 0 /\ n["unsigned"] > 0) -> Rest
  BY Zenon DEF W!Translate
<1>3. Last = IF W!Count(q, "long") = 0 THEN U("uint", "int")
             ELSE IF W!Count(q, "long") = 1 THEN U("ulong", "long")
             ELSE IF W!Count(q, "long") = 2 THEN U("ullong", "llong") ELSE "error"
  <2> HIDE DEF n, U
  <2>1. n["long"] = W!Count(q, "long")
    BY <1>1
  <2>2. ~(0 = 1) /\ ~(0 = 2) /\ ~(1 = 2)
    OBVIOUS
  <2>3. CASE W!Count(q, "long") = 0
    <3>1. n["long"] = 0 /\ n["long"] # 1 /\ n["long"] # 2
      BY <2>1, <2>3
    <3> QED BY <2>3, <3>1, Zenon
  <2>4. CASE W!Count(q, "long") = 1
    <3>1. n["long"] = 1 /\ n["long"] # 0 /\ n["long"] # 2
      BY <2>1, <2>4
    <3> QED BY <2>2, <2>4, <3>1, Zenon
  <2>5. CASE W!Count(q, "long") = 2
    <3>1. n["long"] = 2 /\ n["long"] # 0 /\ n["long"] # 1
      BY <2>1, <2>5
    <3>2. W!Count(q, "long") # 0 /\ W!Count(q, "long") # 1
      BY <2>5
    <3> QED BY <2>5, <3>1, <3>2, Zenon
  <2>6. CASE W!Count(q, "long") \notin {0, 1, 2}
    <3>1. n["long"] # 2 /\ n["long"] # 0 /\ n["long"] # 1
      BY <2>1, <2>6
    <3>2. W!Count(q, "long") # 0 /\ W!Count(q, "long") # 1 /\ W!Count(q, "long") # 2
      BY <2>6
    <3> QED BY <3>1, <3>2, Zenon
  <2> QED BY <2>3, <2>4, <2>5, <2>6
<1>4. \A u, s : U(u, s) = IF W!Count(q, "unsigned") > 0 THEN u ELSE s
  BY <1>1, Zenon
<1> HIDE DEF n, U, Last
<1>5. Rest = Chosen(q)
  BY <1>1, <1>3, <1>4 DEF Chosen
<1> HIDE DEF Rest
<1>6. n["bool"] = W!Count(q, "bool") /\ n["signed"] = W!Count(q, "signed")
          /\ n["unsigned"] = W!Count(q, "unsigned")
  BY <1>1
<1>7. ~(0 > 0)
  OBVIOUS
<1>8. ASSUME W!Count(q, "bool") > 0
      PROVE  W!Translate(q) = IF Len(q) = 1 THEN "bool" ELSE "error"
  <2>1. W!Count(q, "bool") # 0
    BY <1>8
  <2> QED BY <1>2, <1>6, <1>8, <2>1, Zenon
<1>9. ASSUME W!Count(q, "bool") = 0, W!Count(q, "signed") > 0, W!Count(q, "unsigned") > 0
      PROVE  W!Translate(q) = "error"
  BY <1>2, <1>6, <1>7, <1>9, Zenon
<1>10. ASSUME W!Count(q, "bool") = 0, ~(W!Count(q, "signed") > 0 /\ W!Count(q, "unsigned") > 0)
       PROVE  W!Translate(q) = Chosen(q)
  BY <1>2, <1>5, <1>6, <1>7, <1>10, Zenon
<1> QED BY <1>8, <1>9, <1>10

\* Two rows never stand for the same words.
LEMMA OneRow ==
    ASSUME NEW q \in Seq(W!Specifiers), NEW t \in W!CTypes, NEW r \in W!CTypes,
           W!Stands(t, q), W!Stands(r, q)
    PROVE  r = t
<1>1. \A w : W!Count(q, w) \in Nat
  BY CountIsNat
<1>2. t \in {Bool, Float, Double, LongDouble, Char, Short, Int0, Long, LongLong}
      /\ r \in {Bool, Float, Double, LongDouble, Char, Short, Int0, Long, LongLong}
  BY Rows
<1> DEFINE Key(b, f, d, c, s, l) ==
        /\ b <=> W!Count(q, "bool") > 0
        /\ f <=> W!Count(q, "float") > 0
        /\ d <=> W!Count(q, "double") > 0
        /\ c <=> W!Count(q, "char") > 0
        /\ s <=> W!Count(q, "short") > 0
        /\ l = W!Count(q, "long")
<1>3. /\ W!Stands(Bool, q) => Key(TRUE, FALSE, FALSE, FALSE, FALSE, 0)
      /\ W!Stands(Float, q) => Key(FALSE, TRUE, FALSE, FALSE, FALSE, 0)
      /\ W!Stands(Double, q) => Key(FALSE, FALSE, TRUE, FALSE, FALSE, 0)
      /\ W!Stands(LongDouble, q) => Key(FALSE, FALSE, TRUE, FALSE, FALSE, 1)
      /\ W!Stands(Char, q) => Key(FALSE, FALSE, FALSE, TRUE, FALSE, 0)
      /\ W!Stands(Short, q) => Key(FALSE, FALSE, FALSE, FALSE, TRUE, 0)
      /\ W!Stands(Int0, q) => Key(FALSE, FALSE, FALSE, FALSE, FALSE, 0)
      /\ W!Stands(Long, q) => Key(FALSE, FALSE, FALSE, FALSE, FALSE, 1)
      /\ W!Stands(LongLong, q) => Key(FALSE, FALSE, FALSE, FALSE, FALSE, 2)
  BY <1>1, WhichRow DEF Without, W!Specifiers
<1> QED BY <1>2, <1>3

\* What the rows give, and when.
LEMMA RowGives ==
    ASSUME NEW q \in Seq(W!Specifiers), NEW t \in W!CTypes, W!Stands(t, q),
           \A w \in W!Specifiers \ {"long"} : W!Count(q, w) <= 1
    PROVE  W!CType(q) = IF W!Count(q, "unsigned") > 0 THEN t.u ELSE t.s
<1>1. \A w : W!Count(q, w) \in Nat
  BY CountIsNat
<1>2. \A w \in W!Present(q) : ~(W!Count(q, w) > 1)
  BY <1>1 DEF W!Present
<1>3. "unsigned" \in W!Present(q) <=> W!Count(q, "unsigned") > 0
  BY DEF W!Present, W!Specifiers
<1>4. \A r \in W!CTypes : W!Stands(r, q) => r = t
  BY OneRow
<1>5. W!CType(q) = IF "unsigned" \in W!Present(q) THEN t.u ELSE t.s
  BY <1>2, <1>4, TheRow
<1> QED BY <1>3, <1>5

LEMMA NoRowGives ==
    ASSUME NEW q \in Seq(W!Specifiers),
           \/ \A t \in W!CTypes : ~W!Stands(t, q)
           \/ \E w \in W!Specifiers \ {"long"} : W!Count(q, w) > 1
    PROVE  W!CType(q) = "error"
<1>1. \A w : W!Count(q, w) \in Nat
  BY CountIsNat
<1>2. (\E w \in W!Specifiers \ {"long"} : W!Count(q, w) > 1)
          => \E w \in W!Present(q) : W!Count(q, w) > 1
  BY <1>1 DEF W!Present
<1> QED BY <1>2, Zenon DEF W!CType

\* translate_builtin_types gives any sequence of words its type in C.
LEMMA TranslatesAsInC ==
    ASSUME NEW q \in Seq(W!Specifiers),
           W!Count(q, "signed") <= 1, W!Count(q, "unsigned") <= 1
    PROVE  W!Translate(q) = W!CType(q)
<1> DEFINE N(w) == W!Count(q, w)
           Once == \A w \in W!Specifiers \ {"long"} : N(w) <= 1
           Res(u, s) == IF N("unsigned") > 0 THEN u ELSE s
<1>1. \A w : N(w) \in Nat
  BY CountIsNat
<1>2. \/ \E t \in W!CTypes : W!Stands(t, q) /\ Once
      \/ /\ ~(Once /\ \E t \in W!CTypes : W!Stands(t, q))
         /\ W!CType(q) = "error"
  BY <1>1, NoRowGives
<1>3. CASE N("bool") > 0
  <2>1. W!Translate(q) = IF Len(q) = 1 THEN "bool" ELSE "error"
    BY <1>3, TranslateIs
  <2>2. Len(q) = 1 <=> N("bool") = 1 /\ Without(q, W!Specifiers \ {"bool"})
    BY <1>3, OneWord DEF Without, W!Specifiers
  <2>3. CASE Len(q) = 1
    <3>1. W!Stands(Bool, q) /\ Bool \in W!CTypes
      BY <1>3, <2>2, <2>3, WhichRow, Rows
    <3>2. Once
      BY <2>2, <2>3 DEF Without
    <3>3. Bool.u = "bool" /\ Bool.s = "bool"
      BY DEF Bool, Row
    <3> QED BY <2>1, <2>3, <3>1, <3>2, <3>3, RowGives
  <2>4. CASE Len(q) # 1
    <3>1. ~Once \/ ~Without(q, W!Specifiers \ {"bool"})
      BY <1>1, <1>3, <2>2, <2>4 DEF W!Specifiers
    <3>2. ASSUME NEW t \in W!CTypes, W!Stands(t, q)
          PROVE  Without(q, W!Specifiers \ {"bool"})
      <4>1. t \in {Bool, Float, Double, LongDouble, Char, Short, Int0, Long, LongLong}
        BY <3>2, Rows
      <4>2. N("bool") # 0
        BY <1>3
      <4>3. \A S : Without(q, S) => "bool" \notin S
        BY <4>2 DEF Without
      <4>4. "bool" \in W!Specifiers
        BY DEF W!Specifiers
      <4>5. \A S \in {{"bool", "char", "double", "float", "short"},
                      {"bool", "char", "double", "float", "long"},
                      W!Specifiers \ {"float"}, W!Specifiers \ {"double"},
                      W!Specifiers \ {"double", "long"},
                      W!Specifiers \ {"char", "signed", "unsigned"}} : ~Without(q, S)
        BY <4>3, <4>4
      <4>6. t = Bool
        BY <3>2, <4>1, <4>5, WhichRow
      <4> QED BY <3>2, <4>6, WhichRow
    <3> QED BY <1>2, <2>1, <2>4, <3>1, <3>2
  <2> QED BY <2>3, <2>4
<1>4. CASE N("bool") = 0 /\ N("signed") > 0 /\ N("unsigned") > 0
  <2>1. W!Translate(q) = "error"
    BY <1>4, TranslateIs
  <2>2. ASSUME NEW t \in W!CTypes, W!Stands(t, q)
        PROVE  FALSE
    <3>1. t \in {Bool, Float, Double, LongDouble, Char, Short, Int0, Long, LongLong}
      BY Rows
    <3>2. ~OneSign(q)
      BY <1>4 DEF OneSign
    <3>3. \A S : Without(q, S) => "signed" \notin S
      BY <1>4 DEF Without
    <3>4. "signed" \in W!Specifiers
      BY DEF W!Specifiers
    <3> QED BY <2>2, <3>1, <3>2, <3>3, <3>4, WhichRow
  <2> QED BY <1>2, <2>1, <2>2
<1>5. CASE N("bool") = 0 /\ ~(N("signed") > 0 /\ N("unsigned") > 0)
  <2>1. W!Translate(q) = Chosen(q)
    BY <1>5, TranslateIs
  <2>2. OneSign(q)
    BY <1>1, <1>5 DEF OneSign
  <2>3. \A u, s : Res(u, s) = IF W!Count(q, "unsigned") > 0 THEN u ELSE s
    OBVIOUS
  <2>4. ASSUME Once, NEW t \in W!CTypes, W!Stands(t, q) PROVE Chosen(q) = Res(t.u, t.s)
    <3>1. \A w \in {"bool", "char", "double", "float", "short", "int", "signed", "unsigned"} :
              W!Count(q, w) \in {0, 1}
      BY <1>1, <2>4 DEF W!Specifiers
    <3>2. W!Count(q, "long") \in Nat
      BY <1>1
    <3>3. CASE t = Float
      <4>1. t.u = "float" /\ t.s = "float"
        BY <3>3 DEF Float, Row
      <4>2. W!Stands(Float, q)
        BY <2>4, <3>3
      <4> QED
        BY <3>1, <3>2, <4>1, <4>2, WhichRow DEF Chosen, Without, W!Specifiers
    <3>4. CASE t = Double
      <4>1. t.u = "double" /\ t.s = "double"
        BY <3>4 DEF Double, Row
      <4>2. W!Stands(Double, q)
        BY <2>4, <3>4
      <4> QED
        BY <3>1, <3>2, <4>1, <4>2, WhichRow DEF Chosen, Without, W!Specifiers
    <3>5. CASE t = LongDouble
      <4>1. t.u = "double" /\ t.s = "double"
        BY <3>5 DEF LongDouble, Row
      <4>2. W!Stands(LongDouble, q)
        BY <2>4, <3>5
      <4> QED
        BY <3>1, <3>2, <4>1, <4>2, WhichRow DEF Chosen, Without, W!Specifiers
    <3>6. CASE t = Char
      <4>1. t.u = "uchar" /\ t.s = "char"
        BY <3>6 DEF Char, Row
      <4>2. W!Stands(Char, q)
        BY <2>4, <3>6
      <4> QED
        BY <3>1, <3>2, <4>1, <4>2, WhichRow DEF Chosen, Without, W!Specifiers
    <3>7. CASE t = Short
      <4>1. t.u = "ushort" /\ t.s = "short"
        BY <3>7 DEF Short, Row
      <4>2. W!Stands(Short, q)
        BY <2>4, <3>7
      <4> QED
        BY <3>1, <3>2, <4>1, <4>2, WhichRow DEF Chosen, Without, W!Specifiers
    <3>8. CASE t = Int0
      <4>1. t.u = "uint" /\ t.s = "int"
        BY <3>8 DEF Int0, Row
      <4>2. W!Stands(Int0, q)
        BY <2>4, <3>8
      <4> QED
        BY <3>1, <3>2, <4>1, <4>2, WhichRow DEF Chosen, Without, W!Specifiers
    <3>9. CASE t = Long
      <4>1. t.u = "ulong" /\ t.s = "long"
        BY <3>9 DEF Long, Row
      <4>2. W!Stands(Long, q)
        BY <2>4, <3>9
      <4> QED
        BY <3>1, <3>2, <4>1, <4>2, WhichRow DEF Chosen, Without, W!Specifiers
    <3>10. CASE t = LongLong
      <4>1. t.u = "ullong" /\ t.s = "llong"
        BY <3>10 DEF LongLong, Row
      <4>2. W!Stands(LongLong, q)
        BY <2>4, <3>10
      <4> QED
        BY <3>1, <3>2, <4>1, <4>2, WhichRow DEF Chosen, Without, W!Specifiers
    <3>11. t # Bool
      BY <1>5, <2>4, WhichRow
    <3> QED BY <3>3, <3>4, <3>5, <3>6, <3>7, <3>8, <3>9, <3>10, <3>11, Rows
  <2>5. ASSUME ~(Once /\ \E t \in W!CTypes : W!Stands(t, q)) PROVE Chosen(q) = "error"
    <3>1. {Float, Double, LongDouble, Char, Short, Int0, Long, LongLong} \subseteq W!CTypes
      BY Rows
    <3>2. ASSUME Once
          PROVE  /\ ~W!Stands(Float, q) /\ ~W!Stands(Double, q) /\ ~W!Stands(LongDouble, q)
                 /\ ~W!Stands(Char, q) /\ ~W!Stands(Short, q) /\ ~W!Stands(Int0, q)
                 /\ ~W!Stands(Long, q) /\ ~W!Stands(LongLong, q)
      BY <2>5, <3>1, <3>2
    <3>3. \A w \in W!Specifiers : W!Count(q, w) \in Nat
      BY <1>1
    <3>4. W!Count(q, "signed") <= 1 /\ W!Count(q, "unsigned") <= 1
          /\ (W!Count(q, "signed") = 0 \/ W!Count(q, "unsigned") = 0) /\ W!Count(q, "bool") = 0
      BY <1>5, <2>2 DEF OneSign
    <3>5. CASE Once
      <4>1. W!Count(q, "float") > 0 => \E w \in W!Specifiers \ {"float"} : W!Count(q, w) > 0
        BY <3>2, <3>3, <3>5, WhichRow DEF Without
      <4>2. W!Count(q, "double") > 0 =>
                /\ \E w \in W!Specifiers \ {"double"} : W!Count(q, w) > 0
                /\ W!Count(q, "long") = 1 =>
                       \E w \in W!Specifiers \ {"double", "long"} : W!Count(q, w) > 0
        BY <3>2, <3>3, <3>5, WhichRow DEF Without
      <4>3. W!Count(q, "char") > 0 =>
                \E w \in W!Specifiers \ {"char", "signed", "unsigned"} : W!Count(q, w) > 0
        BY <2>2, <3>2, <3>3, <3>5, WhichRow DEF Without
      <4>4. W!Count(q, "short") > 0 =>
                \E w \in {"bool", "char", "double", "float", "long"} : W!Count(q, w) > 0
        BY <2>2, <3>2, <3>3, <3>5, WhichRow DEF Without, W!Specifiers
      <4>5. W!Count(q, "long") \in {0, 1, 2} =>
                \E w \in {"bool", "char", "double", "float", "short"} : W!Count(q, w) > 0
        BY <2>2, <3>2, <3>3, <3>5, WhichRow DEF Without, W!Specifiers
      <4>6. W!Count(q, "float") > 0 =>
                \/ W!Count(q, "signed") > 0 \/ W!Count(q, "unsigned") > 0 \/ W!Count(q, "char") > 0
                \/ W!Count(q, "short") > 0 \/ W!Count(q, "int") > 0 \/ W!Count(q, "long") > 0
                \/ W!Count(q, "double") > 0
        BY <3>3, <3>4, <4>1 DEF W!Specifiers
      <4>7. W!Count(q, "double") > 0 =>
                \/ W!Count(q, "signed") > 0 \/ W!Count(q, "unsigned") > 0 \/ W!Count(q, "char") > 0
                \/ W!Count(q, "short") > 0 \/ W!Count(q, "int") > 0 \/ W!Count(q, "float") > 0
                \/ W!Count(q, "long") > 0
        BY <3>3, <3>4, <4>2 DEF W!Specifiers
      <4>8. W!Count(q, "double") > 0 /\ W!Count(q, "long") = 1 =>
                \/ W!Count(q, "signed") > 0 \/ W!Count(q, "unsigned") > 0 \/ W!Count(q, "char") > 0
                \/ W!Count(q, "short") > 0 \/ W!Count(q, "int") > 0 \/ W!Count(q, "float") > 0
        BY <3>3, <3>4, <4>2 DEF W!Specifiers
      <4>9. W!Count(q, "char") > 0 =>
                \/ W!Count(q, "short") > 0 \/ W!Count(q, "int") > 0 \/ W!Count(q, "long") > 0
                \/ W!Count(q, "double") > 0 \/ W!Count(q, "float") > 0
        BY <3>3, <3>4, <4>3 DEF W!Specifiers
      <4>10. W!Count(q, "short") > 0 =>
                \/ W!Count(q, "char") > 0 \/ W!Count(q, "double") > 0 \/ W!Count(q, "float") > 0
                \/ W!Count(q, "long") > 0
        BY <3>3, <3>4, <4>4 DEF W!Specifiers
      <4>11. W!Count(q, "long") \in {0, 1, 2} =>
                \/ W!Count(q, "char") > 0 \/ W!Count(q, "double") > 0 \/ W!Count(q, "float") > 0
                \/ W!Count(q, "short") > 0
        BY <3>3, <3>4, <4>5 DEF W!Specifiers
      <4>12. /\ W!Count(q, "char") \in Nat /\ W!Count(q, "double") \in Nat
             /\ W!Count(q, "float") \in Nat /\ W!Count(q, "short") \in Nat
             /\ W!Count(q, "int") \in Nat /\ W!Count(q, "long") \in Nat
             /\ W!Count(q, "signed") \in Nat /\ W!Count(q, "unsigned") \in Nat
        BY <3>3 DEF W!Specifiers
      <4>13. CASE W!Count(q, "double") > 0
        BY <4>7, <4>8, <4>12, <4>13 DEF Chosen
      <4>14. CASE ~(W!Count(q, "double") > 0) /\ W!Count(q, "float") > 0
        BY <4>6, <4>12, <4>14 DEF Chosen
      <4>15. CASE /\ ~(W!Count(q, "double") > 0) /\ ~(W!Count(q, "float") > 0)
                  /\ W!Count(q, "char") > 0
        BY <4>9, <4>12, <4>15 DEF Chosen
      <4>16. CASE /\ ~(W!Count(q, "double") > 0) /\ ~(W!Count(q, "float") > 0)
                  /\ ~(W!Count(q, "char") > 0) /\ W!Count(q, "short") > 0
        BY <4>10, <4>12, <4>16 DEF Chosen
      <4>17. CASE /\ ~(W!Count(q, "double") > 0) /\ ~(W!Count(q, "float") > 0)
                  /\ ~(W!Count(q, "char") > 0) /\ ~(W!Count(q, "short") > 0)
        <5>1. ~(W!Count(q, "long") \in {0, 1, 2})
          BY <4>11, <4>17
        <5> QED BY <4>12, <4>17, <5>1 DEF Chosen
      <4> QED BY <4>13, <4>14, <4>15, <4>16, <4>17
    <3>6. CASE ~Once
      <4>1. \/ W!Count(q, "char") > 1 \/ W!Count(q, "double") > 1 \/ W!Count(q, "float") > 1
            \/ W!Count(q, "short") > 1 \/ W!Count(q, "int") > 1
        BY <3>3, <3>4, <3>6 DEF W!Specifiers
      <4> QED BY <3>3, <3>4, <4>1 DEF Chosen, W!Specifiers
    <3> QED BY <3>5, <3>6
  <2>6. ASSUME Once, NEW t \in W!CTypes, W!Stands(t, q) PROVE W!CType(q) = Res(t.u, t.s)
    BY <2>6, RowGives
  <2> HIDE DEF Res, Once
  <2> QED BY <1>2, <2>1, <2>4, <2>5, <2>6
<1> QED BY <1>1, <1>3, <1>4, <1>5

\* Whatever is read, the queue holds words of built-in types only.
Queued == queue \in Seq(W!Specifiers)

LEMMA InitQueued == W!Init => Queued
BY DEF W!Init, Queued

LEMMA StepQueued == Queued /\ [W!Next]_(W!vars) => Queued'
<1> SUFFICES ASSUME Queued, [W!Next]_(W!vars) PROVE Queued'
  OBVIOUS
<1>1. CASE UNCHANGED W!vars
  BY <1>1 DEF W!vars, Queued
<1>2. CASE W!Next
  <2>1. PICK token, line : W!append_lexem(token, line)
    BY <1>2 DEF W!Next
  <2>2. CASE W!Collect(token)
    BY <2>2 DEF W!Collect, Queued
  <2>3. CASE W!Close(token, line)
    BY <2>3 DEF W!Close, Queued
  <2>4. CASE W!PostfixConst(token) \/ W!Defer(token)
    BY <2>4 DEF W!PostfixConst, W!Defer, Queued
  <2>5. CASE W!TagFollowed(token, line) \/ W!Plain(token, line)
    BY <2>5 DEF W!TagFollowed, W!Plain, Queued
  <2> QED BY <2>1, <2>2, <2>3, <2>4, <2>5 DEF W!append_lexem
<1> QED BY <1>1, <1>2

\* For every stream of tokens: translate_builtin_types gives the words that
\* append_lexem collected, however many and in whatever order, the type they
\* have in C, and refuses those that have none.
THEOREM BuiltinTypesAsInC == W!Spec => []TypesAsInC
<1>1. Queued => TypesAsInC
  BY TranslatesAsInC DEF Queued, TypesAsInC, W!TypesAsInC
<1> QED BY <1>1, InitQueued, StepQueued, PTL DEF W!Spec
-----------------------------------------------------------------------------
(* TokenWriter, of all that is written.  The words that wait are followed    *)
(* along the tokens: what a token stands for depends on those before it and  *)
(* on the next one only.                                                     *)

\* A set of naturals that is not empty has a least member.
LEMMA Least ==
    ASSUME NEW S, S \subseteq Nat, S # {}
    PROVE  \E n \in S : \A m \in S : n <= m
<1> DEFINE I == {0 .. n : n \in S}
<1>1. I \subseteq FiniteSubsetsOf(Nat) /\ I # {}
  <2>1. \A n \in S : IsFiniteSet(0 .. n) /\ 0 .. n \in SUBSET Nat
    BY FS_Interval
  <2> QED BY <2>1 DEF FiniteSubsetsOf
<1>2. PICK x \in I : \A y \in I : <<y, x>> \notin StrictSubsetOrdering(Nat)
  <2> HIDE DEF I
  <2>1. IsWellFoundedOn(StrictSubsetOrdering(Nat), FiniteSubsetsOf(Nat))
    BY FS_StrictSubsetOrderingWellFounded
  <2> QED BY <1>1, <2>1, WFMin
<1>3. PICK n \in S : x = 0 .. n
  OBVIOUS
<1>4. ASSUME NEW m \in S, ~(n <= m) PROVE FALSE
  <2>1. 0 .. m \in I /\ 0 .. m \subseteq 0 .. n /\ n \in 0 .. n /\ n \notin 0 .. m
    BY <1>4
  <2>2. <<0 .. m, 0 .. n>> \in StrictSubsetOrdering(Nat)
    <3>1. <<0 .. m, 0 .. n>> \in (SUBSET Nat) \X (SUBSET Nat)
      BY <2>1
    <3> QED BY <2>1, <3>1 DEF StrictSubsetOrdering
  <2> QED BY <1>2, <1>3, <2>1, <2>2
<1> QED BY <1>4

\* The function f by which FlattenSeq joins the first n sequences of s.
Flattens(f, s, n) == f = [k \in 1 .. n |-> IF k = 1 THEN s[k] ELSE f[k - 1] \o s[k]]

Agree(s, t, n) == \A k \in 1 .. n : s[k] = t[k]

LEMMA FlattensExist ==
    ASSUME NEW s, NEW n \in Nat
    PROVE  \E f : Flattens(f, s, n)
<1> DEFINE S == {m \in Nat : ~\E f : Flattens(f, s, m)}
<1> SUFFICES ASSUME S # {} PROVE FALSE
  OBVIOUS
<1>1. PICK m \in S : \A l \in S : m <= l
  BY Least
<1>2. CASE m = 0
  <2> DEFINE f == [k \in 1 .. 0 |-> s[k]]
  <2>1. f = [k \in 1 .. 0 |-> IF k = 1 THEN s[k] ELSE f[k - 1] \o s[k]]
    OBVIOUS
  <2> QED BY <1>2, <2>1 DEF Flattens
<1>3. CASE m # 0
  <2>1. m \in Nat /\ m - 1 \in Nat /\ ~(m <= m - 1)
    BY <1>3
  <2>2. m - 1 \notin S
    BY <1>1, <2>1
  <2>3. PICK g : Flattens(g, s, m - 1)
    BY <2>1, <2>2
  <2> DEFINE f == [k \in 1 .. m |-> IF k = 1 THEN s[k] ELSE g[k - 1] \o s[k]]
  <2>4. ASSUME NEW k \in 1 .. m - 1 PROVE f[k] = g[k]
    <3>1. k \in 1 .. m
      BY <2>1
    <3>2. f[k] = IF k = 1 THEN s[k] ELSE g[k - 1] \o s[k]
      BY <3>1
    <3>3. g[k] = IF k = 1 THEN s[k] ELSE g[k - 1] \o s[k]
      BY <2>3 DEF Flattens
    <3> QED BY <3>2, <3>3
  <2>5. f = [k \in 1 .. m |-> IF k = 1 THEN s[k] ELSE f[k - 1] \o s[k]]
    <3>1. \A k \in 1 .. m : k # 1 => k - 1 \in 1 .. m - 1
      BY <2>1
    <3>2. \A k \in 1 .. m : k # 1 => f[k - 1] \o s[k] = g[k - 1] \o s[k]
      BY <2>4, <3>1
    <3> QED BY <3>2
  <2> QED BY <2>5 DEF Flattens
<1> QED BY <1>2, <1>3

LEMMA FlattensTo ==
    ASSUME NEW s, Len(s) \in Nat, Len(s) # 0
    PROVE  \E f : Flattens(f, s, Len(s)) /\ W!FlattenSeq(s) = f[Len(s)]
<1> DEFINE f == CHOOSE f : f = [k \in 1 .. Len(s) |-> IF k = 1 THEN s[k] ELSE f[k - 1] \o s[k]]
<1>1. W!FlattenSeq(s) = f[Len(s)]
  BY DEF W!FlattenSeq
<1>2. Flattens(f, s, Len(s))
  BY FlattensExist DEF Flattens
<1> QED BY <1>1, <1>2

LEMMA FlattensAgree ==
    ASSUME NEW s, NEW t, NEW m \in Nat, NEW n \in Nat, m <= n,
           Agree(s, t, m), NEW f, Flattens(f, s, m), NEW g, Flattens(g, t, n)
    PROVE  Agree(f, g, m)
<1> DEFINE S == {k \in 1 .. m : f[k] # g[k]}
<1> SUFFICES ASSUME S # {} PROVE FALSE
  BY DEF Agree
<1>1. PICK k \in S : \A l \in S : k <= l
  <2>1. S \subseteq Nat
    OBVIOUS
  <2> HIDE DEF S
  <2> QED BY <2>1, Least
<1>2. k \in 1 .. m /\ k \in 1 .. n /\ f[k] # g[k] /\ s[k] = t[k]
  BY DEF Agree
<1>3. f[k] = IF k = 1 THEN s[k] ELSE f[k - 1] \o s[k]
  BY <1>2 DEF Flattens
<1>4. g[k] = IF k = 1 THEN t[k] ELSE g[k - 1] \o t[k]
  BY <1>2 DEF Flattens
<1>5. k # 1
  BY <1>2, <1>3, <1>4
<1>6. k - 1 \in 1 .. m /\ ~(k <= k - 1)
  BY <1>2, <1>5
<1>7. f[k - 1] = g[k - 1]
  BY <1>1, <1>6
<1> QED BY <1>2, <1>3, <1>4, <1>7, Zenon

LEMMA Flattened ==
    ASSUME NEW T, NEW s \in Seq(Seq(T))
    PROVE  W!FlattenSeq(s) \in Seq(T)
<1>1. CASE Len(s) = 0
  <2>1. s = <<>>
    BY <1>1
  <2> QED BY <1>1, <2>1 DEF W!FlattenSeq
<1>2. CASE Len(s) # 0
  <2>1. PICK f : Flattens(f, s, Len(s)) /\ W!FlattenSeq(s) = f[Len(s)]
    BY <1>2, FlattensTo
  <2> DEFINE S == {k \in 1 .. Len(s) : f[k] \notin Seq(T)}
  <2>2. ASSUME S # {} PROVE FALSE
    <3>1. PICK k \in S : \A l \in S : k <= l
      <4>1. S \subseteq Nat
        OBVIOUS
      <4> HIDE DEF S
      <4> QED BY <2>2, <4>1, Least
    <3>2. k \in 1 .. Len(s) /\ f[k] \notin Seq(T) /\ s[k] \in Seq(T)
      OBVIOUS
    <3>3. f[k] = IF k = 1 THEN s[k] ELSE f[k - 1] \o s[k]
      BY <2>1, <3>2 DEF Flattens
    <3>4. k # 1
      BY <3>2, <3>3
    <3>5. k - 1 \in 1 .. Len(s) /\ ~(k <= k - 1)
      BY <3>2, <3>4
    <3>6. f[k - 1] \in Seq(T)
      BY <3>1, <3>5
    <3>7. f[k - 1] \o s[k] \in Seq(T)
      BY <3>2, <3>6
    <3> QED BY <3>2, <3>3, <3>4, <3>7
  <2>3. Len(s) \in 1 .. Len(s)
    BY <1>2
  <2> QED BY <2>1, <2>2, <2>3
<1> QED BY <1>1, <1>2

\* The sequences t are the n sequences s, of members of T, and one more.
Continue(T, n, s, t) ==
    /\ n \in Nat /\ s \in Seq(Seq(T)) /\ Len(s) = n
    /\ Len(t) = n + 1 /\ t[n + 1] \in Seq(T) /\ Agree(s, t, n)

LEMMA FlattenedLast ==
    ASSUME NEW T, NEW n, NEW s, NEW t, Continue(T, n, s, t)
    PROVE  W!FlattenSeq(t) = W!FlattenSeq(s) \o t[n + 1]
<1> USE DEF Continue
<1>1. n + 1 \in Nat /\ n + 1 # 0 /\ n + 1 \in 1 .. n + 1 /\ n <= n + 1
  OBVIOUS
<1>2. PICK g : Flattens(g, t, n + 1) /\ W!FlattenSeq(t) = g[n + 1]
  BY <1>1, FlattensTo
<1>3. g[n + 1] = IF n + 1 = 1 THEN t[n + 1] ELSE g[n + 1 - 1] \o t[n + 1]
  <2> DEFINE m == n + 1
  <2>1. Flattens(g, t, m) /\ m \in 1 .. m
    BY <1>1, <1>2
  <2> HIDE DEF m
  <2>2. g[m] = IF m = 1 THEN t[m] ELSE g[m - 1] \o t[m]
    BY <2>1 DEF Flattens
  <2> QED BY <2>2 DEF m
<1>4. CASE n = 0
  <2>1. s = <<>>
    BY <1>4
  <2>2. W!FlattenSeq(s) = <<>>
    BY <1>4, <2>1 DEF W!FlattenSeq
  <2>3. <<>> \o t[n + 1] = t[n + 1]
    OBVIOUS
  <2> QED BY <1>2, <1>3, <1>4, <2>2, <2>3
<1>5. CASE n # 0
  <2>1. PICK f : Flattens(f, s, n) /\ W!FlattenSeq(s) = f[n]
    BY <1>5, FlattensTo
  <2>2. Agree(f, g, n)
    BY <1>1, <1>2, <2>1, FlattensAgree, Zenon
  <2>3. n \in 1 .. n /\ n + 1 # 1 /\ n + 1 - 1 = n
    BY <1>5
  <2>4. f[n] = g[n]
    BY <2>2, <2>3 DEF Agree
  <2> QED BY <1>2, <1>3, <2>1, <2>3, <2>4
<1> QED BY <1>4, <1>5

LEMMA FlattenedMore ==
    ASSUME NEW T, NEW s \in Seq(Seq(T)), NEW e \in Seq(T)
    PROVE  W!FlattenSeq(Append(s, e)) = W!FlattenSeq(s) \o e
<1>1. PICK t, n : t = Append(s, e) /\ n = Len(s)
  OBVIOUS
<1>2. Len(t) = n + 1 /\ n \in Nat /\ t[n + 1] = e /\ Agree(s, t, n)
  BY <1>1 DEF Agree
<1>3. W!FlattenSeq(t) = W!FlattenSeq(s) \o t[n + 1]
  <2>1. t[n + 1] \in Seq(T) /\ Len(s) = n
    BY <1>1, <1>2
  <2>2. Continue(T, n, s, t)
    BY <1>2, <2>1 DEF Continue
  <2> QED BY <2>2, FlattenedLast
<1> QED BY <1>1, <1>2, <1>3

LEMMA Flattened0 == W!FlattenSeq(<<>>) = <<>>
BY DEF W!FlattenSeq

Item == [token : W!Words \union Punctuation, line : Int]
Stream == Seq(Item)

\* The stream q is r with the token x behind it.
Grown(r, x, q) == r \in Stream /\ x \in Item /\ q = Append(r, x)

\* A token behind others changes nothing of what they are.
LEMMA Longer ==
    ASSUME NEW r, NEW x, NEW q, Grown(r, x, q)
    PROVE  /\ q \in Stream /\ Len(q) = Len(r) + 1 /\ Len(r) \in Nat
           /\ q[Len(r) + 1] = x
           /\ \A k \in 1 .. Len(r) : q[k] = r[k]
BY DEF Grown, Stream

LEMMA InTypeLonger ==
    ASSUME NEW r, NEW x, NEW q, Grown(r, x, q)
    PROVE  /\ \A k \in 0 .. Len(r) : W!InType(q, k) <=> W!InType(r, k)
           /\ W!InType(q, Len(r) + 1) <=>
                  \/ x.token \in W!Specifiers
                  \/ (x.token = "const" /\ W!InType(r, Len(r)))
           /\ ~W!InType(r, 0)
<1>1. /\ Len(q) = Len(r) + 1 /\ Len(r) \in Nat /\ q[Len(r) + 1] = x
      /\ \A k \in 1 .. Len(r) : q[k] = r[k]
  BY Longer
<1>2. ASSUME NEW k \in 0 .. Len(r) PROVE W!InType(q, k) <=> W!InType(r, k)
  <2>1. \A m \in 1 .. k : q[m] = r[m]
    BY <1>1
  <2>2. \A b \in 1 .. k : \A m \in b .. k : m \in 1 .. k
    BY <1>1
  <2> QED BY <2>1, <2>2 DEF W!InType
<1>3. ~W!InType(r, 0)
  BY DEF W!InType
<1> DEFINE n == Len(r)
<1> HIDE DEF n
<1>4. n \in Nat /\ q[n + 1] = x /\ \A k \in 1 .. n : q[k] = r[k]
  BY <1>1 DEF n
<1>5. ASSUME W!InType(q, n + 1)
      PROVE  x.token \in W!Specifiers \/ (x.token = "const" /\ W!InType(r, n))
  <2>1. PICK b \in 1 .. n + 1 :
           /\ q[b].token \in W!Specifiers
           /\ \A m \in b .. n + 1 : q[m].token \in W!Specifiers \union {"const"}
    BY <1>5 DEF W!InType
  <2>2. CASE b = n + 1
    <3>1. q[b] = x
      BY <1>4, <2>2
    <3> QED BY <2>1, <3>1
  <2>3. CASE b # n + 1
    <3>1. b \in 1 .. n /\ n + 1 \in b .. n + 1
      BY <1>4, <2>3
    <3>2. \A m \in b .. n : m \in 1 .. n /\ m \in b .. n + 1
      BY <1>4, <3>1
    <3>3. W!InType(r, n)
      BY <1>4, <2>1, <3>1, <3>2 DEF W!InType
    <3> QED BY <1>4, <2>1, <3>1, <3>3
  <2> QED BY <2>2, <2>3
<1>6. ASSUME x.token \in W!Specifiers
      PROVE  W!InType(q, n + 1)
  <2>1. n + 1 \in 1 .. n + 1 /\ \A m \in n + 1 .. n + 1 : m = n + 1
    BY <1>4
  <2> QED BY <1>4, <1>6, <2>1 DEF W!InType
<1>7. ASSUME x.token = "const", W!InType(r, n)
      PROVE  W!InType(q, n + 1)
  <2>1. PICK b \in 1 .. n :
           /\ r[b].token \in W!Specifiers
           /\ \A m \in b .. n : r[m].token \in W!Specifiers \union {"const"}
    BY <1>7 DEF W!InType
  <2>2. b \in 1 .. n + 1
    BY <1>4
  <2>3. \A m \in b .. n + 1 : m = n + 1 \/ (m \in b .. n /\ m \in 1 .. n)
    BY <1>4
  <2> QED BY <1>4, <1>7, <2>1, <2>2, <2>3 DEF W!InType
<1> QED BY <1>2, <1>3, <1>5, <1>6, <1>7 DEF n

\* A built-in type ends with the k-th token of r and begins with the b-th.
Begins(r, k, b) ==
    b \in 1 .. k /\ (\A m \in b .. k : W!InType(r, m)) /\ ~W!InType(r, b - 1)

LEMMA Beginning ==
    ASSUME NEW r, NEW k \in Nat, W!InType(r, k)
    PROVE  \E b : Begins(r, k, b) /\ W!Run(r, k) = SubSeq(W!Tokens(r), b, k)
<1> DEFINE S == {b \in 1 .. k : \A m \in b .. k : W!InType(r, m)}
<1>0. ~W!InType(r, 0)
  BY DEF W!InType
<1>1. k \in S
  <2>1. k # 0
    BY <1>0
  <2> QED BY <2>1
<1>2. PICK b \in S : \A m \in S : b <= m
  <2>1. S \subseteq Nat
    OBVIOUS
  <2> HIDE DEF S
  <2> QED BY <1>1, <2>1, Least
<1>3. ~W!InType(r, b - 1)
  <2> SUFFICES ASSUME W!InType(r, b - 1) PROVE FALSE
    OBVIOUS
  <2>1. b - 1 # 0
    BY <1>0
  <2>2. b - 1 \in 1 .. k /\ ~(b <= b - 1)
    BY <2>1
  <2>3. \A m \in b - 1 .. k : m = b - 1 \/ m \in b .. k
    OBVIOUS
  <2>4. b - 1 \in S
    BY <2>2, <2>3
  <2> QED BY <1>2, <2>2, <2>4
<1>4. Begins(r, k, b)
  BY <1>3 DEF Begins
<1> DEFINE begin == CHOOSE c \in 1 .. k : (\A m \in c .. k : W!InType(r, m)) /\ ~W!InType(r, c - 1)
<1>5. Begins(r, k, begin)
  BY <1>4 DEF Begins
<1>6. W!Run(r, k) = SubSeq(W!Tokens(r), begin, k)
  BY DEF W!Run
<1> HIDE DEF begin
<1> QED BY <1>5, <1>6

LEMMA OneBeginning ==
    ASSUME NEW r, NEW k \in Nat, NEW b, Begins(r, k, b), NEW c, Begins(r, k, c)
    PROVE  b = c
<1>1. /\ b \in 1 .. k /\ (\A m \in b .. k : W!InType(r, m)) /\ ~W!InType(r, b - 1)
      /\ c \in 1 .. k /\ (\A m \in c .. k : W!InType(r, m)) /\ ~W!InType(r, c - 1)
  BY DEF Begins
<1>2. CASE b < c
  <2>1. c - 1 \in b .. k
    BY <1>1, <1>2
  <2> QED BY <1>1, <2>1
<1>3. CASE c < b
  <2>1. b - 1 \in c .. k
    BY <1>1, <1>3
  <2> QED BY <1>1, <2>1
<1> QED BY <1>1, <1>2, <1>3

LEMMA RunFrom ==
    ASSUME NEW r, NEW k \in Nat, NEW b, Begins(r, k, b)
    PROVE  W!Run(r, k) = SubSeq(W!Tokens(r), b, k)
<1>1. W!InType(r, k)
  BY DEF Begins
<1>2. PICK c : Begins(r, k, c) /\ W!Run(r, k) = SubSeq(W!Tokens(r), c, k)
  BY <1>1, Beginning
<1> QED BY <1>2, OneBeginning

LEMMA CountMore ==
    ASSUME NEW T, NEW q \in Seq(T), NEW w \in T, NEW v
    PROVE  /\ W!Count(q, v) \in Nat
           /\ v = w => W!Count(Append(q, w), v) = W!Count(q, v) + 1
           /\ v # w => W!Count(Append(q, w), v) = W!Count(q, v)
<1> DEFINE at == {k \in 1 .. Len(q) : q[k] = v}
<1>1. PICK p : p = Append(q, w)
  OBVIOUS
<1> DEFINE on == {k \in 1 .. Len(q) + 1 : p[k] = v}
<1>2. DOMAIN q = 1 .. Len(q) /\ DOMAIN p = 1 .. Len(q) + 1 /\ Len(q) \in Nat
  BY <1>1
<1>3. W!Count(q, v) = Cardinality(at) /\ W!Count(p, v) = Cardinality(on)
  BY <1>2, SameCardinality, Zenon DEF W!Count
<1>4. IsFiniteSet(at) /\ Cardinality(at) \in Nat
  <2>1. IsFiniteSet(1 .. Len(q)) /\ at \in SUBSET (1 .. Len(q))
    BY <1>2, FS_Interval
  <2> HIDE DEF at
  <2>2. IsFiniteSet(at)
    BY <2>1, FS_Subset
  <2> QED BY <2>2, FS_CardinalityType
<1>5. on = IF v = w THEN at \union {Len(q) + 1} ELSE at
  BY <1>1, <1>2
<1>6. Len(q) + 1 \notin at
  BY <1>2
<1> HIDE DEF at, on
<1>7. CASE v = w
  <2>1. Cardinality(at \union {Len(q) + 1}) = Cardinality(at) + 1
    BY <1>4, <1>6, FS_AddElement
  <2> QED BY <1>1, <1>3, <1>4, <1>5, <1>7, <2>1
<1>8. CASE v # w
  BY <1>1, <1>3, <1>4, <1>5, <1>8
<1> QED BY <1>7, <1>8

LEMMA CountOne ==
    ASSUME NEW w, NEW v
    PROVE  W!Count(<<>>, v) = 0 /\ W!Count(<<w>>, v) = IF v = w THEN 1 ELSE 0
<1>1. W!Count(<<>>, v) = 0
  <2>1. {k \in DOMAIN <<>> : <<>>[k] = v} = {}
    OBVIOUS
  <2>2. Cardinality({}) = 0
    BY FS_EmptySet
  <2> QED BY <2>1, <2>2, SameCardinality, Zenon DEF W!Count
<1>2. PICK T : T = {w}
  OBVIOUS
<1>3. PICK e : e = <<>>
  OBVIOUS
<1>4. e \in Seq(T) /\ w \in T /\ Append(e, w) = <<w>>
  BY <1>2, <1>3
<1>5. /\ v = w => W!Count(Append(e, w), v) = W!Count(e, v) + 1
      /\ v # w => W!Count(Append(e, w), v) = W!Count(e, v)
  BY <1>4, CountMore, Zenon
<1> QED BY <1>1, <1>3, <1>4, <1>5

\* The type of some words is told by how often each is there.
LEMMA TypeByCounts ==
    ASSUME NEW p, NEW q, \A w \in W!Specifiers : W!Count(p, w) = W!Count(q, w)
    PROVE  W!CType(p) = W!CType(q)
<1>1. W!Present(p) = W!Present(q)
  BY DEF W!Present
<1>2. W!Count(p, "long") = W!Count(q, "long")
  BY DEF W!Specifiers
<1>3. \A t : W!Stands(t, p) <=> W!Stands(t, q)
  BY <1>1, <1>2 DEF W!Stands
<1>4. (CHOOSE t \in W!CTypes : W!Stands(t, p)) = (CHOOSE t \in W!CTypes : W!Stands(t, q))
  BY <1>3
<1>5. (\E w \in W!Present(p) : W!Count(p, w) > 1) <=> (\E w \in W!Present(q) : W!Count(q, w) > 1)
  BY <1>1 DEF W!Present
<1> QED BY <1>1, <1>3, <1>4, <1>5, Zenon DEF W!CType

LEMMA CountIsNatural ==
    ASSUME NEW T, NEW q \in Seq(T), NEW w \in T, NEW v
    PROVE  W!Count(Append(q, w), v) \in Nat
<1>1. /\ W!Count(q, v) \in Nat
      /\ v = w => W!Count(Append(q, w), v) = W!Count(q, v) + 1
      /\ v # w => W!Count(Append(q, w), v) = W!Count(q, v)
  BY CountMore, Zenon
<1> QED BY <1>1

Token == W!Words \union Punctuation

LEMMA TokensTyped ==
    ASSUME NEW r \in Stream
    PROVE  W!Tokens(r) \in Seq(Token) /\ Len(W!Tokens(r)) = Len(r)
<1>1. DOMAIN r = 1 .. Len(r) /\ Len(r) \in Nat
  BY DEF Stream
<1>2. \A k \in 1 .. Len(r) : r[k].token \in Token
  <2>1. \A i \in Item : i.token \in Token
    BY DEF Item, Token
  <2>2. \A k \in 1 .. Len(r) : r[k] \in Item
    BY DEF Stream
  <2> QED BY <2>1, <2>2
<1>3. W!Tokens(r) = [k \in 1 .. Len(r) |-> r[k].token]
  BY <1>1 DEF W!Tokens
<1> QED BY <1>1, <1>2, <1>3

LEMMA TokensLonger ==
    ASSUME NEW r, NEW x, NEW q, Grown(r, x, q)
    PROVE  /\ W!Tokens(r) \in Seq(Token) /\ x.token \in Token
           /\ Len(W!Tokens(r)) = Len(r)
           /\ W!Tokens(q) = Append(W!Tokens(r), x.token)
<1>1. /\ q \in Stream /\ Len(q) = Len(r) + 1 /\ Len(r) \in Nat
      /\ q[Len(r) + 1] = x
      /\ \A k \in 1 .. Len(r) : q[k] = r[k]
  BY Longer
<1>2. DOMAIN r = 1 .. Len(r) /\ DOMAIN q = 1 .. Len(r) + 1
  BY <1>1 DEF Stream
<1>3. x.token \in Token /\ \A k \in 1 .. Len(r) : r[k].token \in Token
  <2>1. \A i \in Item : i.token \in Token
    BY DEF Item, Token
  <2>2. x \in Item /\ r \in Seq(Item)
    BY DEF Grown, Stream
  <2>3. \A k \in 1 .. Len(r) : r[k] \in Item
    BY <2>2
  <2> QED BY <2>1, <2>2, <2>3
<1>4. W!Tokens(r) = [k \in 1 .. Len(r) |-> r[k].token]
  BY <1>2 DEF W!Tokens
<1>5. W!Tokens(q) = [k \in 1 .. Len(r) + 1 |-> q[k].token]
  BY <1>2 DEF W!Tokens
<1>6. W!Tokens(r) \in Seq(Token) /\ Len(W!Tokens(r)) = Len(r)
  BY <1>1, <1>3, <1>4
<1>7. W!Tokens(q) = Append(W!Tokens(r), x.token)
  BY <1>1, <1>3, <1>4, <1>5, <1>6
<1> QED BY <1>3, <1>6, <1>7

LEMMA RunTyped ==
    ASSUME NEW r \in Stream, NEW k \in 1 .. Len(r), W!InType(r, k)
    PROVE  W!Run(r, k) \in Seq(Token)
<1>1. k \in Nat
  OBVIOUS
<1>2. PICK b : Begins(r, k, b) /\ W!Run(r, k) = SubSeq(W!Tokens(r), b, k)
  BY <1>1, Beginning
<1>3. W!Tokens(r) \in Seq(Token) /\ Len(W!Tokens(r)) = Len(r)
  BY TokensTyped
<1>4. b \in 1 .. k
  BY <1>2 DEF Begins
<1>5. PICK s : s = W!Tokens(r)
  OBVIOUS
<1>6. SubSeq(s, b, k) \in Seq(Token)
  BY <1>3, <1>4, <1>5
<1> QED BY <1>2, <1>5, <1>6

\* What follows a type leaves its words as they are.
LEMMA RunLonger ==
    ASSUME NEW r, NEW x, NEW q, Grown(r, x, q),
           NEW k \in 1 .. Len(r), W!InType(r, k)
    PROVE  W!Run(q, k) = W!Run(r, k)
<1>1. PICK n : n = Len(r)
  OBVIOUS
<1>2. n \in Nat /\ k \in Nat /\ k \in 1 .. n /\ \A m \in 0 .. n : W!InType(q, m) <=> W!InType(r, m)
  BY <1>1, Longer, InTypeLonger
<1>3. PICK b : Begins(r, k, b)
  BY <1>2, Beginning
<1>4. b \in 1 .. k /\ b - 1 \in 0 .. n /\ \A m \in b .. k : m \in 0 .. n
  BY <1>2, <1>3 DEF Begins
<1>5. Begins(q, k, b)
  BY <1>2, <1>3, <1>4 DEF Begins
<1>6. W!Run(r, k) = SubSeq(W!Tokens(r), b, k) /\ W!Run(q, k) = SubSeq(W!Tokens(q), b, k)
  BY <1>2, <1>3, <1>5, RunFrom
<1>7. PICK s, t, y : s = W!Tokens(r) /\ t = W!Tokens(q) /\ y = x.token
  OBVIOUS
<1>8. s \in Seq(Token) /\ Len(s) = n /\ t = Append(s, y) /\ y \in Token
  BY <1>1, <1>7, TokensLonger
<1>9. SubSeq(t, b, k) = SubSeq(s, b, k)
  BY <1>2, <1>4, <1>8
<1> QED BY <1>6, <1>7, <1>9

LEMMA RunGrows ==
    ASSUME NEW r, NEW x, NEW q, Grown(r, x, q),
           W!InType(q, Len(r) + 1)
    PROVE  W!Run(q, Len(r) + 1) =
               IF W!InType(r, Len(r)) THEN Append(W!Run(r, Len(r)), x.token) ELSE <<x.token>>
<1>1. PICK n : n = Len(r)
  OBVIOUS
<1>2. /\ n \in Nat /\ \A m \in 0 .. n : W!InType(q, m) <=> W!InType(r, m)
      /\ W!InType(q, n + 1) /\ n + 1 \in Nat
  BY <1>1, Longer, InTypeLonger
<1>7. PICK s, t, y : s = W!Tokens(r) /\ t = W!Tokens(q) /\ y = x.token
  OBVIOUS
<1>8. s \in Seq(Token) /\ Len(s) = n /\ t = Append(s, y) /\ y \in Token
  BY <1>1, <1>7, TokensLonger
<1>3. CASE W!InType(r, n)
  <2>1. PICK b : Begins(r, n, b)
    BY <1>2, <1>3, Beginning
  <2>2. b \in 1 .. n /\ b - 1 \in 0 .. n /\ b \in 1 .. n + 1
        /\ \A m \in b .. n + 1 : m = n + 1 \/ (m \in b .. n /\ m \in 0 .. n)
    BY <1>2, <2>1 DEF Begins
  <2>3. Begins(q, n + 1, b)
    BY <1>2, <2>1, <2>2 DEF Begins
  <2>4. W!Run(r, n) = SubSeq(W!Tokens(r), b, n)
    BY <1>2, <2>1, RunFrom
  <2>5. W!Run(q, n + 1) = SubSeq(W!Tokens(q), b, n + 1)
    BY <1>2, <2>3, RunFrom
  <2>6. SubSeq(t, b, n + 1) = Append(SubSeq(s, b, n), y)
    BY <1>2, <1>8, <2>2
  <2> QED BY <1>1, <1>3, <1>7, <2>4, <2>5, <2>6
<1>4. CASE ~W!InType(r, n)
  <2>1. /\ n + 1 \in 1 .. n + 1 /\ n + 1 - 1 = n /\ n \in 0 .. n
        /\ \A m \in n + 1 .. n + 1 : m = n + 1
    BY <1>2
  <2>2. Begins(q, n + 1, n + 1)
    BY <1>2, <1>4, <2>1 DEF Begins
  <2>3. W!Run(q, n + 1) = SubSeq(W!Tokens(q), n + 1, n + 1)
    BY <1>2, <2>2, RunFrom
  <2>4. SubSeq(t, n + 1, n + 1) = <<y>>
    <3>1. t \in Seq(Token) /\ t[n + 1] = y /\ Len(t) = n + 1
      BY <1>2, <1>8
    <3>2. SubSeq(t, n + 1, n + 1) = [i \in 1 .. 1 |-> t[n + 1]]
      <4>1. n + 1 - (n + 1) + 1 = 1 /\ \A i \in 1 .. 1 : i + (n + 1) - 1 = n + 1
        BY <1>2
      <4>2. SubSeq(t, n + 1, n + 1) = [i \in 1 .. n + 1 - (n + 1) + 1 |-> t[i + (n + 1) - 1]]
        BY <1>2, <3>1
      <4> QED BY <4>1, <4>2
    <3>3. PICK u : u = SubSeq(t, n + 1, n + 1)
      OBVIOUS
    <3>4. u \in Seq(Token) /\ Len(u) = 1 /\ u[1] = y
      <4>1. u = [i \in 1 .. 1 |-> y]
        BY <3>1, <3>2, <3>3
      <4> QED BY <4>1, <1>8
    <3>5. u = <<y>>
      BY <3>4
    <3> QED BY <3>3, <3>5
  <2> QED BY <1>1, <1>4, <1>7, <2>3, <2>4
<1> QED BY <1>1, <1>3, <1>4

\* The lexemes that the writer may write, and the lines they stand under.
Text == Token \union {"word", "", W!Brace} \union {W!CType(p) : p \in Seq(Token)}
Lexeme == [lexeme : Text, text : Text]
Line == [written : Lexeme, line : Int]

LEMMA NumberIsLexeme == \A l \in Text : W!Number(l) \in Lexeme
BY DEF W!Number, Lexeme, Text

LEMMA WordIsLexeme == \A w \in Token : W!Word(w) \in Lexeme
<1>1. "word" \in Text /\ \A w \in Token : w \in Text
  BY DEF Text
<1> QED BY <1>1 DEF W!Word, Lexeme

LEMMA TaggedIsLexeme == \A t \in Token, w \in Token \union {""} : W!Tagged(t, w) \in Lexeme
<1>1. \A t \in Token, w \in Token \union {""} : t \in Text /\ w \in Text
  BY DEF Text
<1> QED BY <1>1 DEF W!Tagged, Lexeme

LEMMA TypeIsLexemes ==
    ASSUME NEW r, NEW k, W!Run(r, k) \in Seq(Token)
    PROVE  W!Type(r, k) \in Seq(Lexeme)
<1>1. W!CType(W!Run(r, k)) \in Text /\ "const" \in Text
  BY DEF Text, Token, W!Words
<1>2. PICK a, b : a = W!Number(W!CType(W!Run(r, k))) /\ b = W!Number("const")
  OBVIOUS
<1>3. a \in Lexeme /\ b \in Lexeme
  BY <1>1, <1>2, NumberIsLexeme
<1>4. W!Type(r, k) = <<a>> \o (IF W!Contains(W!Run(r, k), "const") THEN <<b>> ELSE <<>>)
  BY <1>2 DEF W!Type
<1> QED BY <1>3, <1>4

\* What a token stands for is a sequence of lexemes.
LEMMA LexemesTyped ==
    ASSUME NEW r \in Stream, NEW k \in 1 .. Len(r)
    PROVE  W!Lexemes(r, k) \in Seq(Lexeme)
<1>1. Len(r) \in Nat /\ DOMAIN r = 1 .. Len(r)
  BY DEF Stream
<1>2. \A m \in 1 .. Len(r) : r[m].token \in Token
  <2>1. \A i \in Item : i.token \in Token
    BY DEF Item, Token
  <2>2. \A m \in 1 .. Len(r) : r[m] \in Item
    BY DEF Stream
  <2> QED BY <2>1, <2>2
<1>3. PICK token : token = r[k].token
  OBVIOUS
<1>4. token \in Token
  BY <1>2, <1>3
<1>5. <<>> \in Seq(Lexeme)
  OBVIOUS
<1>6. CASE W!InType(r, k)
  <2>1. W!Lexemes(r, k) = IF k # Len(r) /\ ~W!InType(r, k + 1) THEN W!Type(r, k) ELSE <<>>
    BY <1>6 DEF W!Lexemes
  <2>2. W!Run(r, k) \in Seq(Token)
    BY <1>6, RunTyped
  <2> QED BY <1>5, <2>1, <2>2, TypeIsLexemes
<1>7. CASE ~W!InType(r, k) /\ W!Tag(r, k)
  BY <1>5, <1>7 DEF W!Lexemes
<1>8. CASE ~W!InType(r, k) /\ ~W!Tag(r, k) /\ W!Tag(r, k - 1)
  <2>1. PICK tag : tag = r[k - 1].token
    OBVIOUS
  <2>2. k - 1 \in 1 .. Len(r)
    BY <1>1, <1>8 DEF W!Tag
  <2>3. tag \in Token
    BY <1>2, <2>1, <2>2
  <2>4. PICK a, b, c : /\ a = W!Tagged(tag, token) /\ b = W!Tagged(tag, "")
                       /\ c = W!Number(W!Brace)
    OBVIOUS
  <2>5. a \in Lexeme /\ b \in Lexeme
    BY <1>4, <2>3, <2>4, TaggedIsLexeme
  <2>6. c \in Lexeme
    BY <2>4, NumberIsLexeme DEF Text
  <2>7. W!Lexemes(r, k) = IF token \in Names THEN <<a>> ELSE <<b, c>>
    BY <1>3, <1>8, <2>1, <2>4 DEF W!Lexemes
  <2> QED BY <2>5, <2>6, <2>7
<1>9. CASE ~W!InType(r, k) /\ ~W!Tag(r, k) /\ ~W!Tag(r, k - 1)
  <2>1. PICK a : a = IF token \in Names THEN W!Word(token) ELSE W!Number(token)
    OBVIOUS
  <2>2. W!Lexemes(r, k) = <<a>>
    BY <1>3, <1>9, <2>1 DEF W!Lexemes
  <2>3. token \in Text
    BY <1>4 DEF Text
  <2>4. a \in Lexeme
    BY <1>4, <2>1, <2>3, WordIsLexeme, NumberIsLexeme
  <2> QED BY <2>2, <2>4
<1> QED BY <1>6, <1>7, <1>8, <1>9

LEMMA UnderTyped ==
    ASSUME NEW l \in Seq(Lexeme), NEW at \in Int
    PROVE  W!Under(l, at) \in Seq(Line)
<1>1. \A k \in 1 .. Len(l) : [written |-> l[k], line |-> at] \in Line
  BY DEF Line
<1>2. W!Under(l, at) = [k \in 1 .. Len(l) |-> [written |-> l[k], line |-> at]]
  BY DEF W!Under
<1> QED BY <1>1, <1>2

\* A token behind others changes what one stands for only if it ends a type.
LEMMA LexemesLonger ==
    ASSUME NEW r, NEW x, NEW q, Grown(r, x, q), NEW k \in 1 .. Len(r),
           k # Len(r) \/ ~W!InType(r, k)
    PROVE  W!Lexemes(q, k) = W!Lexemes(r, k)
<1>1. PICK n : n = Len(r)
  OBVIOUS
<1>2. /\ n \in Nat /\ r \in Stream /\ q \in Stream /\ Len(q) = n + 1
      /\ \A m \in 1 .. n : q[m] = r[m]
  <2>1. r \in Stream
    BY DEF Grown
  <2> QED BY <1>1, <2>1, Longer
<1>3. \A m \in 0 .. n : W!InType(q, m) <=> W!InType(r, m)
  BY <1>1, InTypeLonger
<1>4. DOMAIN r = 1 .. n /\ DOMAIN q = 1 .. n + 1
  BY <1>1, <1>2 DEF Stream
<1>5. \A m \in 0 .. n : /\ W!Tag(q, m) <=> W!Tag(r, m)
                        /\ W!Tag(r, m) => q[m] = r[m]
  BY <1>2, <1>4 DEF W!Tag
<1>6. k \in 1 .. n /\ k \in 0 .. n /\ k - 1 \in 0 .. n
  BY <1>1, <1>2
<1>7. CASE W!InType(r, k)
  <2>1. k # n /\ k # n + 1 /\ k + 1 \in 0 .. n
    BY <1>1, <1>2, <1>6, <1>7
  <2>2. W!Run(q, k) = W!Run(r, k)
    BY <1>7, RunLonger
  <2>3. W!Type(q, k) = W!Type(r, k)
    BY <2>2 DEF W!Type
  <2>4. /\ W!Lexemes(r, k) = IF k # Len(r) /\ ~W!InType(r, k + 1) THEN W!Type(r, k) ELSE <<>>
        /\ W!Lexemes(q, k) = IF k # Len(q) /\ ~W!InType(q, k + 1) THEN W!Type(q, k) ELSE <<>>
    BY <1>3, <1>6, <1>7 DEF W!Lexemes
  <2> QED BY <1>1, <1>2, <1>3, <2>1, <2>3, <2>4
<1>8. CASE ~W!InType(r, k)
  BY <1>2, <1>3, <1>5, <1>6, <1>8 DEF W!Lexemes
<1> QED BY <1>7, <1>8

\* The type that ends with the last token of r, if q goes on behind it.
Late(r, q) ==
    IF W!InType(r, Len(r)) /\ ~W!InType(q, Len(q)) THEN W!Type(r, Len(r)) ELSE <<>>

LEMMA LexemesLate ==
    ASSUME NEW r, NEW x, NEW q, Grown(r, x, q), W!InType(r, Len(r))
    PROVE  /\ Len(r) # 0
           /\ W!Lexemes(r, Len(r)) = <<>>
           /\ W!Lexemes(q, Len(r)) = Late(r, q)
<1>1. PICK n : n = Len(r)
  OBVIOUS
<1>2. n \in Nat /\ Len(q) = n + 1 /\ n # n + 1
  BY <1>1, Longer
<1>3. \A m \in 0 .. n : W!InType(q, m) <=> W!InType(r, m)
  BY <1>1, InTypeLonger
<1>4. n # 0
  BY <1>1, InTypeLonger
<1>5. W!InType(q, n) /\ W!InType(r, n) /\ n \in 1 .. n /\ n \in 1 .. Len(r)
  BY <1>1, <1>2, <1>3, <1>4
<1>6. W!Lexemes(r, n) = <<>>
  BY <1>1, <1>5 DEF W!Lexemes
<1>7. W!Run(q, n) = W!Run(r, n)
  BY <1>5, RunLonger
<1>8. W!Type(q, n) = W!Type(r, n)
  BY <1>7 DEF W!Type
<1>9. W!Lexemes(q, n) = IF n # Len(q) /\ ~W!InType(q, n + 1) THEN W!Type(q, n) ELSE <<>>
  BY <1>5 DEF W!Lexemes
<1>10. Late(r, q) = IF ~W!InType(q, n + 1) THEN W!Type(r, n) ELSE <<>>
  BY <1>1, <1>2, <1>5 DEF Late
<1> QED BY <1>1, <1>2, <1>4, <1>6, <1>8, <1>9, <1>10

\* What the first n tokens of r stand for, each under its line.
Lines(r, n) == [k \in 1 .. n |-> W!Under(W!Lexemes(r, k), r[k].line)]

LEMMA LinesTyped ==
    ASSUME NEW r \in Stream, NEW n \in 0 .. Len(r)
    PROVE  /\ Lines(r, n) \in Seq(Seq(Line))
           /\ W!Meant(r) = W!FlattenSeq(Lines(r, Len(r)))
           /\ n # 0 => Lines(r, n) = Append(Lines(r, n - 1), W!Under(W!Lexemes(r, n), r[n].line))
<1>1. DOMAIN r = 1 .. Len(r) /\ Len(r) \in Nat /\ n \in Nat
  BY DEF Stream
<1>2. W!Meant(r) = W!FlattenSeq(Lines(r, Len(r)))
  BY <1>1 DEF W!Meant, Lines
<1>3. ASSUME NEW k \in 1 .. Len(r) PROVE W!Under(W!Lexemes(r, k), r[k].line) \in Seq(Line)
  <2>1. \A i \in Item : i.line \in Int
    BY DEF Item
  <2>2. r[k].line \in Int
    BY <2>1 DEF Stream
  <2>3. W!Lexemes(r, k) \in Seq(Lexeme)
    BY LexemesTyped
  <2>4. PICK l, at : l = W!Lexemes(r, k) /\ at = r[k].line
    OBVIOUS
  <2>5. W!Under(l, at) \in Seq(Line)
    BY <2>2, <2>3, <2>4, UnderTyped
  <2> QED BY <2>4, <2>5
<1> DEFINE U(k) == W!Under(W!Lexemes(r, k), r[k].line)
<1>4. \A k \in 1 .. Len(r) : U(k) \in Seq(Line)
  BY <1>3
<1>5. \A m : Lines(r, m) = [k \in 1 .. m |-> U(k)]
  BY DEF Lines
<1> HIDE DEF U
<1>6. ASSUME NEW m \in 0 .. Len(r)
      PROVE  Lines(r, m) \in Seq(Seq(Line)) /\ Len(Lines(r, m)) = m
  <2>1. m \in Nat /\ \A k \in 1 .. m : k \in 1 .. Len(r)
    BY <1>1
  <2>2. PICK T : T = Seq(Line)
    OBVIOUS
  <2>3. \A k \in 1 .. m : U(k) \in T
    BY <1>4, <2>1, <2>2
  <2>4. Lines(r, m) = [k \in 1 .. m |-> U(k)]
    BY <1>5
  <2>5. Lines(r, m) \in Seq(T) /\ Len(Lines(r, m)) = m
    BY <2>1, <2>3, <2>4
  <2> QED BY <2>2, <2>5
<1>7. ASSUME n # 0 PROVE Lines(r, n) = Append(Lines(r, n - 1), U(n))
  <2>1. n \in 1 .. Len(r) /\ n - 1 \in 0 .. Len(r) /\ n - 1 \in Nat
    BY <1>1, <1>7
  <2>2. PICK s, t : s = Lines(r, n - 1) /\ t = Lines(r, n)
    OBVIOUS
  <2>3. s \in Seq(Seq(Line)) /\ Len(s) = n - 1 /\ t \in Seq(Seq(Line)) /\ Len(t) = n
    BY <1>1, <1>6, <2>1, <2>2
  <2>4. t[n] = U(n) /\ \A k \in 1 .. n - 1 : t[k] = s[k]
    <3>1. s = [k \in 1 .. n - 1 |-> U(k)] /\ t = [k \in 1 .. n |-> U(k)]
      BY <1>5, <2>2
    <3>2. n \in 1 .. n /\ \A k \in 1 .. n - 1 : k \in 1 .. n
      BY <2>1
    <3> QED BY <3>1, <3>2
  <2> QED BY <2>1, <2>2, <2>3, <2>4
<1> QED BY <1>2, <1>6, <1>7 DEF U

LEMMA UnderParts ==
    ASSUME NEW l \in Seq(Lexeme), NEW k \in Seq(Lexeme), NEW at \in Int
    PROVE  W!Under(l \o k, at) = W!Under(l, at) \o W!Under(k, at)
<1>1. PICK m : m = l \o k
  OBVIOUS
<1>2. /\ m \in Seq(Lexeme) /\ Len(m) = Len(l) + Len(k) /\ Len(l) \in Nat /\ Len(k) \in Nat
      /\ \A i \in 1 .. Len(l) : m[i] = l[i]
      /\ \A i \in Len(l) + 1 .. Len(l) + Len(k) : m[i] = k[i - Len(l)]
  BY <1>1
<1>3. PICK a, b, c : a = W!Under(l, at) /\ b = W!Under(k, at) /\ c = W!Under(m, at)
  OBVIOUS
<1>4. a \in Seq(Line) /\ b \in Seq(Line) /\ c \in Seq(Line)
  BY <1>2, <1>3, UnderTyped
<1>5. /\ Len(a) = Len(l) /\ \A i \in 1 .. Len(l) : a[i] = [written |-> l[i], line |-> at]
      /\ Len(b) = Len(k) /\ \A i \in 1 .. Len(k) : b[i] = [written |-> k[i], line |-> at]
      /\ Len(c) = Len(m) /\ \A i \in 1 .. Len(m) : c[i] = [written |-> m[i], line |-> at]
  BY <1>2, <1>3 DEF W!Under
<1>6. c = a \o b
  <2>1. a \o b \in Seq(Line) /\ Len(a \o b) = Len(m)
    BY <1>2, <1>4, <1>5
  <2>2. ASSUME NEW i \in 1 .. Len(m) PROVE c[i] = (a \o b)[i]
    <3>1. CASE i \in 1 .. Len(l)
      BY <1>2, <1>4, <1>5, <3>1
    <3>2. CASE i \notin 1 .. Len(l)
      <4>1. i \in Len(l) + 1 .. Len(l) + Len(k) /\ i - Len(l) \in 1 .. Len(k)
        BY <1>2, <3>2
      <4>2. (a \o b)[i] = b[i - Len(l)]
        BY <1>2, <1>4, <1>5, <4>1
      <4> QED BY <1>2, <1>5, <4>1, <4>2
    <3> QED BY <3>1, <3>2
  <2>3. PICK d : d = a \o b
    OBVIOUS
  <2> QED BY <1>4, <1>5, <2>1, <2>2, <2>3, SeqEqual
<1> QED BY <1>1, <1>3, <1>6

LEMMA WrittenUnder ==
    ASSUME NEW l \in Seq(Lexeme), NEW at
    PROVE  W!Written(W!Under(l, at)) = l
BY DEF W!Written, W!Under

LEMMA WrittenParts ==
    ASSUME NEW a \in Seq(Line), NEW b \in Seq(Line)
    PROVE  /\ W!Written(a) \in Seq(Lexeme)
           /\ W!Written(a \o b) = W!Written(a) \o W!Written(b)
<1>1. \A e \in Line : e.written \in Lexeme
  BY DEF Line
<1>2. ASSUME NEW e \in Seq(Line)
      PROVE  /\ W!Written(e) \in Seq(Lexeme) /\ Len(W!Written(e)) = Len(e)
             /\ \A i \in 1 .. Len(e) : W!Written(e)[i] = e[i].written
  <2>1. W!Written(e) = [i \in 1 .. Len(e) |-> e[i].written]
    BY DEF W!Written
  <2>2. \A i \in 1 .. Len(e) : e[i].written \in Lexeme
    BY <1>1
  <2> QED BY <2>1, <2>2
<1>3. PICK c : c = a \o b
  OBVIOUS
<1>4. /\ c \in Seq(Line) /\ Len(c) = Len(a) + Len(b) /\ Len(a) \in Nat /\ Len(b) \in Nat
      /\ \A i \in 1 .. Len(a) : c[i] = a[i]
      /\ \A i \in Len(a) + 1 .. Len(a) + Len(b) : c[i] = b[i - Len(a)]
  BY <1>3
<1>5. PICK l, k, m : l = W!Written(a) /\ k = W!Written(b) /\ m = W!Written(c)
  OBVIOUS
<1>6. /\ l \in Seq(Lexeme) /\ Len(l) = Len(a) /\ \A i \in 1 .. Len(a) : l[i] = a[i].written
      /\ k \in Seq(Lexeme) /\ Len(k) = Len(b) /\ \A i \in 1 .. Len(b) : k[i] = b[i].written
      /\ m \in Seq(Lexeme) /\ Len(m) = Len(c) /\ \A i \in 1 .. Len(c) : m[i] = c[i].written
  BY <1>2, <1>4, <1>5
<1>7. PICK d : d = l \o k
  OBVIOUS
<1>8. /\ d \in Seq(Lexeme) /\ Len(d) = Len(l) + Len(k)
      /\ \A i \in 1 .. Len(l) : d[i] = l[i]
      /\ \A i \in Len(l) + 1 .. Len(l) + Len(k) : d[i] = k[i - Len(l)]
  <2>1. l \in Seq(Lexeme) /\ k \in Seq(Lexeme)
    BY <1>6
  <2> QED BY <1>7, <2>1
<1>9. ASSUME NEW i \in 1 .. Len(c) PROVE m[i] = d[i]
  <2>1. CASE i \in 1 .. Len(a)
    BY <1>4, <1>6, <1>8, <2>1
  <2>2. CASE i \notin 1 .. Len(a)
    <3>1. i \in Len(a) + 1 .. Len(a) + Len(b) /\ i - Len(a) \in 1 .. Len(b)
      BY <1>4, <2>2
    <3>2. d[i] = k[i - Len(a)]
      BY <1>4, <1>6, <1>8, <3>1
    <3> QED BY <1>4, <1>6, <3>1, <3>2
  <2> QED BY <2>1, <2>2
<1>10. m = d
  BY <1>4, <1>6, <1>8, <1>9, SeqEqual
<1> QED BY <1>3, <1>5, <1>6, <1>7, <1>10

LEMMA LateTyped ==
    ASSUME NEW r, NEW x, NEW q, Grown(r, x, q)
    PROVE  /\ Late(r, q) \in Seq(Lexeme)
           /\ W!Lexemes(q, Len(r) + 1) \in Seq(Lexeme)
           /\ x.line \in Int
           /\ Len(r) # 0 => r[Len(r)].line \in Int
<1>1. r \in Stream /\ x \in Item
  BY DEF Grown
<1>2. q \in Stream /\ Len(q) = Len(r) + 1 /\ Len(r) \in Nat
  BY Longer
<1>3. Len(r) + 1 \in 1 .. Len(q) /\ (Len(r) # 0 => Len(r) \in 1 .. Len(r))
  BY <1>2
<1>4. W!Lexemes(q, Len(r) + 1) \in Seq(Lexeme)
  BY <1>2, <1>3, LexemesTyped
<1>5. \A i \in Item : i.line \in Int
  BY DEF Item
<1>6. Len(r) # 0 => r[Len(r)] \in Item
  BY <1>1, <1>3 DEF Stream
<1>7. CASE W!InType(r, Len(r))
  <2>1. Len(r) \in 1 .. Len(r)
    BY <1>3, <1>7, LexemesLate
  <2>2. W!Run(r, Len(r)) \in Seq(Token)
    BY <1>1, <1>7, <2>1, RunTyped
  <2>3. W!Type(r, Len(r)) \in Seq(Lexeme)
    BY <2>2, TypeIsLexemes
  <2> QED BY <1>1, <1>4, <1>5, <1>6, <2>3 DEF Late
<1>8. CASE ~W!InType(r, Len(r))
  BY <1>1, <1>4, <1>5, <1>6, <1>8 DEF Late
<1> QED BY <1>7, <1>8

\* What the tokens stand for grows by the type that ends with the one before
\* the last, under that one's line, and by what the last token stands for.
LEMMA MeantLonger ==
    ASSUME NEW r, NEW x, NEW q, Grown(r, x, q)
    PROVE  /\ W!Meant(r) \in Seq(Line)
           /\ W!Meant(q) = (W!Meant(r) \o W!Under(Late(r, q), r[Len(r)].line))
                               \o W!Under(W!Lexemes(q, Len(r) + 1), x.line)
           /\ ~W!InType(r, Len(r)) => W!Under(Late(r, q), r[Len(r)].line) = <<>>
<1>1. r \in Stream
  BY DEF Grown
<1>2. PICK n : n = Len(r)
  OBVIOUS
<1>3. /\ n \in Nat /\ q \in Stream /\ Len(q) = n + 1 /\ q[n + 1] = x
      /\ \A m \in 1 .. n : q[m] = r[m]
  BY <1>1, <1>2, Longer
<1>4. PICK l, new : l = W!Under(Late(r, q), r[n].line) /\ new = W!Under(W!Lexemes(q, n + 1), x.line)
  OBVIOUS
<1>5. new \in Seq(Line)
  BY <1>2, <1>4, LateTyped, UnderTyped
<1>6. \A m \in 0 .. n : Lines(r, m) \in Seq(Seq(Line)) /\ Lines(q, m) \in Seq(Seq(Line))
  <2>1. \A m \in 0 .. n : m \in 0 .. Len(r) /\ m \in 0 .. Len(q)
    BY <1>2, <1>3
  <2> QED BY <1>1, <1>3, <2>1, LinesTyped
<1>7. n \in 0 .. n /\ n + 1 \in 0 .. Len(q) /\ n + 1 # 0 /\ n + 1 - 1 = n
  BY <1>3
<1>8. PICK s, t : s = Lines(r, n) /\ t = Lines(q, n)
  OBVIOUS
<1>9. Lines(q, n + 1) = Append(t, new)
  <2>1. PICK k : k = n + 1
    OBVIOUS
  <2>2. k \in 0 .. Len(q) /\ k # 0 /\ k - 1 = n /\ q[k] = x
    BY <1>3, <1>7, <2>1
  <2>3. Lines(q, k) = Append(Lines(q, k - 1), W!Under(W!Lexemes(q, k), q[k].line))
    BY <1>3, <2>2, LinesTyped
  <2> QED BY <1>4, <1>8, <2>1, <2>2, <2>3
<1>10. W!Meant(r) = W!FlattenSeq(s) /\ W!Meant(q) = W!FlattenSeq(Append(t, new))
  <2>1. n \in 0 .. Len(r) /\ n + 1 \in 0 .. Len(q)
    BY <1>2, <1>7
  <2>2. W!Meant(r) = W!FlattenSeq(Lines(r, n)) /\ W!Meant(q) = W!FlattenSeq(Lines(q, n + 1))
    BY <1>1, <1>2, <1>3, <2>1, LinesTyped
  <2> QED BY <1>8, <1>9, <2>2
<1>11. s \in Seq(Seq(Line)) /\ t \in Seq(Seq(Line))
  BY <1>6, <1>7, <1>8
<1>12. W!Meant(r) \in Seq(Line) /\ W!Meant(q) = W!FlattenSeq(t) \o new
  BY <1>5, <1>10, <1>11, Flattened, FlattenedMore
<1>13. CASE ~W!InType(r, n)
  <2>1. Late(r, q) = <<>>
    BY <1>2, <1>13 DEF Late
  <2>2. l = <<>>
    BY <1>4, <2>1 DEF W!Under
  <2>3. t = s
    <3>1. \A k \in 1 .. n : k # n \/ ~W!InType(r, k)
      BY <1>13
    <3>2. \A k \in 1 .. n : W!Lexemes(q, k) = W!Lexemes(r, k)
      BY <1>2, <3>1, LexemesLonger
    <3> QED BY <1>3, <1>8, <3>2 DEF Lines
  <2>4. W!Meant(r) \o <<>> = W!Meant(r)
    BY <1>12, ConcatEmptySeq
  <2> QED BY <1>2, <1>4, <1>10, <1>12, <2>2, <2>3, <2>4
<1>14. CASE W!InType(r, n)
  <2>1. n # 0 /\ W!Lexemes(r, n) = <<>> /\ W!Lexemes(q, n) = Late(r, q)
    BY <1>2, <1>14, LexemesLate
  <2>2. n \in 0 .. Len(r) /\ n \in 0 .. Len(q) /\ n - 1 \in 0 .. n /\ n \in 1 .. n
    BY <1>2, <1>3, <2>1
  <2>3. PICK p : p = Lines(r, n - 1)
    OBVIOUS
  <2>4. Lines(q, n - 1) = p
    <3>1. \A k \in 1 .. n - 1 : k \in 1 .. n /\ k # n
      BY <1>3
    <3>2. \A k \in 1 .. n - 1 : W!Lexemes(q, k) = W!Lexemes(r, k)
      BY <1>2, <3>1, LexemesLonger
    <3> QED BY <1>3, <2>3, <3>1, <3>2 DEF Lines
  <2>5. s = Append(p, W!Under(W!Lexemes(r, n), r[n].line))
    BY <1>1, <1>8, <2>1, <2>2, <2>3, LinesTyped
  <2>6. W!Under(W!Lexemes(r, n), r[n].line) = <<>>
    BY <2>1 DEF W!Under
  <2>7. t = Append(p, l)
    BY <1>3, <1>4, <1>8, <2>1, <2>2, <2>4, LinesTyped
  <2>8. p \in Seq(Seq(Line)) /\ l \in Seq(Line)
    BY <1>2, <1>4, <1>6, <2>1, <2>2, <2>3, LateTyped, UnderTyped
  <2>9. PICK e : e = <<>>
    OBVIOUS
  <2>10. e \in Seq(Line) /\ s = Append(p, e)
    BY <2>5, <2>6, <2>9
  <2>11. W!FlattenSeq(s) = W!FlattenSeq(p) \o e /\ W!FlattenSeq(t) = W!FlattenSeq(p) \o l
    BY <2>7, <2>8, <2>10, FlattenedMore
  <2>12. W!FlattenSeq(p) \o <<>> = W!FlattenSeq(p)
    BY <2>8, Flattened, ConcatEmptySeq
  <2> QED BY <1>2, <1>4, <1>10, <1>12, <1>14, <2>9, <2>11, <2>12
<1> QED BY <1>2, <1>13, <1>14

\* The tokens are of the kind that the writer is promised to keep.
Kept(r) == W!WellFormed(r) /\ W!NamesFollowTypes(r)

LEMMA KeptShorter ==
    ASSUME NEW r, NEW x, NEW q, Grown(r, x, q), Kept(q)
    PROVE  /\ Kept(r)
           /\ W!TypesEndInLine(q) => W!TypesEndInLine(r)
           /\ W!Count(W!Tokens(q), "signed") <= 1 /\ W!Count(W!Tokens(q), "unsigned") <= 1
           /\ W!Tag(r, Len(r)) => x.token \in Names \union {W!Brace}
           /\ W!InType(r, Len(r)) => /\ Len(r) # 0
                                     /\ x.token \notin Keywords \union Tags
                                     /\ W!TypesEndInLine(q) => x.line = r[Len(r)].line
<1>1. PICK n : n = Len(r)
  OBVIOUS
<1>2. r \in Stream
  BY DEF Grown
<1>3. /\ n \in Nat /\ q \in Stream /\ Len(q) = n + 1 /\ q[n + 1] = x
      /\ \A m \in 1 .. n : q[m] = r[m]
  BY <1>1, <1>2, Longer
<1>4. (\A m \in 0 .. n : W!InType(q, m) <=> W!InType(r, m)) /\ ~W!InType(r, 0)
  BY <1>1, InTypeLonger
<1>5. DOMAIN r = 1 .. n /\ DOMAIN q = 1 .. n + 1
  BY <1>1, <1>2, <1>3 DEF Stream
<1>6. \A m \in 1 .. n : W!Tag(q, m) <=> W!Tag(r, m)
  BY <1>3, <1>5 DEF W!Tag
<1>7. \A m \in 1 .. n - 1 : m \in 1 .. n /\ m + 1 \in 1 .. n /\ m \in 0 .. n
  BY <1>3
<1>8. \A m \in 1 .. Len(q) - 1 : m \in 1 .. n
  BY <1>3
<1>9. \A m \in 1 .. n : m \in 1 .. Len(q) - 1
  BY <1>3
<1>10. PICK s, t, y : s = W!Tokens(r) /\ t = W!Tokens(q) /\ y = x.token
  OBVIOUS
<1>11. s \in Seq(Token) /\ y \in Token /\ t = Append(s, y)
  BY <1>10, TokensLonger
<1>12. \A w : W!Count(s, w) \in Nat /\ W!Count(s, w) <= W!Count(t, w)
  <2> SUFFICES ASSUME NEW w PROVE W!Count(s, w) \in Nat /\ W!Count(s, w) <= W!Count(t, w)
    OBVIOUS
  <2>1. /\ W!Count(s, w) \in Nat
        /\ w = y => W!Count(Append(s, y), w) = W!Count(s, w) + 1
        /\ w # y => W!Count(Append(s, y), w) = W!Count(s, w)
    BY <1>11, CountMore, Zenon
  <2> QED BY <1>11, <2>1
<1>13. \A w \in {"signed", "unsigned"} : W!Count(t, w) <= 1
  BY <1>10 DEF Kept, W!WellFormed
<1>14. \A w \in {"signed", "unsigned"} : W!Count(s, w) <= 1
  <2> SUFFICES ASSUME NEW w \in {"signed", "unsigned"} PROVE W!Count(s, w) <= 1
    OBVIOUS
  <2>1. W!Count(s, w) \in Nat /\ W!Count(s, w) <= W!Count(t, w) /\ W!Count(t, w) <= 1
    BY <1>12, <1>13
  <2>2. W!Count(t, w) \in Nat
    BY <1>11, CountIsNatural
  <2> QED BY <2>1, <2>2
<1>15. \A m \in 1 .. n : W!Tag(q, m) => q[m + 1].token \in Names \union {W!Brace}
  BY <1>9 DEF Kept, W!WellFormed
<1>16. \A m \in 1 .. n : W!InType(q, m) => q[m + 1].token \notin Keywords \union Tags
  BY <1>9 DEF Kept, W!NamesFollowTypes
<1>17. W!TypesEndInLine(q) => \A m \in 1 .. n : W!InType(q, m) => q[m + 1].line = q[m].line
  BY <1>9 DEF W!TypesEndInLine
<1>18. \A m \in 1 .. n - 1 : q[m + 1] = r[m + 1] /\ q[m] = r[m]
  BY <1>3, <1>7
<1>19. W!WellFormed(r)
  <2>1. \A m \in 1 .. n - 1 : W!Tag(r, m) => r[m + 1].token \in Names \union {W!Brace}
    BY <1>6, <1>7, <1>15, <1>18
  <2> QED BY <1>1, <1>10, <1>14, <2>1 DEF W!WellFormed
<1>20. W!NamesFollowTypes(r)
  <2>1. \A m \in 1 .. n - 1 : W!InType(r, m) => r[m + 1].token \notin Keywords \union Tags
    BY <1>4, <1>7, <1>16, <1>18
  <2> QED BY <1>1, <2>1 DEF W!NamesFollowTypes
<1>21. W!TypesEndInLine(q) => W!TypesEndInLine(r)
  <2>1. ASSUME W!TypesEndInLine(q)
        PROVE  \A m \in 1 .. n - 1 : W!InType(r, m) => r[m + 1].line = r[m].line
    BY <1>4, <1>7, <1>17, <1>18, <2>1
  <2> QED BY <1>1, <2>1 DEF W!TypesEndInLine
<1>22. ASSUME W!Tag(r, n) PROVE x.token \in Names \union {W!Brace}
  <2>1. n \in 1 .. n
    BY <1>5, <1>22 DEF W!Tag
  <2> QED BY <1>3, <1>6, <1>15, <1>22, <2>1
<1>23. ASSUME W!InType(r, n)
       PROVE  /\ n # 0 /\ x.token \notin Keywords \union Tags
              /\ W!TypesEndInLine(q) => x.line = r[n].line
  <2>1. n \in 1 .. n /\ n \in 0 .. n /\ n # 0
    BY <1>3, <1>4, <1>23
  <2>2. W!InType(q, n) /\ q[n] = r[n] /\ q[n + 1] = x
    BY <1>3, <1>4, <1>23, <2>1
  <2> QED BY <1>16, <1>17, <2>1, <2>2
<1> QED BY <1>1, <1>10, <1>13, <1>19, <1>20, <1>21, <1>22, <1>23 DEF Kept

\* What append_lexem puts off after the tokens r: the words of the type that
\* ends with the last of them, its const, or the tag that the last of them is.
Waiting(r, words, const, tag) ==
    /\ words \in Seq(W!Specifiers) /\ const \in BOOLEAN
    /\ \A w : W!Count(words, w) <= W!Count(W!Tokens(r), w)
    /\ W!InType(r, Len(r)) =>
           /\ words # <<>> /\ tag = "none"
           /\ \A w \in W!Specifiers : W!Count(words, w) = W!Count(W!Run(r, Len(r)), w)
           /\ const <=> W!Contains(W!Run(r, Len(r)), "const")
    /\ ~W!InType(r, Len(r)) =>
           /\ words = <<>> /\ ~const
           /\ W!Tag(r, Len(r)) => tag = r[Len(r)].token
           /\ ~W!Tag(r, Len(r)) => tag = "none"

\* What the last token stands for, by the kinds of it and of the one before.
LEMMA LastLexemes ==
    ASSUME NEW r, NEW x, NEW q, Grown(r, x, q), NEW n, n = Len(r)
    PROVE  /\ W!InType(q, n + 1) => W!Lexemes(q, n + 1) = <<>> /\ Late(r, q) = <<>>
           /\ ~W!InType(q, n + 1) /\ W!InType(r, n) => Late(r, q) = W!Type(r, n)
           /\ ~W!InType(r, n) => Late(r, q) = <<>>
           /\ W!Tag(q, n + 1) <=> x.token \in Tags
           /\ ~W!InType(q, n + 1) /\ x.token \in Tags => W!Lexemes(q, n + 1) = <<>>
           /\ ~W!InType(q, n + 1) /\ x.token \notin Tags /\ W!Tag(r, n) =>
                  W!Lexemes(q, n + 1) =
                      IF x.token \in Names THEN <<W!Tagged(r[n].token, x.token)>>
                      ELSE <<W!Tagged(r[n].token, ""), W!Number(W!Brace)>>
           /\ ~W!InType(q, n + 1) /\ x.token \notin Tags /\ ~W!Tag(r, n) =>
                  W!Lexemes(q, n + 1) =
                      <<IF x.token \in Names THEN W!Word(x.token) ELSE W!Number(x.token)>>
<1>1. r \in Stream
  BY DEF Grown
<1>2. /\ n \in Nat /\ q \in Stream /\ Len(q) = n + 1 /\ q[n + 1] = x
      /\ \A m \in 1 .. n : q[m] = r[m]
  BY <1>1, Longer
<1>3. DOMAIN r = 1 .. n /\ DOMAIN q = 1 .. n + 1
  BY <1>1, <1>2 DEF Stream
<1>4. W!Tag(q, n + 1) <=> x.token \in Tags
  BY <1>2, <1>3 DEF W!Tag
<1>5. W!Tag(q, n) <=> W!Tag(r, n)
  BY <1>2, <1>3 DEF W!Tag
<1>6. W!Tag(r, n) => q[n] = r[n]
  BY <1>2, <1>3 DEF W!Tag
<1>7. n + 1 - 1 = n
  BY <1>2
<1>8. W!InType(q, n + 1) => W!Lexemes(q, n + 1) = <<>>
  BY <1>2 DEF W!Lexemes
<1>9. ~W!InType(q, n + 1) /\ x.token \in Tags => W!Lexemes(q, n + 1) = <<>>
  BY <1>4 DEF W!Lexemes
<1>10. ~W!InType(q, n + 1) /\ x.token \notin Tags /\ W!Tag(r, n) =>
           W!Lexemes(q, n + 1) =
               IF x.token \in Names THEN <<W!Tagged(r[n].token, x.token)>>
               ELSE <<W!Tagged(r[n].token, ""), W!Number(W!Brace)>>
  <2>1. PICK k : k = n + 1
    OBVIOUS
  <2>2. /\ q[k] = x /\ k - 1 = n /\ (W!Tag(q, k) <=> x.token \in Tags)
        /\ (W!Tag(q, k - 1) <=> W!Tag(r, n))
        /\ W!Tag(r, n) => q[k - 1].token = r[n].token
    BY <1>2, <1>4, <1>5, <1>6, <1>7, <2>1
  <2>3. ~W!InType(q, k) /\ x.token \notin Tags /\ W!Tag(r, n) =>
            W!Lexemes(q, k) =
                IF x.token \in Names THEN <<W!Tagged(q[k - 1].token, x.token)>>
                ELSE <<W!Tagged(q[k - 1].token, ""), W!Number(W!Brace)>>
    BY <2>2, Zenon DEF W!Lexemes
  <2> QED BY <2>1, <2>2, <2>3
<1>11. ~W!InType(q, n + 1) /\ x.token \notin Tags /\ ~W!Tag(r, n) =>
           W!Lexemes(q, n + 1) =
               <<IF x.token \in Names THEN W!Word(x.token) ELSE W!Number(x.token)>>
  <2>1. PICK k : k = n + 1
    OBVIOUS
  <2>2. /\ q[k] = x /\ (W!Tag(q, k) <=> x.token \in Tags)
        /\ (W!Tag(q, k - 1) <=> W!Tag(r, n))
    BY <1>2, <1>4, <1>5, <1>7, <2>1
  <2>3. ~W!InType(q, k) /\ x.token \notin Tags /\ ~W!Tag(r, n) =>
            W!Lexemes(q, k) =
                <<IF x.token \in Names THEN W!Word(x.token) ELSE W!Number(x.token)>>
    BY <2>2, Zenon DEF W!Lexemes
  <2> QED BY <2>1, <2>3
<1>12. Late(r, q) = IF W!InType(r, n) /\ ~W!InType(q, n + 1) THEN W!Type(r, n) ELSE <<>>
  BY <1>2 DEF Late
<1> QED BY <1>4, <1>8, <1>9, <1>10, <1>11, <1>12

\* No kind of token has the tokens of another.
LEMMA Kinds ==
    ASSUME NEW t
    PROVE  /\ t \in W!Specifiers => t \notin Tags /\ t \notin Names /\ t # "const" /\ t # W!Brace
           /\ t = "const" => t \notin Tags /\ t \notin Names /\ t # W!Brace
           /\ t \in Names => t \notin Tags /\ t # W!Brace
           /\ t \in Tags => t # "none"
           /\ t = W!Brace => t \notin W!Words
<1>1. "const" \notin W!Specifiers /\ W!Brace \notin W!Specifiers /\ W!Brace # "const"
  BY DEF W!Specifiers, W!Brace
<1> QED BY <1>1, TokenAssumption DEF W!Words

LEMMA ContainsMore ==
    ASSUME NEW T, NEW s \in Seq(T), NEW t \in T, NEW c
    PROVE  W!Contains(Append(s, t), c) <=> W!Contains(s, c) \/ c = t
<1>1. PICK u : u = Append(s, t)
  OBVIOUS
<1>2. /\ Len(u) = Len(s) + 1 /\ Len(s) \in Nat /\ u[Len(s) + 1] = t
      /\ \A i \in 1 .. Len(s) : u[i] = s[i]
  BY <1>1
<1>3. \A i \in 1 .. Len(u) : i \in 1 .. Len(s) \/ i = Len(s) + 1
  BY <1>2
<1>4. (\A i \in 1 .. Len(s) : i \in 1 .. Len(u)) /\ Len(s) + 1 \in 1 .. Len(u)
  BY <1>2
<1>5. W!Contains(u, c) <=> \E i \in 1 .. Len(u) : u[i] = c
  BY DEF W!Contains
<1>6. W!Contains(s, c) <=> \E i \in 1 .. Len(s) : s[i] = c
  BY DEF W!Contains
<1> QED BY <1>1, <1>2, <1>3, <1>4, <1>5, <1>6

LEMMA ContainsOne == \A t, c : W!Contains(<<t>>, c) <=> c = t
BY DEF W!Contains

\* The writer has written what the tokens q stand for, one more than r, and
\* puts off what comes next.
Emits(r, x, q) ==
    /\ out' = out \o W!Under(Late(r, q) \o W!Lexemes(q, Len(r) + 1), x.line)
    /\ Waiting(q, queue', postfix_const', prev_lexem')

LEMMA NothingWritten ==
    ASSUME out \in Seq(Line), NEW at
    PROVE  out \o W!Under(<<>> \o <<>>, at) = out
<1>1. <<>> \o <<>> = <<>>
  OBVIOUS
<1>2. W!Under(<<>>, at) = <<>>
  BY DEF W!Under
<1> QED BY <1>1, <1>2, ConcatEmptySeq

\* Words are counted as they come.
LEMMA TokensCount ==
    ASSUME NEW r, NEW x, NEW q, Grown(r, x, q), NEW w
    PROVE  /\ W!Count(W!Tokens(r), w) \in Nat /\ W!Count(W!Tokens(q), w) \in Nat
           /\ w = x.token => W!Count(W!Tokens(q), w) = W!Count(W!Tokens(r), w) + 1
           /\ w # x.token => W!Count(W!Tokens(q), w) = W!Count(W!Tokens(r), w)
<1>1. PICK s, t, y : s = W!Tokens(r) /\ t = W!Tokens(q) /\ y = x.token
  OBVIOUS
<1>2. s \in Seq(Token) /\ y \in Token /\ t = Append(s, y)
  BY <1>1, TokensLonger
<1>3. /\ W!Count(s, w) \in Nat
      /\ w = y => W!Count(Append(s, y), w) = W!Count(s, w) + 1
      /\ w # y => W!Count(Append(s, y), w) = W!Count(s, w)
  BY <1>2, CountMore, Zenon
<1> QED BY <1>1, <1>2, <1>3

LEMMA CollectEmits ==
    ASSUME NEW r, NEW x, NEW q, Grown(r, x, q), Kept(q), out \in Seq(Line),
           Waiting(r, queue, postfix_const, prev_lexem), W!Collect(x.token)
    PROVE  Emits(r, x, q)
<1>1. PICK n, y : n = Len(r) /\ y = x.token
  OBVIOUS
<1>2. /\ y \in W!Specifiers /\ queue' = Append(queue, y) /\ postfix_const' = postfix_const
      /\ prev_lexem' = prev_lexem /\ out' = out /\ (queue # <<>> \/ prev_lexem = "none")
  BY <1>1 DEF W!Collect
<1>3. Len(q) = n + 1 /\ n \in Nat /\ r \in Stream
  BY <1>1, Longer DEF Grown
<1>4. W!InType(q, n + 1)
  BY <1>1, <1>2, InTypeLonger
<1>5. W!Lexemes(q, n + 1) = <<>> /\ Late(r, q) = <<>>
  BY <1>1, <1>4, LastLexemes
<1>6. out' = out \o W!Under(Late(r, q) \o W!Lexemes(q, n + 1), x.line)
  BY <1>2, <1>5, NothingWritten
<1>7. /\ queue \in Seq(W!Specifiers) /\ postfix_const \in BOOLEAN
      /\ \A w : W!Count(queue, w) <= W!Count(W!Tokens(r), w)
  BY DEF Waiting
<1>8. prev_lexem = "none"
  BY <1>1, <1>2 DEF Waiting
<1>9. ASSUME NEW w
      PROVE  /\ W!Count(queue, w) \in Nat
             /\ w = y => W!Count(queue', w) = W!Count(queue, w) + 1
             /\ w # y => W!Count(queue', w) = W!Count(queue, w)
  BY <1>2, <1>7, CountMore, Zenon
<1>10. \A w : W!Count(queue', w) <= W!Count(W!Tokens(q), w)
  <2> SUFFICES ASSUME NEW w PROVE W!Count(queue', w) <= W!Count(W!Tokens(q), w)
    OBVIOUS
  <2> QED BY <1>1, <1>7, <1>9, TokensCount
<1>11. PICK a, b : a = W!Run(r, n) /\ b = W!Run(q, n + 1)
  OBVIOUS
<1>12. b = IF W!InType(r, n) THEN Append(a, y) ELSE <<y>>
  BY <1>1, <1>4, <1>11, RunGrows
<1>13. CASE W!InType(r, n)
  <2>1. n \in 1 .. Len(r)
    BY <1>1, <1>3, <1>13, LexemesLate
  <2>2. a \in Seq(Token)
    BY <1>3, <1>11, <1>13, <2>1, RunTyped
  <2>3. y \in Token
    BY <1>2 DEF Token, W!Words
  <2>4. /\ \A w \in W!Specifiers : W!Count(queue, w) = W!Count(a, w)
        /\ postfix_const <=> W!Contains(a, "const")
    BY <1>1, <1>11, <1>13 DEF Waiting
  <2>5. W!Contains(b, "const") <=> W!Contains(a, "const") \/ "const" = y
    BY <1>12, <1>13, <2>2, <2>3, ContainsMore
  <2>6. y # "const"
    BY <1>2, Kinds
  <2>7. ASSUME NEW w \in W!Specifiers PROVE W!Count(queue', w) = W!Count(b, w)
    <3>1. /\ w = y => W!Count(b, w) = W!Count(a, w) + 1
          /\ w # y => W!Count(b, w) = W!Count(a, w)
      BY <1>12, <1>13, <2>2, <2>3, CountMore, Zenon
    <3> QED BY <1>9, <2>4, <3>1
  <2> QED BY <1>1, <1>2, <1>3, <1>4, <1>6, <1>7, <1>8, <1>10, <1>11, <2>4, <2>5, <2>6, <2>7
          DEF Emits, Waiting
<1>14. CASE ~W!InType(r, n)
  <2>1. queue = <<>> /\ ~postfix_const
    BY <1>1, <1>14 DEF Waiting
  <2>2. queue' = <<y>> /\ b = <<y>>
    BY <1>2, <1>12, <1>14, <2>1
  <2>3. ~W!Contains(b, "const")
    BY <1>2, <2>2, ContainsOne, Kinds
  <2>4. /\ queue' \in Seq(W!Specifiers) /\ queue' # <<>>
        /\ postfix_const' \in BOOLEAN /\ (postfix_const' <=> W!Contains(b, "const"))
        /\ \A w : W!Count(queue', w) = W!Count(b, w)
    BY <1>2, <1>7, <2>1, <2>2, <2>3
  <2> QED BY <1>1, <1>2, <1>3, <1>4, <1>6, <1>8, <1>10, <1>11, <2>4 DEF Emits, Waiting
<1> QED BY <1>13, <1>14

LEMMA PostfixConstEmits ==
    ASSUME NEW r, NEW x, NEW q, Grown(r, x, q), Kept(q), out \in Seq(Line),
           Waiting(r, queue, postfix_const, prev_lexem), W!PostfixConst(x.token)
    PROVE  Emits(r, x, q)
<1>1. PICK n, y : n = Len(r) /\ y = x.token
  OBVIOUS
<1>2. /\ y = "const" /\ queue # <<>> /\ queue' = queue /\ postfix_const' = TRUE
      /\ prev_lexem' = prev_lexem /\ out' = out
  BY <1>1 DEF W!PostfixConst
<1>3. Len(q) = n + 1 /\ n \in Nat /\ r \in Stream
  BY <1>1, Longer DEF Grown
<1>4. W!InType(r, n)
  BY <1>1, <1>2 DEF Waiting
<1>5. W!InType(q, n + 1)
  BY <1>1, <1>2, <1>4, InTypeLonger
<1>6. W!Lexemes(q, n + 1) = <<>> /\ Late(r, q) = <<>>
  BY <1>1, <1>5, LastLexemes
<1>7. out' = out \o W!Under(Late(r, q) \o W!Lexemes(q, n + 1), x.line)
  BY <1>2, <1>6, NothingWritten
<1>8. PICK a, b : a = W!Run(r, n) /\ b = W!Run(q, n + 1)
  OBVIOUS
<1>9. b = Append(a, y)
  BY <1>1, <1>4, <1>5, <1>8, RunGrows
<1>10. n \in 1 .. Len(r)
  BY <1>1, <1>3, <1>4, LexemesLate
<1>11. a \in Seq(Token) /\ y \in Token
  <2>1. a \in Seq(Token)
    BY <1>3, <1>4, <1>8, <1>10, RunTyped
  <2> QED BY <1>2, <2>1 DEF Token, W!Words
<1>12. /\ queue \in Seq(W!Specifiers) /\ prev_lexem = "none"
       /\ \A w : W!Count(queue, w) <= W!Count(W!Tokens(r), w)
       /\ \A w \in W!Specifiers : W!Count(queue, w) = W!Count(a, w)
  BY <1>1, <1>4, <1>8 DEF Waiting
<1>13. W!Contains(b, "const")
  BY <1>2, <1>9, <1>11, ContainsMore
<1>14. ASSUME NEW w \in W!Specifiers PROVE W!Count(queue', w) = W!Count(b, w)
  <2>1. w # y
    BY <1>2, Kinds
  <2>2. W!Count(Append(a, y), w) = W!Count(a, w)
    BY <1>11, <2>1, CountMore, Zenon
  <2> QED BY <1>2, <1>9, <1>12, <2>2
<1>15. \A w : W!Count(queue', w) <= W!Count(W!Tokens(q), w)
  <2> SUFFICES ASSUME NEW w PROVE W!Count(queue', w) <= W!Count(W!Tokens(q), w)
    OBVIOUS
  <2>1. W!Count(queue, w) \in Nat
    BY <1>12, CountIsNat
  <2> QED BY <1>1, <1>2, <1>12, <2>1, TokensCount
<1> QED BY <1>1, <1>2, <1>3, <1>5, <1>7, <1>8, <1>12, <1>13, <1>14, <1>15 DEF Emits, Waiting

\* Nothing is put off behind a token that is no part of a type and no tag, and
\* only the tag behind a tag.
LEMMA NothingWaits ==
    ASSUME NEW r, NEW x, NEW q, Grown(r, x, q), ~W!InType(q, Len(r) + 1), NEW tag,
           x.token \in Tags => tag = x.token, x.token \notin Tags => tag = "none"
    PROVE  Waiting(q, <<>>, FALSE, tag)
<1>1. PICK n : n = Len(r)
  OBVIOUS
<1>2. r \in Stream
  BY DEF Grown
<1>3. Len(q) = n + 1 /\ n \in Nat /\ q[n + 1] = x
  BY <1>1, <1>2, Longer
<1>4. W!Tag(q, n + 1) <=> x.token \in Tags
  BY <1>1, LastLexemes
<1>5. \A w : W!Count(<<>>, w) <= W!Count(W!Tokens(q), w)
  <2> SUFFICES ASSUME NEW w PROVE W!Count(<<>>, w) <= W!Count(W!Tokens(q), w)
    OBVIOUS
  <2>1. W!Count(<<>>, w) = 0
    BY CountOne
  <2>2. W!Count(W!Tokens(q), w) \in Nat
    BY TokensCount
  <2> QED BY <2>1, <2>2
<1>6. <<>> \in Seq(W!Specifiers)
  OBVIOUS
<1> QED BY <1>1, <1>3, <1>4, <1>5, <1>6 DEF Waiting

LEMMA CloseEmits ==
    ASSUME NEW r, NEW x, NEW q, Grown(r, x, q), Kept(q), out \in Seq(Line), x.token \in Token,
           Waiting(r, queue, postfix_const, prev_lexem), W!Close(x.token, x.line), status' = "run"
    PROVE  Emits(r, x, q)
<1>1. PICK n, y : n = Len(r) /\ y = x.token
  OBVIOUS
<1>2. PICK a : a = W!Run(r, n)
  OBVIOUS
<1>3. Len(q) = n + 1 /\ n \in Nat /\ r \in Stream
  BY <1>1, Longer DEF Grown
<1>4. /\ queue # <<>> /\ y \notin W!Specifiers /\ y # "const"
      /\ queue' = <<>> /\ prev_lexem' = "none"
  BY <1>1 DEF W!Close
<1>5. W!InType(r, n)
  BY <1>1, <1>4 DEF Waiting
<1>6. ~W!InType(q, n + 1)
  BY <1>1, <1>4, InTypeLonger
<1>7. /\ queue \in Seq(W!Specifiers)
      /\ \A w : W!Count(queue, w) <= W!Count(W!Tokens(r), w)
      /\ \A w \in W!Specifiers : W!Count(queue, w) = W!Count(a, w)
      /\ postfix_const <=> W!Contains(a, "const")
  BY <1>1, <1>2, <1>5 DEF Waiting
<1>8. W!Count(queue, "signed") <= 1 /\ W!Count(queue, "unsigned") <= 1
  <2> SUFFICES ASSUME NEW w \in {"signed", "unsigned"} PROVE W!Count(queue, w) <= 1
    OBVIOUS
  <2>1. W!Count(W!Tokens(q), w) <= 1
    BY KeptShorter
  <2>2. W!Count(queue, w) \in Nat
    BY <1>7, CountIsNat
  <2>3. W!Count(W!Tokens(r), w) \in Nat /\ W!Count(W!Tokens(q), w) \in Nat
        /\ W!Count(W!Tokens(r), w) <= W!Count(W!Tokens(q), w)
    BY TokensCount
  <2> QED BY <1>7, <2>1, <2>2, <2>3
<1>9. W!Translate(queue) = W!CType(a)
  BY <1>7, <1>8, TranslatesAsInC, TypeByCounts
<1>10. y \notin Keywords \union Tags
  BY <1>1, <1>5, KeptShorter
<1>11. y \in W!Words <=> y \in Names
  BY <1>4, <1>10 DEF W!Words
<1>12. ~W!Tag(r, n)
  <2> SUFFICES ASSUME W!Tag(r, n) PROVE FALSE
    OBVIOUS
  <2>1. y \in Names \union {W!Brace} /\ r[n].token \in Tags
    BY <1>1, KeptShorter DEF W!Tag
  <2>2. r[n].token \in W!Specifiers \union {"const"}
    BY <1>3, <1>5 DEF W!InType
  <2> QED BY <2>1, <2>2, Kinds
<1>13. PICK new : new = IF y \in Names THEN W!Word(y) ELSE W!Number(y)
  OBVIOUS
<1>14. W!Lexemes(q, n + 1) = <<new>>
  BY <1>1, <1>6, <1>10, <1>12, <1>13, LastLexemes
<1>15. Late(r, q) = W!Type(r, n)
  BY <1>1, <1>5, <1>6, LastLexemes
<1>16. PICK t, c : t = W!Number(W!CType(a)) /\ c = W!Number("const")
  OBVIOUS
<1>17. W!Type(r, n) = <<t>> \o (IF W!Contains(a, "const") THEN <<c>> ELSE <<>>)
  BY <1>2, <1>16 DEF W!Type
<1>18. W!Translate(queue) # "error" /\ postfix_const' = FALSE
  BY DEF W!Close
<1>19. out' = out \o W!Under(<<t>> \o (IF postfix_const THEN <<c>> ELSE <<>>) \o <<new>>, x.line)
  <2>1. W!Write(<<W!Number(W!Translate(queue))>>
                    \o (IF postfix_const THEN <<W!Number("const")>> ELSE <<>>)
                    \o <<IF x.token \in W!Words THEN W!Word(x.token) ELSE W!Number(x.token)>>, x.line)
    BY <1>18, Zenon DEF W!Close
  <2>2. (IF x.token \in W!Words THEN W!Word(x.token) ELSE W!Number(x.token)) = new
    BY <1>1, <1>11, <1>13
  <2> QED BY <1>9, <1>16, <2>1, <2>2 DEF W!Write
<1>20. out' = out \o W!Under(Late(r, q) \o W!Lexemes(q, n + 1), x.line)
  BY <1>7, <1>14, <1>15, <1>17, <1>19
<1>21. Waiting(q, <<>>, FALSE, "none")
  BY <1>1, <1>6, <1>10, NothingWaits
<1> QED BY <1>1, <1>4, <1>18, <1>20, <1>21 DEF Emits

LEMMA DeferEmits ==
    ASSUME NEW r, NEW x, NEW q, Grown(r, x, q), Kept(q), out \in Seq(Line),
           Waiting(r, queue, postfix_const, prev_lexem), W!Defer(x.token)
    PROVE  Emits(r, x, q)
<1>1. PICK n, y : n = Len(r) /\ y = x.token
  OBVIOUS
<1>2. /\ y \in Tags /\ queue = <<>> /\ queue' = <<>> /\ prev_lexem' = y
      /\ postfix_const' = postfix_const /\ out' = out
  BY <1>1 DEF W!Defer
<1>3. ~W!InType(r, n) /\ postfix_const = FALSE
  BY <1>1, <1>2 DEF Waiting
<1>4. ~W!InType(q, n + 1)
  BY <1>1, <1>2, <1>3, InTypeLonger, Kinds
<1>5. W!Lexemes(q, n + 1) = <<>> /\ Late(r, q) = <<>>
  BY <1>1, <1>2, <1>3, <1>4, LastLexemes
<1>6. out' = out \o W!Under(Late(r, q) \o W!Lexemes(q, n + 1), x.line)
  BY <1>2, <1>5, NothingWritten
<1>7. Waiting(q, <<>>, FALSE, y)
  BY <1>1, <1>2, <1>4, NothingWaits
<1> QED BY <1>1, <1>2, <1>3, <1>6, <1>7 DEF Emits

LEMMA TagFollowedEmits ==
    ASSUME NEW r, NEW x, NEW q, Grown(r, x, q), Kept(q), out \in Seq(Line),
           Waiting(r, queue, postfix_const, prev_lexem), W!TagFollowed(x.token, x.line)
    PROVE  Emits(r, x, q)
<1>1. PICK n, y, tag : n = Len(r) /\ y = x.token /\ tag = prev_lexem
  OBVIOUS
<1>2. /\ queue = <<>> /\ queue' = <<>> /\ tag # "none" /\ prev_lexem' = "none"
      /\ postfix_const' = postfix_const
  BY <1>1 DEF W!TagFollowed
<1>3. ~W!InType(r, n) /\ postfix_const = FALSE /\ W!Tag(r, n) /\ tag = r[n].token
  BY <1>1, <1>2 DEF Waiting
<1>4. y \in Names \union {W!Brace}
  BY <1>1, <1>3, KeptShorter
<1>5. y \notin W!Specifiers /\ y # "const" /\ y \notin Tags
  <2>1. W!Brace \notin Tags
    BY TokenAssumption
  <2> QED BY <1>4, <2>1, Kinds
<1>6. ~W!InType(q, n + 1)
  BY <1>1, <1>5, InTypeLonger
<1>7. /\ Late(r, q) = <<>>
      /\ W!Lexemes(q, n + 1) = IF y \in Names THEN <<W!Tagged(tag, y)>>
                               ELSE <<W!Tagged(tag, ""), W!Number(W!Brace)>>
  BY <1>1, <1>3, <1>5, <1>6, LastLexemes
<1>8. W!Write(CASE y \in W!Words -> <<W!Tagged(tag, y)>>
                [] y = W!Brace -> <<W!Tagged(tag, ""), W!Number(W!Brace)>>
                [] OTHER -> <<>>, x.line)
  BY <1>1, Zenon DEF W!TagFollowed
<1>9. out' = out \o W!Under(W!Lexemes(q, n + 1), x.line)
  <2>1. CASE y \in Names
    <3>1. y \in W!Words /\ y # W!Brace
      BY <2>1, Kinds DEF W!Words
    <3>2. W!Write(<<W!Tagged(tag, y)>>, x.line)
      BY <1>8, <3>1, Zenon
    <3>3. W!Lexemes(q, n + 1) = <<W!Tagged(tag, y)>>
      BY <1>7, <2>1
    <3> QED BY <3>2, <3>3 DEF W!Write
  <2>2. CASE y \notin Names
    <3>1. y = W!Brace /\ y \notin W!Words
      BY <1>4, <2>2, Kinds
    <3>2. W!Write(<<W!Tagged(tag, ""), W!Number(W!Brace)>>, x.line)
      BY <1>8, <3>1, Zenon
    <3>3. W!Lexemes(q, n + 1) = <<W!Tagged(tag, ""), W!Number(W!Brace)>>
      BY <1>7, <2>2
    <3> QED BY <3>2, <3>3 DEF W!Write
  <2> QED BY <2>1, <2>2
<1>10. out' = out \o W!Under(Late(r, q) \o W!Lexemes(q, n + 1), x.line)
  <2>1. PICK m : m = W!Lexemes(q, n + 1)
    OBVIOUS
  <2>2. m \in Seq(Lexeme)
    BY <1>1, <2>1, LateTyped
  <2>3. <<>> \o m = m
    BY <2>2, ConcatEmptySeq
  <2> QED BY <1>7, <1>9, <2>1, <2>3
<1>11. Waiting(q, <<>>, FALSE, "none")
  BY <1>1, <1>5, <1>6, NothingWaits
<1> QED BY <1>1, <1>2, <1>3, <1>10, <1>11 DEF Emits

LEMMA PlainEmits ==
    ASSUME NEW r, NEW x, NEW q, Grown(r, x, q), Kept(q), out \in Seq(Line),
           Waiting(r, queue, postfix_const, prev_lexem), W!Plain(x.token, x.line)
    PROVE  Emits(r, x, q)
<1>1. PICK n, y : n = Len(r) /\ y = x.token
  OBVIOUS
<1>2. /\ queue = <<>> /\ queue' = <<>> /\ prev_lexem = "none" /\ prev_lexem' = "none"
      /\ y \notin W!Specifiers /\ y \notin Tags /\ postfix_const' = postfix_const
      /\ out' = out \o W!Under(<<IF y \in Names THEN W!Word(y) ELSE W!Number(y)>>, x.line)
  BY <1>1 DEF W!Plain, W!Write
<1>3. ~W!InType(r, n) /\ postfix_const = FALSE
  BY <1>1, <1>2 DEF Waiting
<1>4. ~W!Tag(r, n)
  <2> SUFFICES ASSUME W!Tag(r, n) PROVE FALSE
    OBVIOUS
  <2>1. prev_lexem = r[n].token /\ r[n].token \in Tags
    BY <1>1, <1>3 DEF Waiting, W!Tag
  <2> QED BY <1>2, <2>1, Kinds
<1>5. ~W!InType(q, n + 1)
  BY <1>1, <1>2, <1>3, InTypeLonger
<1>6. /\ Late(r, q) = <<>>
      /\ W!Lexemes(q, n + 1) = <<IF y \in Names THEN W!Word(y) ELSE W!Number(y)>>
  BY <1>1, <1>2, <1>3, <1>4, <1>5, LastLexemes
<1>7. out' = out \o W!Under(Late(r, q) \o W!Lexemes(q, n + 1), x.line)
  <2>1. PICK m : m = W!Lexemes(q, n + 1)
    OBVIOUS
  <2>2. m \in Seq(Lexeme)
    BY <1>1, <2>1, LateTyped
  <2>3. <<>> \o m = m
    BY <2>2, ConcatEmptySeq
  <2> QED BY <1>2, <1>6, <2>1, <2>3
<1>8. Waiting(q, <<>>, FALSE, "none")
  BY <1>1, <1>2, <1>5, NothingWaits
<1> QED BY <1>1, <1>2, <1>3, <1>7, <1>8 DEF Emits

\* What was written is what the tokens r stand for, up to the line of a type.
Alike(o, r) ==
    /\ o \in Seq(Line)
    /\ W!Written(o) = W!Written(W!Meant(r))
    /\ W!TypesEndInLine(r) => o = W!Meant(r)

Done ==
    status = "run" /\ Kept(read) =>
        Waiting(read, queue, postfix_const, prev_lexem) /\ Alike(out, read)

Streaming == read \in Stream /\ status \in {"run", "thrown"}

LEMMA InitDone == W!Init => Streaming /\ Done
<1> SUFFICES ASSUME W!Init PROVE Streaming /\ Done
  OBVIOUS
<1>1. /\ read = <<>> /\ queue = <<>> /\ postfix_const = FALSE /\ prev_lexem = "none"
      /\ out = <<>> /\ status = "run"
  BY DEF W!Init
<1>2. Streaming
  BY <1>1 DEF Streaming, Stream
<1>3. ~W!InType(<<>>, Len(<<>>)) /\ ~W!Tag(<<>>, Len(<<>>))
  BY DEF W!InType, W!Tag
<1>4. W!Tokens(<<>>) = <<>>
  BY DEF W!Tokens
<1>5. Waiting(<<>>, <<>>, FALSE, "none")
  <2>1. \A w : W!Count(<<>>, w) = 0
    BY CountOne
  <2>2. <<>> \in Seq(W!Specifiers)
    OBVIOUS
  <2> QED BY <1>3, <1>4, <2>1, <2>2 DEF Waiting
<1>6. W!Meant(<<>>) = <<>>
  <2>1. [k \in DOMAIN <<>> |-> W!Under(W!Lexemes(<<>>, k), <<>>[k].line)] = <<>>
    OBVIOUS
  <2> QED BY <2>1, Flattened0 DEF W!Meant
<1>7. out \in Seq(Line)
  BY <1>1
<1> QED BY <1>1, <1>2, <1>5, <1>6, <1>7 DEF Done, Alike

\* One token more: what is written and what is meant grow alike.
LEMMA GrowAlike ==
    ASSUME NEW r, NEW x, NEW q, Grown(r, x, q), Kept(q), NEW o, Alike(o, r), NEW p,
           p = o \o W!Under(Late(r, q) \o W!Lexemes(q, Len(r) + 1), x.line)
    PROVE  Alike(p, q)
<1>0. /\ o \in Seq(Line) /\ W!Written(o) = W!Written(W!Meant(r))
      /\ W!TypesEndInLine(r) => o = W!Meant(r)
  BY DEF Alike
<1>1. PICK late, new : late = Late(r, q) /\ new = W!Lexemes(q, Len(r) + 1)
  OBVIOUS
<1>2. PICK at, was : at = x.line /\ was = r[Len(r)].line
  OBVIOUS
<1>3. late \in Seq(Lexeme) /\ new \in Seq(Lexeme) /\ at \in Int
  BY <1>1, <1>2, LateTyped
<1>4. PICK u, v, w, m : /\ u = W!Under(late, at) /\ v = W!Under(new, at)
                        /\ w = W!Under(late, was) /\ m = W!Meant(r)
  OBVIOUS
<1>5. u \in Seq(Line) /\ v \in Seq(Line) /\ W!Under(late \o new, at) = u \o v
  BY <1>3, <1>4, UnderTyped, UnderParts
<1>6. p = o \o (u \o v)
  <2>1. p = o \o W!Under(late \o new, at)
    BY <1>1, <1>2
  <2> QED BY <1>5, <2>1
<1>7. PICK k : k = o \o u
  OBVIOUS
<1>14. k \in Seq(Line) /\ p = k \o v /\ p \in Seq(Line)
  <2>1. k \in Seq(Line)
    BY <1>0, <1>5, <1>7
  <2>2. (o \o u) \o v = o \o (u \o v)
    BY <1>0, <1>5, ConcatAssociative
  <2>3. p = k \o v
    BY <1>6, <1>7, <2>2
  <2>4. k \o v \in Seq(Line)
    BY <1>5, <2>1
  <2> QED BY <2>1, <2>3, <2>4
<1>8. m \in Seq(Line) /\ W!Meant(q) = (m \o w) \o v
  BY <1>1, <1>2, <1>4, MeantLonger
<1>9. w \in Seq(Line)
  <2>1. CASE W!InType(r, Len(r))
    <3>1. was \in Int
      BY <1>2, <2>1, LateTyped, KeptShorter
    <3> QED BY <1>3, <1>4, <3>1, UnderTyped
  <2>2. CASE ~W!InType(r, Len(r))
    <3>1. w = <<>>
      BY <1>1, <1>2, <1>4, <2>2, MeantLonger
    <3> QED BY <3>1
  <2> QED BY <2>1, <2>2
<1>10. W!Written(u) = late /\ W!Written(w) = late /\ W!Written(v) = new
  BY <1>3, <1>4, WrittenUnder
<1>11. W!Written(p) = (W!Written(o) \o late) \o new
  <2>1. W!Written(k) = W!Written(o) \o W!Written(u)
    BY <1>0, <1>5, <1>7, WrittenParts
  <2>2. W!Written(p) = W!Written(k) \o W!Written(v)
    BY <1>5, <1>14, WrittenParts
  <2> QED BY <1>10, <2>1, <2>2
<1>12. W!Written(W!Meant(q)) = (W!Written(m) \o late) \o new
  <2>1. PICK l : l = m \o w
    OBVIOUS
  <2>2. l \in Seq(Line) /\ W!Meant(q) = l \o v
    BY <1>8, <1>9, <2>1
  <2>3. W!Written(l) = W!Written(m) \o W!Written(w)
    BY <1>8, <1>9, <2>1, WrittenParts
  <2>4. W!Written(W!Meant(q)) = W!Written(l) \o W!Written(v)
    BY <1>5, <2>2, WrittenParts
  <2> QED BY <1>10, <2>3, <2>4
<1>13. ASSUME W!TypesEndInLine(q) PROVE p = W!Meant(q)
  <2>1. W!TypesEndInLine(r) /\ (W!InType(r, Len(r)) => at = was)
    BY <1>2, <1>13, KeptShorter
  <2>2. o = m
    BY <1>0, <1>4, <2>1
  <2>3. u = w
    <3>1. CASE W!InType(r, Len(r))
      BY <1>4, <2>1, <3>1
    <3>2. CASE ~W!InType(r, Len(r))
      <4>1. late = <<>>
        BY <1>1, <3>2 DEF Late
      <4> QED BY <1>4, <4>1 DEF W!Under
    <3> QED BY <3>1, <3>2
  <2> QED BY <1>7, <1>8, <1>14, <2>2, <2>3
<1> QED BY <1>0, <1>4, <1>11, <1>12, <1>13, <1>14 DEF Alike

LEMMA StepDone == Streaming /\ Done /\ [W!Next]_(W!vars) => Streaming' /\ Done'
<1> SUFFICES ASSUME Streaming, Done, [W!Next]_(W!vars) PROVE Streaming' /\ Done'
  OBVIOUS
<1>1. CASE UNCHANGED W!vars
  <2>1. /\ read' = read /\ queue' = queue /\ postfix_const' = postfix_const
        /\ prev_lexem' = prev_lexem /\ out' = out /\ status' = status
    BY <1>1 DEF W!vars
  <2> QED BY <2>1 DEF Streaming, Done
<1>2. CASE W!Next
  <2>1. status = "run" /\ \E token \in W!Words \union Punctuation, line \in W!LastLine .. MaxLine :
                              W!append_lexem(token, line)
    BY <1>2 DEF W!Next
  <2>2. PICK token \in Token, line \in Int : W!append_lexem(token, line)
    BY <2>1 DEF Token
  <2>3. PICK r, x, q : r = read /\ x = [token |-> token, line |-> line] /\ q = Append(r, x)
    OBVIOUS
  <2>4. x \in Item /\ x.token = token /\ x.line = line
    BY <2>2, <2>3 DEF Item, Token
  <2>5. Grown(r, x, q) /\ read' = q
    BY <2>2, <2>3, <2>4 DEF Grown, Streaming, W!append_lexem
  <2>6. \/ W!Collect(token) \/ W!PostfixConst(token) \/ W!Close(token, line)
        \/ W!Defer(token) \/ W!TagFollowed(token, line) \/ W!Plain(token, line)
    BY <2>2 DEF W!append_lexem
  <2>7. status' \in {"run", "thrown"}
    BY <2>1, <2>6 DEF W!Collect, W!PostfixConst, W!Close, W!Defer, W!TagFollowed, W!Plain
  <2>8. Streaming'
    <3>1. q \in Stream
      BY <2>5, Longer
    <3> QED BY <2>5, <2>7, <3>1 DEF Streaming
  <2>9. ASSUME status' = "run", Kept(q)
        PROVE  Waiting(q, queue', postfix_const', prev_lexem') /\ Alike(out', q)
    <3>1. Kept(r)
      BY <2>5, <2>9, KeptShorter
    <3>2. Waiting(r, queue, postfix_const, prev_lexem) /\ Alike(out, r) /\ out \in Seq(Line)
      BY <2>1, <2>3, <3>1 DEF Done, Alike
    <3>3. Emits(r, x, q)
      <4>1. CASE W!Collect(token)
        BY <2>4, <2>5, <2>9, <3>2, <4>1, CollectEmits
      <4>2. CASE W!PostfixConst(token)
        BY <2>4, <2>5, <2>9, <3>2, <4>2, PostfixConstEmits
      <4>3. CASE W!Close(token, line)
        BY <2>2, <2>4, <2>5, <2>9, <3>2, <4>3, CloseEmits
      <4>4. CASE W!Defer(token)
        BY <2>4, <2>5, <2>9, <3>2, <4>4, DeferEmits
      <4>5. CASE W!TagFollowed(token, line)
        BY <2>4, <2>5, <2>9, <3>2, <4>5, TagFollowedEmits
      <4>6. CASE W!Plain(token, line)
        BY <2>4, <2>5, <2>9, <3>2, <4>6, PlainEmits
      <4> QED BY <2>6, <4>1, <4>2, <4>3, <4>4, <4>5, <4>6
    <3>4. PICK o, p : o = out /\ p = out'
      OBVIOUS
    <3>5. p = o \o W!Under(Late(r, q) \o W!Lexemes(q, Len(r) + 1), x.line)
      BY <3>3, <3>4 DEF Emits
    <3>6. Alike(p, q)
      BY <2>5, <2>9, <3>2, <3>4, <3>5, GrowAlike
    <3> QED BY <3>3, <3>4, <3>6 DEF Emits
  <2> QED BY <2>5, <2>8, <2>9 DEF Done
<1> QED BY <1>1, <1>2

\* The lexeme file holds what the tokens stand for, whatever is read and
\* however much of it: a built-in type once its words have ended, a tag with
\* the name or the brace behind it; and each under its line, but for a type
\* that ends its line.
THEOREM NothingPutOffIsLost == W!Spec => []LexemesKept
<1>1. Done => LexemesKept
  BY DEF Done, Alike, Kept, LexemesKept, W!LexemesKept
<1> QED BY <1>1, InitDone, StepDone, PTL DEF W!Spec
=============================================================================
