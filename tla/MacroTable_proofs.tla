------------------------- MODULE MacroTable_proofs -------------------------
(***************************************************************************)
(* Proofs about MacroTable for every capacity, every set of names and any  *)
(* predefined macros.  The inductive invariant is the conjunction of the   *)
(* type, the uniqueness of names, the blankness of the slots not handed    *)
(* out yet and the reserve at the end of the table.  How many slots are    *)
(* spent (SlotsSpent) follows from it step by step.                        *)
(***************************************************************************)
EXTENDS MacroTable, FiniteSetTheorems, TLAPS

\* The two last slots stay unused.
Reserve == def_count <= Capacity - 2

IInv == TypeOK /\ NamesUnique /\ FreshSlotsBlank /\ Reserve

LEMMA BlankTyped == Blank \in Slot
BY ArgAssumption DEF Blank, Slot

LEMMA ElementTyped ==
    ASSUME NEW S, NEW s \in Seq(S), NEW i \in DOMAIN s
    PROVE  s[i] \in S
OBVIOUS

LEMMA InitInv == Init => IInv
<1> SUFFICES ASSUME Init PROVE IInv
  OBVIOUS
<1> USE PredefinedAssumption, CapacityAssumption
<1>1. ASSUME NEW i \in Slots, i < Len(Predefined)
      PROVE  /\ i + 1 \in DOMAIN Predefined
             /\ defintions[i] \in Slot
             /\ defintions[i].name = Predefined[i + 1].name
             /\ defintions[i].name \in Names
  <2>1. /\ defintions[i] = Built(Predefined[i + 1])
        /\ i + 1 \in DOMAIN Predefined
    BY <1>1 DEF Init, Slots
  <2>2. Predefined[i + 1] \in [name : Names, payload : Payloads \union {NoPayload}]
    BY <2>1, ElementTyped
  <2> QED
    BY <2>1, <2>2, FarAssumption DEF Built, Slot
<1>2. ASSUME NEW i \in Slots, i >= Len(Predefined) PROVE defintions[i] = Blank
  BY <1>2 DEF Init, Slots
<1>3. ASSUME NEW i \in Slots PROVE i < Len(Predefined) \/ i >= Len(Predefined)
  BY <1>3 DEF Slots
<1>4. TypeOK
  <2>1. defintions \in [Slots -> Slot]
    BY <1>1, <1>2, <1>3, BlankTyped DEF Init
  <2> QED
    BY <2>1 DEF Init, TypeOK
<1>5. NamesUnique
  <2> SUFFICES ASSUME NEW i \in Slots, NEW j \in Slots,
                      defintions[i].name = defintions[j].name, defintions[i].name # NoName
               PROVE  i = j
    BY DEF NamesUnique
  <2>1. Blank.name = NoName
    BY DEF Blank
  <2>2. i < Len(Predefined) /\ j < Len(Predefined)
    BY <1>2, <1>3, <2>1
  <2>3. Predefined[i + 1].name = Predefined[j + 1].name
    BY <1>1, <2>2
  <2>4. i + 1 = j + 1
    BY <1>1, <2>2, <2>3
  <2> QED
    BY <2>4 DEF Slots
<1>6. FreshSlotsBlank /\ Reserve
  BY <1>2 DEF FreshSlotsBlank, Reserve, Init
<1> QED
  BY <1>4, <1>5, <1>6 DEF IInv

\* The slot a #define writes holds the name already, or is the next free one.
LEMMA DefineInv ==
    ASSUME IInv, NEW n \in Names, NEW args \in ArgLists \union {NoArgs},
           NEW payload \in Payloads \union {NoPayload}, NEW fits \in BOOLEAN,
           Define(n, args, payload, fits)
    PROVE  IInv'
<1> USE CapacityAssumption
<1>1. PICK i \in Slots :
        /\ IF IsDefined(n) THEN IsFirst(i, n) ELSE i = def_count
        /\ defintions' = [defintions EXCEPT
               ![i] = Entered(defintions[i], n, args, payload, fits)]
  BY DEF Define
<1>2. defintions[i] \in Slot
  BY DEF IInv, TypeOK
<1>3. Place(args, fits) \in Nat
  BY ArgAssumption, FarAssumption DEF Place
<1>4. Rest(defintions[i], args) \in Payloads \union {NoPayload, Clobbered}
  BY <1>2 DEF Rest, Slot
<1>5. Entered(defintions[i], n, args, payload, fits) \in Slot
  BY <1>2, <1>3, <1>4 DEF Entered, Slot
<1>6. /\ defintions'[i].name = n
      /\ \A j \in Slots : j # i => defintions'[j] = defintions[j]
  BY <1>1 DEF Entered, IInv, TypeOK
<1>7. def_count \in Int /\ def_count < Capacity - 2 /\ def_count >= 0
  BY DEF IInv, TypeOK, Define, Full
<1>8. def_count' \in {def_count, def_count + 1} /\ (i = def_count => def_count' = i + 1 \/ IsDefined(n))
  BY <1>1 DEF Define
<1>9. TypeOK'
  <2>1. defintions' \in [Slots -> Slot]
    BY <1>1, <1>5 DEF IInv, TypeOK
  <2>2. def_count' \in 0 .. Capacity
    BY <1>7, <1>8
  <2>3. removed' \in Nat
    BY DEF Define, IInv, TypeOK
  <2> QED
    BY <2>1, <2>2, <2>3 DEF Define, TypeOK
<1>10. Reserve'
  BY <1>7, <1>8 DEF Reserve
<1>11. n # NoName
  BY ValuesAssumption
<1>12. \A j \in Slots : j # i => defintions[j].name # n
  <2>1. CASE IsDefined(n)
    <3>1. defintions[i].name = n
      BY <1>1, <2>1 DEF IsFirst
    <3> QED
      BY <1>11, <3>1 DEF IInv, NamesUnique
  <2>2. CASE ~IsDefined(n)
    BY <2>2 DEF IsDefined
  <2> QED
    BY <2>1, <2>2
<1>13. NamesUnique'
  BY <1>6, <1>12 DEF IInv, NamesUnique
<1>14. i < def_count'
  <2>1. CASE IsDefined(n)
    <3>1. defintions[i] # Blank
      BY <1>1, <1>11, <2>1 DEF IsFirst, Blank
    <3>2. i < def_count
      BY <1>7, <3>1 DEF IInv, FreshSlotsBlank, Slots
    <3> QED
      BY <2>1, <3>2 DEF Define
  <2>2. CASE ~IsDefined(n)
    BY <1>1, <1>7, <2>2 DEF Define
  <2> QED
    BY <2>1, <2>2
<1>15. FreshSlotsBlank'
  <2> SUFFICES ASSUME NEW j \in Slots, j >= def_count' PROVE defintions'[j] = Blank
    BY DEF FreshSlotsBlank
  <2>1. j # i /\ j >= def_count
    BY <1>7, <1>8, <1>14 DEF Slots
  <2> QED
    BY <1>6, <2>1 DEF IInv, FreshSlotsBlank
<1> QED
  BY <1>9, <1>10, <1>13, <1>15 DEF IInv

LEMMA UndefInv ==
    ASSUME IInv, NEW n \in Names, NEW exact \in BOOLEAN, Undef(n, exact)
    PROVE  IInv'
<1>1. CASE Clear(n)
  <2>1. PICK i \in Slots : defintions' = [defintions EXCEPT ![i] = Blank]
    BY <1>1 DEF Clear
  <2>2. /\ defintions'[i] = Blank
        /\ \A j \in Slots : j # i => defintions'[j] = defintions[j]
        /\ defintions' \in [Slots -> Slot]
    BY <2>1, BlankTyped DEF IInv, TypeOK
  <2>3. TypeOK' /\ Reserve'
    BY <2>2 DEF IInv, TypeOK, Reserve, Undef
  <2>4. NamesUnique'
    BY <2>2 DEF IInv, NamesUnique, Blank
  <2>5. FreshSlotsBlank'
    BY <2>2 DEF IInv, FreshSlotsBlank, Undef
  <2> QED
    BY <2>3, <2>4, <2>5 DEF IInv
<1>2. CASE UNCHANGED defintions
  BY <1>2 DEF IInv, TypeOK, NamesUnique, FreshSlotsBlank, Reserve, Undef
<1> QED
  BY <1>1, <1>2 DEF Undef

LEMMA InductiveInv == Spec => []IInv
<1>1. IInv /\ [Next]_vars => IInv'
  <2> SUFFICES ASSUME IInv, [Next]_vars PROVE IInv'
    OBVIOUS
  <2>1. ASSUME NEW code \in {-942, -948}, Reject(code) PROVE IInv'
    BY <2>1 DEF Reject, IInv, TypeOK, NamesUnique, FreshSlotsBlank, Reserve
  <2>2. CASE UNCHANGED vars
    BY <2>2 DEF vars, IInv, TypeOK, NamesUnique, FreshSlotsBlank, Reserve
  <2> QED
    BY <2>1, <2>2, DefineInv, UndefInv DEF Next
<1> QED
  BY <1>1, InitInv, PTL DEF Spec

\* No sequence of #define and #undef, however long, writes beyond the table,
\* enters a name twice, or leaves anything in a slot not handed out yet.
THEOREM TableSound == Spec => [](TypeOK /\ NamesUnique /\ FreshSlotsBlank)
BY InductiveInv, PTL DEF IInv
-----------------------------------------------------------------------------
LEMMA UsedFinite ==
    IsFiniteSet(Slots) /\ IsFiniteSet(Used) /\ Cardinality(Used) \in Nat
<1>1. IsFiniteSet(Slots)
  BY CapacityAssumption, FS_Interval DEF Slots
<1>2. Used \subseteq Slots
  BY DEF Used
<1> QED
  BY <1>1, <1>2, FS_Subset, FS_CardinalityType

\* The predefined macros take the first slots.
LEMMA InitSpent == Init => SlotsSpent
<1> SUFFICES ASSUME Init PROVE SlotsSpent
  OBVIOUS
<1> DEFINE k == Len(Predefined)
<1>1. k \in Nat /\ k <= Capacity /\ Capacity \in Nat
  BY PredefinedAssumption, CapacityAssumption
<1>2. ASSUME NEW i \in Slots, i < k PROVE defintions[i].name # NoName
  <2>1. defintions[i] = Built(Predefined[i + 1]) /\ i + 1 \in DOMAIN Predefined
    BY <1>1, <1>2, PredefinedAssumption DEF Init, Slots
  <2>2. Predefined[i + 1] \in [name : Names, payload : Payloads \union {NoPayload}]
    BY <2>1, ElementTyped, PredefinedAssumption
  <2> QED
    BY <2>1, <2>2, ValuesAssumption DEF Built
<1>3. ASSUME NEW i \in Slots, ~(i < k) PROVE defintions[i].name = NoName
  BY <1>3 DEF Init, Blank
<1> HIDE DEF k
<1>4. Used = 0 .. k - 1
  BY <1>1, <1>2, <1>3 DEF Used, Slots
<1>5. Cardinality(0 .. k - 1) = k
  BY <1>1, FS_Interval
<1>6. def_count = k /\ removed = 0
  BY DEF Init, k
<1> QED
  BY <1>1, <1>4, <1>5, <1>6 DEF SlotsSpent

\* A #define of a name that has a slot uses no other, and a new name uses the
\* next one.
LEMMA DefineSpent ==
    ASSUME IInv, SlotsSpent, NEW n \in Names, NEW args \in ArgLists \union {NoArgs},
           NEW payload \in Payloads \union {NoPayload}, NEW fits \in BOOLEAN,
           Define(n, args, payload, fits)
    PROVE  SlotsSpent'
<1>1. PICK i \in Slots :
        /\ IF IsDefined(n) THEN IsFirst(i, n) ELSE i = def_count
        /\ defintions' = [defintions EXCEPT
               ![i] = Entered(defintions[i], n, args, payload, fits)]
  BY DEF Define
<1>2. /\ defintions'[i].name = n /\ n # NoName
      /\ \A j \in Slots : j # i => defintions'[j] = defintions[j]
  BY <1>1, ValuesAssumption DEF Entered, IInv, TypeOK
<1>3. Used' = Used \union {i}
  BY <1>2 DEF Used
<1>4. /\ IsFiniteSet(Used) /\ Cardinality(Used) \in Nat
      /\ removed \in Nat /\ def_count \in Nat /\ removed' = removed
  BY UsedFinite DEF IInv, TypeOK, Define
<1>5. CASE IsDefined(n)
  <2>1. i \in Used
    BY <1>1, <1>2, <1>5 DEF IsFirst, Used
  <2>2. Used' = Used
    BY <1>3, <2>1
  <2> QED
    BY <1>4, <1>5, <2>2 DEF SlotsSpent, Define
<1>6. CASE ~IsDefined(n)
  <2>1. defintions[i] = Blank
    BY <1>1, <1>6 DEF IInv, TypeOK, FreshSlotsBlank
  <2>2. i \notin Used
    BY <2>1 DEF Used, Blank
  <2>3. Cardinality(Used \union {i}) = Cardinality(Used) + 1
    BY <1>4, <2>2, FS_AddElement
  <2>4. Cardinality(Used') = Cardinality(Used) + 1
    BY <1>3, <2>3
  <2>5. def_count' = def_count + 1
    BY <1>6 DEF Define
  <2> QED
    BY <1>4, <2>4, <2>5 DEF SlotsSpent
<1> QED
  BY <1>5, <1>6

\* An #undef that finds its macro blanks one slot and hands none back.
LEMMA UndefSpent ==
    ASSUME IInv, SlotsSpent, NEW n \in Names, NEW exact \in BOOLEAN, Undef(n, exact)
    PROVE  SlotsSpent'
<1>1. /\ IsFiniteSet(Used) /\ Cardinality(Used) \in Nat
      /\ removed \in Nat /\ def_count \in Nat /\ def_count' = def_count
  BY UsedFinite DEF IInv, TypeOK, Undef
<1>2. CASE Clear(n) /\ removed' = removed + 1
  <2>1. PICK i \in Slots : IsFirst(i, n) /\ defintions' = [defintions EXCEPT ![i] = Blank]
    BY <1>2 DEF Clear
  <2>2. /\ defintions[i].name # NoName /\ defintions'[i].name = NoName
        /\ \A j \in Slots : j # i => defintions'[j] = defintions[j]
    BY <2>1, ValuesAssumption DEF IsFirst, Blank, IInv, TypeOK
  <2>3. i \in Used /\ Used' = Used \ {i}
    BY <2>2 DEF Used
  <2>4. Cardinality(Used \ {i}) = Cardinality(Used) - 1
    BY <1>1, <2>3, FS_RemoveElement
  <2>5. Cardinality(Used') = Cardinality(Used) - 1
    BY <2>3, <2>4
  <2> QED
    BY <1>1, <1>2, <2>5 DEF SlotsSpent
<1>3. CASE UNCHANGED <<defintions, removed>>
  <2>1. Used' = Used
    BY <1>3 DEF Used
  <2> QED
    BY <1>1, <1>3, <2>1 DEF SlotsSpent
<1> QED
  BY <1>2, <1>3 DEF Undef

\* However often names are defined, redefined and undefined, the slots that
\* are spent are those in use and one for every #undef that found its macro:
\* for every capacity, what a program may still define shrinks with each
\* #undef and with nothing but it and new names.
THEOREM SlotsAreSpent == Spec => []SlotsSpent
<1>1. IInv /\ SlotsSpent /\ [Next]_vars => SlotsSpent'
  <2> SUFFICES ASSUME IInv, SlotsSpent, [Next]_vars PROVE SlotsSpent'
    OBVIOUS
  <2>1. ASSUME UNCHANGED <<defintions, def_count, removed>> PROVE SlotsSpent'
    <3>1. Used' = Used
      BY <2>1 DEF Used
    <3> QED
      BY <2>1, <3>1 DEF SlotsSpent
  <2>2. ASSUME NEW code \in {-942, -948}, Reject(code) PROVE SlotsSpent'
    BY <2>1, <2>2 DEF Reject
  <2>3. CASE UNCHANGED vars
    BY <2>1, <2>3 DEF vars
  <2> QED
    BY <2>2, <2>3, DefineSpent, UndefSpent DEF Next
<1> QED
  BY <1>1, InitSpent, InductiveInv, PTL DEF Spec

-----------------------------------------------------------------------------
Value(slot) == [args |-> slot.args, payload |-> slot.payload]

LEMMA Lookup ==
    ASSUME NamesUnique, NEW n \in Names
    PROVE  /\ \A i \in Slots : defintions[i].name = n => Meaning(n) = Value(defintions[i])
           /\ ~IsDefined(n) => Meaning(n) = Undefined
<1>1. ASSUME NEW i \in Slots, defintions[i].name = n
      PROVE  Meaning(n) = Value(defintions[i])
  <2>1. \A j \in Slots : IsFirst(j, n) => j = i
    BY <1>1, ValuesAssumption DEF IsFirst, NamesUnique
  <2>2. IsFirst(i, n)
    <3>1. \A j \in Slots : j < i => j # i
      BY DEF Slots
    <3>2. \A j \in Slots : j < i => defintions[j].name # n
      BY <1>1, <3>1, ValuesAssumption DEF NamesUnique
    <3> QED
      BY <1>1, <3>2 DEF IsFirst
  <2>3. (CHOOSE j \in Slots : IsFirst(j, n)) = i
    BY <2>1, <2>2
  <2>4. IsDefined(n)
    BY <1>1 DEF IsDefined
  <2> QED
    BY <2>3, <2>4 DEF Meaning, Value
<1>2. ~IsDefined(n) => Meaning(n) = Undefined
  BY DEF Meaning
<1> QED
  BY <1>1, <1>2

LEMMA LookupNext ==
    ASSUME NamesUnique', NEW n \in Names
    PROVE  /\ \A i \in Slots : defintions'[i].name = n => Meaning(n)' = Value(defintions'[i])
           /\ ~IsDefined(n)' => Meaning(n)' = Undefined
<1>1. ASSUME NEW i \in Slots, defintions'[i].name = n
      PROVE  Meaning(n)' = Value(defintions'[i])
  <2>1. \A j \in Slots : IsFirst(j, n)' => j = i
    BY <1>1, ValuesAssumption DEF IsFirst, NamesUnique
  <2>2. IsFirst(i, n)'
    <3>1. \A j \in Slots : j < i => j # i
      BY DEF Slots
    <3>2. \A j \in Slots : j < i => defintions'[j].name # n
      BY <1>1, <3>1, ValuesAssumption DEF NamesUnique
    <3> QED
      BY <1>1, <3>2 DEF IsFirst
  <2>3. (CHOOSE j \in Slots : IsFirst(j, n)') = i
    BY <2>1, <2>2
  <2>4. IsDefined(n)'
    BY <1>1 DEF IsDefined
  <2> QED
    BY <2>3, <2>4 DEF Meaning, Value
<1>2. ~IsDefined(n)' => Meaning(n)' = Undefined
  BY DEF Meaning
<1> QED
  BY <1>1, <1>2

\* A name whose slots are untouched keeps its meaning.
LEMMA MeaningKept ==
    ASSUME NamesUnique, NamesUnique', NEW m \in Names, NEW i \in Slots,
           defintions[i].name # m, defintions'[i].name # m,
           \A j \in Slots : j # i => defintions'[j] = defintions[j]
    PROVE  Meaning(m)' = Meaning(m)
<1>1. CASE IsDefined(m)
  <2>1. PICK j \in Slots : defintions[j].name = m
    BY <1>1 DEF IsDefined
  <2>2. defintions'[j] = defintions[j]
    BY <2>1
  <2> QED
    BY <2>1, <2>2, Lookup, LookupNext
<1>2. CASE ~IsDefined(m)
  <2>1. ~IsDefined(m)'
    BY <1>2 DEF IsDefined
  <2> QED
    BY <1>2, <2>1, Lookup, LookupNext
<1> QED
  BY <1>1, <1>2

Macros == [n \in Names |-> Meaning(n)]

LEMMA MacrosUpdated ==
    ASSUME NEW n \in Names, NEW d, Meaning(n)' = d,
           \A m \in Names : m # n => Meaning(m)' = Meaning(m)
    PROVE  Macros' = [Macros EXCEPT ![n] = d]
BY DEF Macros

LEMMA DefineImplements ==
    ASSUME IInv, IInv', NEW n \in Names, NEW args \in ArgLists \union {NoArgs},
           NEW payload \in Payloads \union {NoPayload}, NEW fits \in BOOLEAN,
           Define(n, args, payload, fits)
    PROVE  D!Define(n, args, payload)
<1>0. NamesUnique /\ NamesUnique'
  BY DEF IInv
<1>1. PICK i \in Slots :
        /\ IF IsDefined(n) THEN IsFirst(i, n) ELSE i = def_count
        /\ defintions' = [defintions EXCEPT
               ![i] = Entered(defintions[i], n, args, payload, fits)]
  BY DEF Define
<1>2. /\ defintions'[i] = Entered(defintions[i], n, args, payload, fits)
      /\ defintions'[i].name = n
      /\ \A j \in Slots : j # i => defintions'[j] = defintions[j]
  BY <1>1 DEF Entered, IInv, TypeOK
<1>3. Meaning(n)' = Value(defintions'[i])
  BY <1>0, <1>2, LookupNext
<1>4. ASSUME NEW m \in Names, m # n PROVE Meaning(m)' = Meaning(m)
  <2>1. defintions[i].name # m
    <3>1. CASE IsDefined(n)
      BY <1>1, <1>4, <3>1 DEF IsFirst
    <3>2. CASE ~IsDefined(n)
      <4>1. defintions[i] = Blank
        BY <1>1, <3>2 DEF IInv, TypeOK, FreshSlotsBlank
      <4> QED
        BY <4>1, ValuesAssumption DEF Blank
    <3> QED
      BY <3>1, <3>2
  <2> QED
    BY <1>0, <1>2, <1>4, <2>1, MeaningKept
<1>5. Macros' = [Macros EXCEPT ![n] = Value(defintions'[i])]
  BY <1>3, <1>4, MacrosUpdated
<1>6. Value(defintions'[i]) = [args |-> args,
          payload |-> IF payload = NoPayload THEN Rest(defintions[i], args) ELSE payload]
  BY <1>2 DEF Entered, Value
<1>7. CASE payload # NoPayload
  BY <1>5, <1>6, <1>7 DEF D!Define, Macros
<1>8. CASE payload = NoPayload
  <2>1. Value(defintions'[i]) = [args |-> args, payload |-> Rest(defintions[i], args)]
    BY <1>6, <1>8
  <2>2. Value(defintions'[i]) \in D!Bare(Macros[n], args)
    <3>1. CASE IsDefined(n)
      <4>1. Macros[n] = Value(defintions[i])
        BY <1>0, <1>1, <3>1, Lookup DEF IsFirst, Macros
      <4>2. defintions[i] \in Slot
        BY DEF IInv, TypeOK
      <4>3. Macros[n] # Undefined /\ Macros[n].payload = defintions[i].payload
        BY <4>1, <4>2, ValuesAssumption DEF Value, Slot
      <4>4. Rest(defintions[i], args) \in {Macros[n].payload, Clobbered}
        BY <4>3 DEF Rest
      <4> QED
        BY <2>1, <4>3, <4>4 DEF D!Bare
    <3>2. CASE ~IsDefined(n)
      <4>1. Macros[n] = Undefined
        BY <1>0, <3>2, Lookup DEF Macros
      <4>2. defintions[i] = Blank
        BY <1>1, <3>2 DEF IInv, TypeOK, FreshSlotsBlank
      <4>3. Rest(defintions[i], args) = NoPayload
        BY <4>2 DEF Rest, Blank
      <4> QED
        BY <2>1, <4>1, <4>3 DEF D!Bare
    <3> QED
      BY <3>1, <3>2
  <2> QED
    BY <1>5, <1>8, <2>2 DEF D!Define, Macros
<1> QED
  BY <1>7, <1>8

LEMMA UndefImplements ==
    ASSUME IInv, IInv', NEW n \in Names, Clear(n)
    PROVE  D!Undef(n)
<1>0. NamesUnique /\ NamesUnique'
  BY DEF IInv
<1>1. PICK i \in Slots : IsFirst(i, n) /\ defintions' = [defintions EXCEPT ![i] = Blank]
  BY DEF Clear
<1>2. /\ defintions'[i].name = NoName /\ defintions[i].name = n
      /\ \A j \in Slots : j # i => defintions'[j] = defintions[j]
  BY <1>1 DEF IsFirst, Blank, IInv, TypeOK
<1>3. ~IsDefined(n)'
  BY <1>0, <1>2, ValuesAssumption DEF IsDefined, NamesUnique
<1>4. Meaning(n)' = Undefined
  BY <1>0, <1>3, LookupNext
<1>5. \A m \in Names : m # n => Meaning(m)' = Meaning(m)
  BY <1>0, <1>2, MeaningKept, ValuesAssumption
<1>6. Macros' = [Macros EXCEPT ![n] = Undefined]
  BY <1>4, <1>5, MacrosUpdated
<1> QED
  BY <1>6 DEF D!Undef, Macros

\* The array of slots implements a dictionary: a directive changes the
\* meaning of the one name it gives, for every capacity and set of names.
THEOREM TableImplementsDictionary == Spec => DSpec
<1>1. Spec => []IInv
  BY InductiveInv
<1>2. Init => D!Init
  <2> SUFFICES ASSUME Init PROVE Macros \in [Names -> D!Definition \union {Undefined}]
    BY DEF D!Init, Macros
  <2>1. IInv
    BY InitInv
  <2>2. ASSUME NEW n \in Names PROVE Meaning(n) \in D!Definition \union {Undefined}
    <3>1. CASE IsDefined(n)
      <4>1. PICK i \in Slots : defintions[i].name = n
        BY <3>1 DEF IsDefined
      <4>2. Meaning(n) = Value(defintions[i])
        BY <2>1, <4>1, Lookup DEF IInv
      <4>3. defintions[i] \in Slot
        BY <2>1 DEF IInv, TypeOK
      <4> QED
        BY <4>2, <4>3 DEF Value, Slot, D!Definition
    <3>2. CASE ~IsDefined(n)
      BY <2>1, <3>2, Lookup DEF IInv
    <3> QED
      BY <3>1, <3>2
  <2> QED
    BY <2>2 DEF Macros
<1>3. IInv /\ IInv' /\ [Next]_vars => [D!Next]_Macros
  <2> SUFFICES ASSUME IInv, IInv', [Next]_vars PROVE D!Next \/ Macros' = Macros
    OBVIOUS
  <2>1. ASSUME UNCHANGED defintions PROVE Macros' = Macros
    BY <2>1 DEF Macros, Meaning, IsDefined, IsFirst
  <2>2. ASSUME NEW n \in Names, NEW args \in ArgLists \union {NoArgs},
               NEW payload \in Payloads \union {NoPayload}, NEW fits \in BOOLEAN,
               Define(n, args, payload, fits)
        PROVE  D!Next
    BY <2>2, DefineImplements DEF D!Next
  <2>3. ASSUME NEW n \in Names, NEW exact \in BOOLEAN, Undef(n, exact)
        PROVE  D!Next \/ Macros' = Macros
    <3>1. CASE Clear(n)
      BY <3>1, UndefImplements DEF D!Next
    <3>2. CASE UNCHANGED defintions
      BY <2>1, <3>2
    <3> QED
      BY <2>3, <3>1, <3>2 DEF Undef
  <2>4. ASSUME NEW code, Reject(code) PROVE Macros' = Macros
    BY <2>1, <2>4 DEF Reject
  <2>5. CASE UNCHANGED vars
    BY <2>1, <2>5 DEF vars
  <2> QED
    BY <2>2, <2>3, <2>4, <2>5 DEF Next
<1>4. IInv /\ IInv' /\ [Next]_vars => [D!Next]_([n \in Names |-> Meaning(n)])
  BY <1>3 DEF Macros
<1> QED
  BY <1>1, <1>2, <1>4, PTL DEF Spec, DSpec, D!Spec
=============================================================================
