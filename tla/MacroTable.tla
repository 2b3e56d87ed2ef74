----------------------------- MODULE MacroTable -----------------------------
(***************************************************************************)
(* The table of macros, an array of slots filled from the front:           *)
(* parse_definition, remove_definition and check_for_preprocessor_define.  *)
(*                                                                         *)
(* A slot keeps the name, the arguments and the replacement of a macro one *)
(* after the other in a buffer of its own.  at is where the replacement    *)
(* starts, counted from the end of the name; Far is memory outside the     *)
(* buffer.  An argument list is represented by the length of its text.     *)
(***************************************************************************)
EXTENDS Integers, Sequences, FiniteSets

CONSTANTS
    Capacity,    \* slots of the table, 2048 in the code
    Names,       \* macro names
    ArgLists,    \* lengths of argument lists
    Payloads,    \* replacement texts
    Predefined,  \* the macros create_definition enters, in order
    Far,         \* memory outside the buffer, as a place of a replacement
    NoName, NoArgs, NoPayload, Clobbered, Undefined

ASSUME PredefinedAssumption ==
    /\ Predefined \in Seq([name : Names, payload : Payloads \union {NoPayload}])
    /\ \A i, j \in DOMAIN Predefined : Predefined[i].name = Predefined[j].name => i = j
ASSUME CapacityAssumption == Capacity \in Nat /\ Len(Predefined) + 2 <= Capacity
ASSUME ArgAssumption == ArgLists \subseteq Nat
ASSUME FarAssumption == Far \in Nat /\ \A args \in ArgLists : args < Far
ASSUME ValuesAssumption ==
    /\ NoName \notin Names
    /\ NoArgs \notin ArgLists
    /\ NoPayload \notin Payloads /\ Clobbered \notin Payloads
    /\ NoPayload # Clobbered
    /\ Undefined \notin [args : ArgLists \union {NoArgs},
                       payload : Payloads \union {NoPayload, Clobbered}]

VARIABLES
    defintions, def_count,  \* parse_define.cc, file scope
    status,   \* what the last directive returned
    removed   \* history: how many #undefs found their macro

vars == <<defintions, def_count, status, removed>>

Slots == 0 .. Capacity - 1
Blank == [name |-> NoName, args |-> NoArgs, payload |-> NoPayload, at |-> 0]

\* create_definition: a replacement is a literal outside the buffer.
Built(m) ==
    [name |-> m.name, args |-> NoArgs, payload |-> m.payload,
     at |-> IF m.payload = NoPayload THEN 0 ELSE Far]

Init ==
    /\ defintions = [i \in Slots |->
           IF i < Len(Predefined) THEN Built(Predefined[i + 1]) ELSE Blank]
    /\ def_count = Len(Predefined)
    /\ status = 1
    /\ removed = 0

\* check_for_preprocessor_define: the slots from the front, the first wins.
IsFirst(i, n) ==
    /\ i \in Slots
    /\ defintions[i].name = n
    /\ \A j \in Slots : j < i => defintions[j].name # n

\* Mutant: the search starts behind the first slot.
IsDefinedLater(n) == \E i \in Slots : i > 0 /\ defintions[i].name = n

IsDefined(n) == \E i \in Slots : defintions[i].name = n

Full == def_count >= Capacity - 2

\* The replacement an older definition leaves in a slot once args, and the
\* zero that ends them, are written behind the name.
Rest(slot, args) ==
    IF slot.payload # NoPayload /\ args # NoArgs /\ slot.at <= args
    THEN Clobbered
    ELSE slot.payload

\* Where the replacement is stored: behind the arguments if it fits.
Place(args, fits) ==
    IF ~fits THEN Far ELSE IF args = NoArgs THEN 0 ELSE args + 1

Entered(slot, n, args, payload, fits) ==
    [name |-> n, args |-> args,
     payload |-> IF payload = NoPayload THEN Rest(slot, args) ELSE payload,
     at |-> IF payload = NoPayload THEN slot.at ELSE Place(args, fits)]

\* A #define that is well-formed and short enough.
Define(n, args, payload, fits) ==
    /\ ~Full
    /\ \E i \in Slots :
          /\ IF IsDefined(n) THEN IsFirst(i, n) ELSE i = def_count
          /\ defintions' = [defintions EXCEPT
                 ![i] = Entered(defintions[i], n, args, payload, fits)]
    /\ def_count' = IF IsDefined(n) THEN def_count ELSE def_count + 1
    /\ status' = 1
    /\ UNCHANGED removed

\* The table is full (even for a name that is in it), the name and its
\* arguments are too long (-942), or the ')' is missing (-948).
Reject(code) ==
    /\ code = -948 => ~Full
    /\ status' = code
    /\ UNCHANGED <<defintions, def_count, removed>>

\* Mutant: the slot behind the macro's is cleared as well.
ClearTwo(n) ==
    \E i \in Slots :
        /\ IsFirst(i, n)
        /\ defintions' = [j \in Slots |-> IF j \in {i, i + 1} THEN Blank ELSE defintions[j]]

Clear(n) ==
    \E i \in Slots : IsFirst(i, n) /\ defintions' = [defintions EXCEPT ![i] = Blank]

\* Mutant: #undef gives its slot back.
UndefReturning(n, exact) ==
    /\ IF exact /\ IsDefined(n)
       THEN Clear(n) /\ def_count' = def_count - 1 /\ removed' = removed + 1
       ELSE UNCHANGED <<defintions, def_count, removed>>
    /\ status' = 1

\* #undef: exact says whether the name stands alone in its line.  What
\* follows it, be it a blank before a comment, is compared with the name.
Undef(n, exact) ==
    /\ IF exact /\ IsDefined(n)
       THEN Clear(n) /\ removed' = removed + 1
       ELSE UNCHANGED <<defintions, removed>>
    /\ status' = 1
    /\ UNCHANGED def_count

Next ==
    /\ status > 0
    /\ \/ \E n \in Names, args \in ArgLists \union {NoArgs},
             payload \in Payloads \union {NoPayload}, fits \in BOOLEAN :
             Define(n, args, payload, fits)
       \/ \E code \in {-942, -948} : Reject(code)
       \/ \E n \in Names, exact \in BOOLEAN : Undef(n, exact)

Spec == Init /\ [][Next]_vars
-----------------------------------------------------------------------------
Slot == [name : Names \union {NoName}, args : ArgLists \union {NoArgs},
         payload : Payloads \union {NoPayload, Clobbered}, at : Nat]

\* The variables keep their types: no slot is written beyond the table.
TypeOK ==
    /\ defintions \in [Slots -> Slot]
    /\ def_count \in 0 .. Capacity
    /\ status \in {1, -942, -948}
    /\ removed \in Nat

\* A name is in at most one slot, so that the slot a #define rewrites, the
\* one an #undef clears and the one a lookup finds are the same.
NamesUnique ==
    \A i, j \in Slots :
        defintions[i].name = defintions[j].name /\ defintions[i].name # NoName => i = j

\* What the loop over all 2048 slots relies on: the slots not yet handed out
\* hold nothing, so that a new name starts without arguments or replacement,
\* however often it was defined and undefined before.
FreshSlotsBlank == \A i \in Slots : i >= def_count => defintions[i] = Blank

\* The definition a lookup of n finds.
Meaning(n) ==
    IF IsDefined(n)
    THEN LET slot == defintions[CHOOSE i \in Slots : IsFirst(i, n)]
         IN  [args |-> slot.args, payload |-> slot.payload]
    ELSE Undefined

D == INSTANCE MacroDictionary WITH macros <- [n \in Names |-> Meaning(n)]

\* The table implements the dictionary: no directive changes the definition
\* of a name other than its own, and an undefined name keeps no trace.
DSpec == D!Spec

\* The slots in which a name stands.
Used == {i \in Slots : defintions[i].name # NoName}

\* A slot is spent for good by the first #define of a name after each #undef
\* of it, and by nothing else: a redefinition takes none, an #undef gives none
\* back.  So a program that defines and undefines one macro over and over
\* fills the table with blank slots, and is then refused a redefinition too.
SlotsSpent == def_count = Cardinality(Used) + removed
=============================================================================
