-------------------------- MODULE MacroDictionary --------------------------
(***************************************************************************)
(* What the macro table of the lexical parser promises: a dictionary from  *)
(* names to definitions in which a directive touches the one name it gives *)
(* and no other.  A #define without a replacement leaves a name that had   *)
(* one with the old replacement, or with what its new arguments left of it.*)
(***************************************************************************)
CONSTANTS
    Names,      \* macro names
    ArgLists,   \* argument lists of function-like macros
    Payloads,   \* replacement texts
    NoArgs,     \* args of an object-like macro
    NoPayload,  \* payload of a macro that has no replacement
    Clobbered,  \* a replacement overwritten by the arguments of its macro
    Undefined   \* a name that is not a macro

VARIABLE macros

Definition == [args : ArgLists \union {NoArgs},
               payload : Payloads \union {NoPayload, Clobbered}]

TypeOK == macros \in [Names -> Definition \union {Undefined}]

Init == macros \in [Names -> Definition \union {Undefined}]

\* What a name may be after a #define that gives no replacement.
Bare(old, args) ==
    IF old = Undefined
    THEN {[args |-> args, payload |-> NoPayload]}
    ELSE {[args |-> args, payload |-> p] : p \in {old.payload, Clobbered}}

Define(n, args, payload) ==
    \E d \in IF payload = NoPayload
             THEN Bare(macros[n], args)
             ELSE {[args |-> args, payload |-> payload]} :
        macros' = [macros EXCEPT ![n] = d]

Undef(n) == macros' = [macros EXCEPT ![n] = Undefined]

Next ==
    \E n \in Names :
        \/ \E args \in ArgLists \union {NoArgs}, payload \in Payloads \union {NoPayload} :
              Define(n, args, payload)
        \/ Undef(n)

Spec == Init /\ [][Next]_macros
=============================================================================
