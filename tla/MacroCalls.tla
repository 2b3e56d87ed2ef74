------------------------------ MODULE MacroCalls ------------------------------
(***************************************************************************)
(* What substitute_def_expression does to the call of a macro with one     *)
(* parameter, written "p" in its replacement.  Substitution has the        *)
(* function itself, with any parameters.                                   *)
(***************************************************************************)
EXTENDS Integers, Sequences, FiniteSets, SequencesExt

\* The replacement with the parameter replaced.
Substituted(payload, arg) ==
    FlattenSeq([k \in DOMAIN payload |-> IF payload[k] = "p" THEN arg ELSE <<payload[k]>>])

\* Whether more than one argument is found between the brackets.
TwoArguments(arg) ==
    \E k \in DOMAIN arg :
        /\ arg[k] = ","
        /\ LET before(c) == Cardinality({m \in 1 .. k : arg[m] = c})
           IN  before("(") = before(")")
=============================================================================
