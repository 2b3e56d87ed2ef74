--------------------------- MODULE MacroProcessing ---------------------------
(***************************************************************************)
(* MacroExpansion beside Substitution, which does in detail what the       *)
(* expansion's operator Substituted stands for.                            *)
(***************************************************************************)
EXTENDS MacroExpansion

CONSTANTS Parms, Calls, Bodies

VARIABLES call, payload, args, i, buff, str, next_state, substitution

replacing == <<call, payload, args, i, buff, str, next_state, substitution>>

Subst == INSTANCE Substitution WITH status <- substitution

\* A macro has parameters of different names; the texts are strings of C, which
\* hold no zero.
ASSUME SubstitutionAssumption ==
    /\ Parms \in Seq(STRING)
    /\ \A k \in DOMAIN Parms : Subst!IsName(Parms[k])
    /\ \A k, m \in DOMAIN Parms : Parms[k] = Parms[m] => k = m
    /\ \A t \in Calls \union Bodies : t \in Seq(STRING) /\ ~Subst!Has(t, "zero")

\* The arguments of a call are what its commas outside brackets separate.
SplitsAtOuterCommas == Subst!SplitsAtOuterCommas

\* A replacement whose names stand between delimiters is copied with every
\* parameter replaced, the last word included, and nothing else changed.
DelimitedReplaced == Subst!DelimitedReplaced

\* Only a '#' in a replacement makes the scan of parameters read past its end.
OnlyMarksOverrun == Subst!OnlyMarksOverrun
=============================================================================
