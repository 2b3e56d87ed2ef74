---------------------------- MODULE MCMacroTable ----------------------------
(* The macro table with one predefined macro, on small instances. *)
EXTENDS MacroTable

CONSTANTS cpu, number

\* _M_IX86, the one of the four that has a replacement.
MCPredefined == <<[name |-> cpu, payload |-> number]>>
=============================================================================
