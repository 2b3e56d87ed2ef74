SPECIFICATION MCSpec
CONSTANTS
    TextLength = 5
    CallLength = 3
    BodyLength = 3
    Parms <- MCParms
    Calls <- MCCalls
    Bodies <- MCBodies
    RecursionLimit = 3
    MaxDepth = 8
    Letter <- MCLetter
    Texts <- MCTexts
    Tables <- MCTables
INVARIANTS RecursionCountsTails NoStackOverflow ExpansionExact SplitsAtOuterCommas DelimitedReplaced OnlyMarksOverrun
CHECK_DEADLOCK FALSE
