SPECIFICATION MCSpec
CONSTANTS
    TextLength = 2
    CallLength = 0
    BodyLength = 0
    Parms <- MCParms
    Calls <- MCCalls
    Bodies <- MCBodies
    RecursionLimit = 3
    MaxDepth = 8
    Letter <- MCLetter
    Texts <- MCTexts
    Tables <- InnerCyclic
INVARIANT NoStackOverflow
CHECK_DEADLOCK FALSE
