SPECIFICATION Spec
CONSTANTS
    AnyLength = 3
    BufferSize = 10
    MaxDepth = 6
    Letter <- MCLetter
    Digits <- MCDigits
    Tables <- MCTables
    Inputs <- MCInputs
    Spelling <- MCSpelling
INVARIANTS NothingLeft ConditionExact
PROPERTY Answered
CHECK_DEADLOCK FALSE
