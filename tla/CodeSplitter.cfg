SPECIFICATION Spec
CONSTANTS
    Alphabet <- MCAlphabet
    FreeLength = 6
    Programs <- MCPrograms
INVARIANTS BracketsNest BlocksWait OneOwner TreeHoldsText StatementsWhole NeverUndefined
CHECK_DEADLOCK FALSE
