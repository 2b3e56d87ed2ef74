SPECIFICATION Spec
CONSTANTS
    Alphabets <- MCAlphabets
    Macros <- MCMacros
INVARIANTS LexemesExact DirectivesExact LinesExact
CHECK_DEADLOCK FALSE
