SPECIFICATION Spec
CONSTANTS
    Words <- MCWords
    Texts <- MCTexts
INVARIANTS OperandsForOperators OperandsKept TreeAsInC
