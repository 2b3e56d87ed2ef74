SPECIFICATION Spec
CONSTANTS
    Alphabets <- Comments
    Macros <- NoMacros
INVARIANT SkippedConsistent
CHECK_DEADLOCK FALSE
