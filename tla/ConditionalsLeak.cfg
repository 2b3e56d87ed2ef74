SPECIFICATION Spec
CONSTANTS
    NestingLimit = 2
    MaxElif = 3
    WellFormed = TRUE
    Headers = {h}
    SearchPath = {inc}
    Home = here
    MaxParts = 1
INVARIANT NoLexemesFromSkippedGroups
CHECK_DEADLOCK FALSE
