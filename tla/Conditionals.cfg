SPECIFICATION Spec
CONSTANTS
    NestingLimit = 3
    MaxElif = 2
    WellFormed = TRUE
    Headers = {h}
    SearchPath = {here}
    Home = here
    MaxParts = 2
INVARIANT TypeOK
INVARIANTS SkippedIffInSkippedGroup ModeFollowsShadow CyclesEndByName
PROPERTIES HeaderEndsLive EndifRestores CSpec
CHECK_DEADLOCK FALSE
