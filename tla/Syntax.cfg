SPECIFICATION Spec
CONSTANTS
    MaxLeaves = 20
    Programs <- MCPrograms
INVARIANTS
    JumpsAsInC
    NamesAsInC
    FunctionsAsDeclared
    Diagnosed
PROPERTY Parsed
