SPECIFICATION MCSpec
CONSTANTS
    WORDS_COUNT = 13
    HASH_SIZE = 15
    InsertProbes = 2
    FindProbes = 2
    Hash <- CrowdedHash
    Names = {"x"}
    Keywords = {"volatile"}
    Punctuation = {"{", ";"}
    Tags = {"struct"}
    MaxTokens = 4
    MaxLine = 2
INVARIANTS SearchExact AllFound TypesAsInC LexemesKept
CHECK_DEADLOCK FALSE
