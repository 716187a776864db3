SPECIFICATION Spec
CONSTANTS
    WordMax = 7
    Symbols <- McSymbols
    ClassOf <- McClassOf
    Ambiguous = {2}
    Wordlist <- McWordlist
    DefaultPolicy <- McDefaultPolicy
    Classes = {"lower", "digits"}
    Lengths = {0, 1}
    MaxEdits = 2
    Delays = {1, 2}
    MaxCopies = 2
CHECK_DEADLOCK FALSE
INVARIANTS
    TypeOK
    EntriesEquallyLikely
    ValueFitsPolicy
    CopyAttended
PROPERTIES
    TimerFollowsLastCopy
    SecretLeaves
