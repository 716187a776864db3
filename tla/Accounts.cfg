SPECIFICATION Spec
CONSTANTS
    Client = {c1, c2}
    Worker = {w1, w2}
    NoWorker = NoWorker
    Email = {e1}
    Password = {p1}
    ChallengeTTL = 1
    SessionTTL = 1
    MaxTime = 1
    MaxRegs = 2
    MaxHandles = 2
    MaxTokens = 2
    MaxFaults = 2
SYMMETRY Symmetry
CHECK_DEADLOCK FALSE
INVARIANTS
    TypeOK
    NoOrphanSession
    OneAccountPerEmail
    ChallengeUsedOnce
    OpenHoldsOwnVault
PROPERTIES
    SessionForProvenAccount
    OwnerCanLogIn
    EnvelopesOpenOnlyForOwner
    ShownKeyIsStored
    DeletedByHolder
