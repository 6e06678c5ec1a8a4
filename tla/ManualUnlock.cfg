SPECIFICATION FairSpec
CONSTANTS
    Configured <- TwoDevices
    Requests <- SomeRequests
    MaxAttempts = 3
INVARIANTS
    UnlockedIsTrue
    ExitIsHonest
    NothingNewAfterCancel
PROPERTIES
    NoSecretAfterAnswer
    CommandEnds
CHECK_DEADLOCK FALSE
