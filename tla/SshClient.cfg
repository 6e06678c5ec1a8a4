SPECIFICATION FairSpec
CONSTANT MaxTexts = 3
INVARIANTS
    UnlockedIffSuccessHeard
PROPERTIES
    KeepsContract
    PasswordReleasedOnce
    OperationReturns
CHECK_DEADLOCK FALSE
