SPECIFICATION Spec
CONSTANT MaxTexts = 1
INVARIANT HostKeyFailureReported
CHECK_DEADLOCK FALSE
