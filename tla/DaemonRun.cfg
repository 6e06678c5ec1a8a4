SPECIFICATION FairSpec
CONSTANTS
    Devices = {d1, d2}
    Configured = {d1}
    Handlers = {h1}
    Buffer = 2
    MaxSequence = 4
    MaxStarts = 1
INVARIANTS
    StoppedMeansJoined
    NoScheduleAfterRun
    NewestEventKept
    SocketKept
    OneDaemon
    FailureReported
PROPERTY
    StopEndsProcess
CHECK_DEADLOCK FALSE
