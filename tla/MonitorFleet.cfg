SPECIFICATION FairSpec
CONSTANTS
    Devices = {d1, d2}
    AutoDevices = {d1}
    Callers = {c1, c2, c3}
    NoCaller = NoCaller
    NoDevice = NoDevice
    Concurrency = 1
    Probes <- FleetProbes
    SaveOutcomes = {"ok"}
    Cooldown = 0
    BackoffInitial = 1
    BackoffMax = 1
    MaxEpisodes = 1
    MaxConnectFailures = 0
INVARIANT
    BoundedExclusiveOperations
PROPERTY
    PollReturns
