SPECIFICATION FairSpec
CONSTANTS
    Devices = {d1}
    AutoDevices = {d1}
    Callers = {c1, c2}
    NoCaller = NoCaller
    NoDevice = NoDevice
    Concurrency = 1
    Probes <- SoundProbes
    SaveOutcomes = {"ok"}
    Cooldown = 2
    BackoffInitial = 1
    BackoffMax = 2
    MaxEpisodes = 2
    MaxConnectFailures = 2
INVARIANT
    NoReleaseBeforeAcknowledgement
PROPERTIES
    UnlockEventuallyAttempted
