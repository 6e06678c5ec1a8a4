SPECIFICATION Spec
CONSTANTS
    Devices = {d1}
    AutoDevices = {d1}
    Callers = {c1, c2}
    NoCaller = NoCaller
    NoDevice = NoDevice
    Concurrency = 2
    Probes <- ProbeOutcomes
    SaveOutcomes = {"ok", "failOld", "failNew"}
    Cooldown = 2
    BackoffInitial = 1
    BackoffMax = 2
    MaxEpisodes = 2
    MaxConnectFailures = 2
SYMMETRY CallerSymmetry
INVARIANTS
    AtMostOneSubmission
    AttemptDurableBeforeRelease
    LatchRetained
    BoundedExclusiveOperations
PROPERTIES
    CooldownBetweenAttempts
    EpisodeCounterNeverGoesBack
