SPECIFICATION Spec
CONSTANTS
    n1 = n1
    n2 = n2
    n3 = n3
    h1 = h1
    k1 = k1
    k2 = k2
    c1 = c1
    c2 = c2
    Names = {n1, n2, n3}
    Hosts = {h1}
    Keys = {k1, k2}
    NoKey = NoKey
    EnvName <- Env
    Candidates = {c1, c2}
    CandidateKey <- SameKey
    Requests = {r1, r2}
    Wanted <- WantedDevices
    Processes = {p1, p2}
    Commands <- AllCommands
    NoOne = NoOne
    SaveOutcomes = {"ok", "failOld", "failNew"}
    InitialConfig <- NoDevices
    InitialLines <- NoLines
    MaxOperations = 3
SYMMETRY Symmetric
INVARIANTS
    TypeOK
    LinesAccounted
    OneKeyPerHost
    TrustBacked
    RollbackComplete
    AdapterMonitored
    CredentialBelongs
PROPERTIES
    EnrolledMeansPinned
    OtherDevicesKept
