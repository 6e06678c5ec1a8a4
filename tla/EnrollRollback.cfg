SPECIFICATION Spec
CONSTANTS
    n1 = n1
    n2 = n2
    n3 = n3
    h1 = h1
    k1 = k1
    k2 = k2
    c1 = c1
    c2 = c2
    Names = {n1, n2, n3}
    Hosts = {h1}
    Keys = {k1, k2}
    NoKey = NoKey
    EnvName <- Env
    Candidates = {c1}
    CandidateKey <- SameKey
    Requests = {r1}
    Wanted <- WantedDevices
    Processes = {p1}
    Commands <- AllCommands
    NoOne = NoOne
    SaveOutcomes = {"ok", "failOld", "failNew"}
    InitialConfig <- NoDevices
    InitialLines <- NoLines
    MaxOperations = 1
INVARIANT FailedEnrollmentRolledBack
