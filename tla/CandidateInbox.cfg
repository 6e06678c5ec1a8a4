SPECIFICATION Spec
CONSTANTS
    k1 = k1
    k2 = k2
    e1 = e1
    h1 = h1
    n1 = n1
    Keys = {k1, k2}
    NoKey = NoKey
    Endpoints = {e1}
    Hostnames = {h1}
    Names = {n1}
    Unreadable = {}
    DeviceNames = {mac}
    TTL = 0
    Sightings <- MixedSightings
    MaxEntries = 2
    MaxEvents = 2
    SaveOutcomes = {"ok", "failOld", "failNew"}
    MaxDelay = 1
    MaxSequence = 5
    MaxNow = 1
SYMMETRY KeySymmetry
ACTION_CONSTRAINTS
    RestartWhenAhead
    LateWhenOvertaken
INVARIANTS
    SavedStateLoads
    VerifiedByOperator
    RestartKeepsNumbers
PROPERTIES
    ReviewSurvives
    CursorComplete
