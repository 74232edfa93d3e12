SPECIFICATION Spec
CONSTANTS
    None = None
    Requests = {r1, r2}
    Configs <- MCConfigs
    Calls <- MCCalls
    Latency = 1
    MaxRotations = 2
    MaxFaults = 1
INVARIANTS NoFalseUnknownKid AcceptedIsEntitled
PROPERTIES RetiredKeyExpires RequestsAnswered
