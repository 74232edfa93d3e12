SPECIFICATION Spec
CONSTANTS
    Leases = {6, 8}
    estimated_ttl = 6
    renewal_percentage = 40
    renewal_jitter = 40
    max_consecutive_failures = 2
    health_threshold = 2
    ChannelCapacity = 1
    Latency = 1
    MaxFaults = 2
    MaxNoise = 1
    Callers = {c1, c2}
    Contexts = {x1, x2}
    XLeases = {3, 4}
    percentage = 50
    threshold = 1
    XLatency = 1
    MaxXFaults = 2
INVARIANTS OperationsAuthorized RenewalLoopOwned
PROPERTIES Coalesced TokenRecovers HealthRecovers
CHECK_DEADLOCK FALSE
