SPECIFICATION Spec
CONSTANTS
    None = None
    Configs <- MCConfigs
    Requests = {r1, r2}
    MaxCrashes = 2
INVARIANTS ShutdownIsGraceful
PROPERTIES ValidConfigStarts ServerStops
CHECK_DEADLOCK FALSE
