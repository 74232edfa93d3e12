SPECIFICATION DrainedSpec
CONSTANTS
  Ids = {i1}
  Owners = {o1, o2}
  NoOwner = NoOwner
  Tasks = {t1, t2, t3}
  Timeout = 2
  Retries = 1
  MAX_RETRIES = 5
  CleanupDraws = {TRUE, FALSE}
  MaxStall = 1
  MaxSkew = 1
  MaxLevels = 3
SYMMETRY Symmetry
INVARIANTS GuardsBacked
PROPERTY LeaseHonoured
