SPECIFICATION FairSpec
CONSTANTS
  Ids = {i1, i2}
  Owners = {o1, o2}
  NoOwner = NoOwner
  Tasks = {t1, t2}
  Timeout = 0
  Retries = 1
  MAX_RETRIES = 5
  CleanupDraws = {TRUE}
  MaxStall = 1
  MaxSkew = 0
  MaxLevels = 2
PROPERTY CallsReturn
