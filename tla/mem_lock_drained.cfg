SPECIFICATION DrainedSpec
CONSTANTS
  Ids = {i1, i2}
  Owners = {o1, o2}
  NoOwner = NoOwner
  Timeout = 1
  MaxGuards = 2
SYMMETRY Symmetry
INVARIANTS ExclusiveAccess GuardsBackRecord
PROPERTY ImplementsExclusiveLock
