SPECIFICATION FairSpec
CONSTANTS
  Ids = {i1}
  Owners = {o1, o2}
  NoOwner = NoOwner
  Timeout = 2
  MaxGuards = 3
INVARIANTS TypeOK NoOrphanedLevel
PROPERTY FreeUnlessRenewed
