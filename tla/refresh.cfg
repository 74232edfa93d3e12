CONSTANTS
  Pairs = {1, 2, 3}
  Flows = {f1}
  NoFlow = NoFlow
  NoPair = 0
  Requests = {t1, t2}
  Parties = {consumer}
  f1 = f1
  t1 = t1
  t2 = t2
  consumer = consumer
  Subject <- MCSubject
  Owners <- MCOwners
  Stores = {"memory", "vault"}
  renewal_token_duration = 1
  RefreshBefore = 0
  MaxStarts = 2
  MaxTime = 2
SPECIFICATION RefreshSpec
CHECK_DEADLOCK FALSE
INVARIANTS CachedTokenCurrent RenewablePairKept MemoryCleanupIsFinal
PROPERTY NoUselessRefresh
