CONSTANTS
  Pairs = {p1, p2, p3, p4, p5}
  Flows = {f1, f2}
  NoFlow = NoFlow
  NoPair = NoPair
  Requests = {r1, r2}
  Parties = {s1, s2}
  f1 = f1
  f2 = f2
  s1 = s1
  s2 = s2
  Subject <- MCSubject
SPECIFICATION SystemSpec
SYMMETRY Symmetry
CHECK_DEADLOCK FALSE
INVARIANTS SingleUse RevocationIsFinal StoresAgree
