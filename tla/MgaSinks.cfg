CONSTANTS
  None = None
  End = End
  AddOn = {a1, a2}
  a1 = a1
  a2 = a2
  Territory = {t1, t2, t3}
  t1 = t1
  t2 = t2
  t3 = t3
  MaxDepth = 1
  Considerate = TRUE
  Failures = TRUE
SPECIFICATION Spec
SYMMETRY Symmetry
INVARIANTS
  TypeOK
  WalksStandOnMembers
  EachToldOnce
