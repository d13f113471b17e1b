CONSTANTS
  root = root  x = x  y = y
  p = p
  null = null
  Object <- MCObject
  Root = root
  Pointer = {p}
  Null = null
  MaxUndoStep = 2
  MaxNesting = 1
  MaxRefusals = 0
  Careful = TRUE
SYMMETRY ObjectSymmetry
SPECIFICATION Spec
INVARIANTS RingTargetsStored NoDangling NoGarbage
