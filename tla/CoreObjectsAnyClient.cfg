CONSTANTS
  root = root  x = x  y = y
  p = p
  null = null
  Object <- MCObject
  Root = root
  Pointer = {p}
  Null = null
  MaxUndoStep = 1
  MaxNesting = 2
  MaxRefusals = 1
  Careful = FALSE
SYMMETRY ObjectSymmetry
SPECIFICATION Spec
INVARIANTS CountsMatchRings FinalItemsLoaded UpToDateMeansComplete
