CONSTANTS
  o1 = o1  o2 = o2
  a = a  b = b  c = c
  v0 = v0  v1 = v1
  Object <- MCObject
  Attr <- MCTwoAttr
  Owner <- MCTwoOwner
  Value <- MCValue
  UndoSizes = {2}
  DefaultUndoStep = 2
  MaxNesting = 2
  MaxFailures = 1
SPECIFICATION Spec
PROPERTIES AbortRestores
