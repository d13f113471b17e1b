CONSTANTS
  o1 = o1  o2 = o2
  a = a  b = b  c = c
  v0 = v0  v1 = v1
  Object <- MCObject
  Attr <- MCTwoAttr
  Owner <- MCTwoOwner
  Value <- MCValue
  UndoSizes = {0, 1, 2}
  DefaultUndoStep = 2
  MaxNesting = 3
  MaxFailures = 0
SPECIFICATION Spec
INVARIANTS StorageIsCommitted
PROPERTIES ImplementsUndo
