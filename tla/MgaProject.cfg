CONSTANTS
  a = a
  b = b
  Object <- OneObject
  Properties = properties
  Guid = guid
  None = none
  MaxUndoStep = 2
  MaxGuid = 2
  MaxChanges = 2
  MaxCount = 2
  Habits = {"nonested", "closefails"}
SPECIFICATION FairSpec
INVARIANT StatusTellsChange
INVARIANT GuidTellsContent
PROPERTY MethodsReturn
