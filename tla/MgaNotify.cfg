CONSTANTS
  a = a
  b = b
  Object <- TwoObjects
  Properties = properties
  Guid = guid
  None = none
  MaxUndoStep = 1
  MaxGuid = 1
  MaxChanges = 1
  MaxCount = 2
  Habits = {"addonfails", "savefails", "autosave", "putsguid", "upgrades"}
SPECIFICATION Spec
SYMMETRY ObjectSymmetry
INVARIANT AddOnSeesAll
INVARIANT TerritoriesSeeAll
INVARIANT MaskedMeansQueued
VIEW WithoutFiles
