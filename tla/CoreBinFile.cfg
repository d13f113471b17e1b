CONSTANTS
  none = none  absent = absent  torn = torn  a = a  b = b
  Value <- MCValue
  Blank = 0
  Name <- MCName
  None = none
  Absent = absent
  Torn = torn
  MaxObjId = 2
  MaxFaults = 1
  MaxWrites = 4
  MaxSaves = 2
SYMMETRY NameSymmetry
SPECIFICATION Spec
INVARIANTS TypeOK FilesAsPromised FilesLoadable ValuesReadable CollectionsMirrorPointers NewIdsAreFree
