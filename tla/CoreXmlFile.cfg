CONSTANTS
  User = {u1, u2}
  u1 = u1
  u2 = u2
  None = None
  NoFile = NoFile
  MaxModel = 3
  Initially = 2
  MaxSessions = 4
  MaxChanges = 2
  Habits = {}
SPECIFICATION Spec
CHECK_DEADLOCK FALSE
SYMMETRY Symmetry
INVARIANTS
  TypeOK
  ChangesAreLocked
  OwnersAreCurrent
  PointersResolve
