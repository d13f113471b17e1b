CONSTANTS
  User = {u1, u2}
  u1 = u1
  u2 = u2
  None = None
  NoFile = NoFile
  MaxModel = 3
  Initially = 2
  MaxSessions = 3
  MaxChanges = 2
  Habits = {"meanwhile"}
SPECIFICATION Spec
CHECK_DEADLOCK FALSE
SYMMETRY Symmetry
INVARIANTS
  PointersResolve
