CONSTANTS
  none = none  failed = failed
  None = none
  Failed = failed
  MaxObject = 6  MaxModels = 2  MaxReferences = 1  MaxDerived = 2
  RelIdSpace = 134217728
  LongMax = 2147483647
  AnyClient = FALSE
SPECIFICATION Spec
VIEW WithoutIds
CHECK_DEADLOCK FALSE
INVARIANTS EachChildOnce RelIdTellsSecondary InstancesAreClosed CopyingEnds InheritedRefsAgree InternalRefsFollow NothingLeftBehind
