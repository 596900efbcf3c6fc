CONSTANTS
  MaxId = 2
  Writers = {w1, w2}
  Free = Free
SPECIFICATION Spec
INVARIANTS
  TypeOK
  FileNeverTorn
  NoStaleSave
PROPERTIES
  ImplementsWorkGraph
  LockReleased
