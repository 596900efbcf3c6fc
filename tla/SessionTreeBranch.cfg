SPECIFICATION Spec
CONSTANTS
  MaxEntries = 5
  MaxLinks = 0
  MaxFiles = 1
  MaxFails = 0
INVARIANTS WorkingSetFaithful
CHECK_DEADLOCK FALSE
