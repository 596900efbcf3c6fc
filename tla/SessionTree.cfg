SPECIFICATION Spec
CONSTANTS
  MaxEntries = 5
  MaxLinks = 1
  MaxFiles = 2
  MaxFails = 1
INVARIANTS TypeOK TreeSound SaveIsCurrent WorkingSetOnOneBranch
PROPERTIES RuledOutExactly
CHECK_DEADLOCK FALSE
