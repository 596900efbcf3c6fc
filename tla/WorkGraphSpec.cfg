CONSTANT MaxId = 4
SPECIFICATION GraphSpec
INVARIANTS
  GraphTyped
  DepsAlwaysResolve
  Acyclic
  BlockedIsDerived
  NeverWedged
