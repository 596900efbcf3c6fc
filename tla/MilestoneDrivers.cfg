CONSTANTS
  MaxId = 2
  Sessions = {s1}
  Advancers = {a1}
  MaxAuto = 2
SPECIFICATION Spec
INVARIANTS
  TypeOK
  DriversSurvive
PROPERTIES
  ImplementsGraph
  CompletionKept
  EverythingGetsDone
