SPECIFICATION Spec
CONSTANTS
  Shell = Shell
  Nobody = Nobody
  Pids = {p1, p2, p3}
  MaxOps = 3
  MaxForks = 1
  MaxStops = 1
  Strangers = 1
INVARIANTS
  NoChildForgotten
  OutputTaken
PROPERTIES
  CancelReturns
  Terminates
CHECK_DEADLOCK FALSE
