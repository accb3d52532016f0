SPECIFICATION Spec
CONSTANTS
  Shell = Shell
  Nobody = Nobody
  Pids = {p1, p2, p3}
  MaxOps = 2
  MaxForks = 0
  MaxStops = 0
  Strangers = 0
INVARIANT SignalsChildren
CHECK_DEADLOCK FALSE
