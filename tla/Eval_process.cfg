SPECIFICATION Spec
CONSTANTS
  Commands = {"If", "FuncDef", "status", "fail", "call", "dot", "trap", "comsub", "Subshell", "Pipeline", "Background"}
  MaxDepth = 3
  MaxLoops = 1
  MaxRuns = 2
INVARIANTS ExecCutsNoCompound MainNeverExecs ExitTrapIsOwn
CHECK_DEADLOCK FALSE
