SPECIFICATION FairSpec
CONSTANTS
  Commands = {"While", "For", "Subshell", "Pipeline", "status", "call", "trap", "comsub"}
  MaxDepth = 3
  MaxLoops = 1
  MaxRuns = 1
PROPERTY CancelEnds
CHECK_DEADLOCK FALSE
