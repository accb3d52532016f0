SPECIFICATION Spec
CONSTANTS
  NStages = 2
  NJobs = 0
  Codes = {0, 1, 2}
  StageKinds = {"finite"}
  JobKinds = {}
INVARIANT PipefailHighest
CHECK_DEADLOCK FALSE
