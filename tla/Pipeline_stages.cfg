SPECIFICATION FairSpec
CONSTANTS
  NStages = 3
  NJobs = 1
  Codes = {0, 1, 2}
  StageKinds = {"finite", "reader", "endless", "tty"}
  JobKinds = {"forever"}
INVARIANTS NoStalePid NoLostChild PipelineGrouped TerminalReturned StatusCorrect CancelKillsAll StoppedResumable
PROPERTIES Terminates CancelOfLeaderReturns
CHECK_DEADLOCK FALSE
