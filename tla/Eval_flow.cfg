SPECIFICATION Spec
CONSTANTS
  Commands = {"If", "Until", "For", "Seq", "status", "fail", "break", "continue", "return", "exit", "call", "dot", "set"}
  MaxDepth = 4
  MaxLoops = 2
  MaxRuns = 1
INVARIANTS TestedInConditions ContextExact
PROPERTY CancelUnwinds
CHECK_DEADLOCK FALSE
