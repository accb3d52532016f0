CONSTANTS
  Digits = {"1", "2"}
  Assigns = {"v=1"}
  Quoted = {"'E'"}
  TextOf <- QuoteRemoval
  Simples <- SimpleCommands
  Parts <- Added
  Follow <- After
  TailRedirs <- Tails
  MaxSize = 3
SPECIFICATION Spec
INVARIANTS
  RoundTrip
  WordsKept
CHECK_DEADLOCK FALSE
