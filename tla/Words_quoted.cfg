SPECIFICATION Spec
CONSTANTS
  Ascii <- Order
  Tree <- Files
  Dirs <- Directories
  Cwd <- Here
  Blank = {" "}
  SplitChars = {"a", " ", ":"}
  IfsValues <- IfsSet
  MaxItems = 5
  Decimal <- Counts
  Less <- LessThan
  IntOf <- Value
  HasFile <- IsFile
  Newer <- NewerThan
  Width = 8
  Variables = {"x", "r"}
  Frozen = {"r"}
  Texts <- TextSet
  Atoms <- AtomSet
  MaxAtoms = 3
  Leaves <- LeafSet
  Operands <- OperandSet
  Numbers <- NumberSet
  MaxOperators = 2
  Envs <- EnvSet
  Parts <- PartSet
  MaxParts = 2
  Arguments <- ArgumentSet
  MaxArguments = 4
  Primaries <- PrimarySet
  MaxTests = 3
  Specs <- SpecSet
  OptionWords <- WordSet
  MaxOptionWords = 3
  Readers <- ReaderSet
  InputChars <- CharSet
  MaxInput = 4
  Whitespace = {" "}
INVARIANT NeverGlobbed
CHECK_DEADLOCK FALSE
