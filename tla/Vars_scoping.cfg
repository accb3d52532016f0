CONSTANTS
  NoInt = NoInt
  Absent = Absent
  NoBinding = NoBinding
  Names = {a}
  Values <- Texts
  Numbers = {7}
  ParseInt <- ParseTexts
  ShowInt <- ShowNumbers
  MaxCalls = 3
  MaxSaved = 2
SPECIFICATION Spec
INVARIANTS
  CacheAgrees
  EnvExact
PROPERTIES
  ReadonlyStays
  DynamicScoping
