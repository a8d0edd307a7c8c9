SPECIFICATION Spec
CONSTANTS
  Undefined = Undefined
  NaN = NaN
  Null = Null
  MaxInteger = 2000
  NumberTexts <- Typed
  ScalarTexts <- Scalars
  ListTexts <- Lists
  Neighbours <- Others
INVARIANTS  BrokenIsNamed AcceptedByService ValuesInRange ColumnHolds
PROPERTY TypedTextStays
