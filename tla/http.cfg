SPECIFICATION Spec
CONSTANTS
  Digits = {"0", "2"}
  MaxHeaders = 2
  MaxWords = 2
  MaxBody = 4
CHECK_DEADLOCK FALSE
INVARIANTS
  ParserInv
  HeadAgrees
  ContentComplete
  HeaderToFill
PROPERTIES
  ImplementsHttpFraming
