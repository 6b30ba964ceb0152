SPECIFICATION TickSpec
CONSTANTS
  WordBytes = 2
  AddressBytes = 1
  IntMod = 256
  ShortMod = 16
  MaxMemory = 10
  RevertLimit = 5
  MaxStack = 8
  Programs <- MCPrograms
  Listing <- MCListing
  Calldatas <- MCCalldatas
  ForeignCodes <- MCForeignCodes
  Answers <- MCAnswers
  Environment <- MCEnvironment
  Unknown <- MCUnknown
INVARIANTS TickTypeOK JumpsStayAligned
PROPERTIES WordInstructionsAreExact CopiesAreExact CallsAnswerInMemory PrecompilesAnswerInPlace
CHECK_DEADLOCK FALSE
