\* Two requests with any arguments, two clients.
SPECIFICATION Spec
CONSTANTS
  Words <- MCWords
  Numeral <- MCNumeral
  Documents <- MCDocuments
  Texts <- MCTexts
  Inputs <- MCInputs
  Later <- MCLater
  Answer <- MCAnswer
  Rejected <- Undefined
  None = none
  MaxCalls = 2
  MaxClients = 2
INVARIANTS TellsLastRequest ShowsWhatIsAsked ArgumentsArrive
PROPERTIES ShowsCurrentClient StopsLoading
CHECK_DEADLOCK FALSE
