SPECIFICATION IngressFairSpec
CHECK_DEADLOCK FALSE
CONSTANTS
  impliedDecimals = 2
  HalfWord = 5000
  HalfInt = 128
  Message <- MCMessage
  Slots = 1
  Garbage <- MCGarbage
  MaxCells = 10
INVARIANTS TermsAsSent IdsAsSent
PROPERTIES AllHandled
